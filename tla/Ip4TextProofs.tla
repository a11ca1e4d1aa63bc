---------------------------- MODULE Ip4TextProofs ----------------------------
(***************************************************************************)
(* The automaton of ip4_t::from_str for every base, every byte width and   *)
(* texts of every length.                                                  *)
(***************************************************************************)
EXTENDS Ip4Text, TextsProofs

\* A uint32_t has at least one value.
LEMMA WordPositive == Word \in Nat \ {0}
<1>1. Octet * Octet \in Nat \ {0}
  BY WidthAssumption
<1>2. Octet * Octet * Octet \in Nat \ {0}
  BY <1>1, WidthAssumption
<1> QED
  BY <1>2, WidthAssumption DEF Word

\* A dot leaves the automaton inside its array of three octets.
LEMMA ContType == ASSUME NEW q \in Parsers PROVE Cont(q) \in Parsers
<1>1. CASE q.accum >= Octet \/ q.octet >= 3
  BY <1>1 DEF Cont, Parsers
<1>2. CASE ~ (q.accum >= Octet \/ q.octet >= 3)
  <2>1. q.octet \in 0 .. 2 /\ q.octet + 1 \in 0 .. 3
    BY <1>2 DEF Parsers
  <2>2. q.accum \in Byte
    BY <1>2, WidthAssumption, WordPositive DEF Byte, Parsers
  <2>3. [q.result EXCEPT ![q.octet] = q.accum] \in [0 .. 2 -> Byte]
    BY <2>1, <2>2 DEF Parsers
  <2>4. 0 \in 0 .. Word - 1
    BY WordPositive
  <2> QED
    BY <1>2, <2>1, <2>3, <2>4 DEF Cont, Parsers
<1> QED
  BY <1>1, <1>2

\* A digit keeps the accumulator in its 32 bits.
LEMMA InNumberType ==
  ASSUME NEW q \in Parsers, NEW c \in Int, NEW base \in Nat, NEW state \in {"dec", "hex"}
  PROVE  InNumber(q, c, base, state) \in Parsers
<1>1. CASE c \in 0 .. base - 1
  <2>1. q.accum * base + c \in Int
    BY WordPositive DEF Parsers
  <2>2. (q.accum * base + c) % Word \in 0 .. Word - 1
    BY <2>1, WordPositive
  <2> QED
    BY <1>1, <2>2 DEF InNumber, Parsers
<1>2. CASE c \notin 0 .. base - 1
  <2>1. [q EXCEPT !.state = "error"] \in Parsers
    BY DEF Parsers
  <2> QED
    BY <1>2, <2>1, ContType DEF InNumber
<1> QED
  BY <1>1, <1>2

\* Every character leaves the automaton in one of its states.
LEMMA ReadType == ASSUME NEW q \in Parsers, NEW c \in Int PROVE Read(q, c) \in Parsers
<1>1. \A state \in {"error", "zero", "zero_x"} : [q EXCEPT !.state = state] \in Parsers
  BY DEF Parsers
<1>2. /\ InNumber(q, c, DecBase, "dec") \in Parsers
      /\ InNumber(q, c, HexBase, "hex") \in Parsers
  BY InNumberType, BaseAssumption
<1>3. q.state \in {"start", "zero", "zero_x", "dec", "hex", "error"}
  BY DEF Parsers
<1>4. CASE q.state = "error"
  BY <1>4 DEF Read
<1>5. CASE q.state = "start"
  BY <1>1, <1>2, <1>5 DEF Read
<1>6. CASE q.state = "zero"
  BY <1>1, <1>2, <1>6 DEF Read
<1>7. CASE q.state = "dec"
  BY <1>1, <1>2, <1>7 DEF Read
<1>8. CASE q.state \in {"zero_x", "hex"}
  BY <1>2, <1>8 DEF Read
<1> QED
  BY <1>3, <1>4, <1>5, <1>6, <1>7, <1>8

\* Whatever the text, ip4_t::from_str writes only inside result[3] and its
\* accumulator stays a uint32_t.
THEOREM Ip4TypeCorrect == Spec => []TypeOK
<1>1. Init => TypeOK
  BY WordPositive, WidthAssumption DEF Init, TypeOK, NewParser, Parsers, Byte
<1>2. TypeOK /\ [Next]_vars => TypeOK'
  <2> SUFFICES ASSUME TypeOK, [Next]_vars PROVE TypeOK'
    OBVIOUS
  <2>1. ASSUME NEW c \in Int, ReadAddress(c) PROVE TypeOK'
    BY <2>1, ReadType DEF TypeOK, ReadAddress
  <2>2. ASSUME NEW c \in Int, ReadTail(c) PROVE TypeOK'
    BY <2>2 DEF TypeOK, ReadTail
  <2>3. CASE UNCHANGED vars
    BY <2>3 DEF TypeOK, vars
  <2>4. Hexadecimal \cup Decimal \cup {Dot, Ex, Colon, Slash, Other} \subseteq Int
    BY BaseAssumption DEF Hexadecimal, Decimal, Dot, Ex, Colon, Slash, Other
  <2> QED
    BY <2>1, <2>2, <2>3, <2>4 DEF Next
<1> QED
  BY <1>1, <1>2, PTL DEF Spec

\* What from_str stores in the object is four bytes, whatever was read.
THEOREM FinishIsAddress == ASSUME NEW q \in Parsers PROVE Finish(q).ip \in IPs
<1>1. ZeroIP \in IPs
  BY WidthAssumption DEF ZeroIP, IPs, Byte
<1>2. ASSUME NEW n \in Nat PROVE FromNumber(n) \in IPs
  <2>1. Octet * Octet \in Nat \ {0} /\ Octet * Octet * Octet \in Nat \ {0}
    BY WidthAssumption
  <2>2. ASSUME NEW j \in 1 .. 4 PROVE Weight[j] \in Nat \ {0}
    BY <2>1, WidthAssumption DEF Weight
  <2>3. ASSUME NEW d \in Nat \ {0} PROVE (n \div d) % Octet \in Byte
    BY WidthAssumption DEF Byte
  <2> QED
    BY <2>2, <2>3 DEF FromNumber, IPs
<1>3. ASSUME q.accum < Octet
      PROVE  [j \in 1 .. 4 |-> IF j <= q.octet THEN q.result[j - 1]
                               ELSE IF j < 4 THEN 0 ELSE q.accum] \in IPs
  <2>1. q.accum \in Byte /\ 0 \in Byte
    BY <1>3, WordPositive, WidthAssumption DEF Parsers, Byte
  <2>2. ASSUME NEW j \in 1 .. 4, j <= q.octet PROVE q.result[j - 1] \in Byte
    BY <2>2 DEF Parsers
  <2> QED
    BY <2>1, <2>2 DEF IPs
<1>4. q.accum \in Nat
  BY WordPositive DEF Parsers
<1>5. ~ (q.accum >= Octet) => q.accum < Octet
  BY <1>4, WidthAssumption
<1> QED
  BY <1>1, <1>2, <1>3, <1>4, <1>5 DEF Finish

-----------------------------------------------------------------------------
(* Numbers as they are written *)

HexText(d) == <<0, Ex>> \o d

\* The marks are no digits.
LEMMA Marks ==
  /\ Decimal \subseteq Hexadecimal /\ Hexadecimal \subseteq Nat /\ Decimal \subseteq Nat
  /\ Ex \notin Nat /\ Dot \notin Nat /\ Ex # Dot /\ Ex \in Int /\ Dot \in Int
  /\ 0 \in Decimal
BY BaseAssumption DEF Decimal, Hexadecimal, Ex, Dot

\* A text of digits is a text.
LEMMA DigitsAreInt ==
  /\ \A w \in Seq(Decimal) : w \in Seq(Nat) /\ w \in Seq(Int)
  /\ \A d \in Seq(Hexadecimal) : d \in Seq(Nat) /\ d \in Seq(Int)
<1>1. ASSUME NEW A, A \subseteq Nat, NEW s \in Seq(A) PROVE s \in Seq(Nat) /\ s \in Seq(Int)
  <2> DEFINE N == Nat
             I == Int
  <2>1. A \subseteq N /\ A \subseteq I
    BY <1>1
  <2>2. s \in Seq(N) /\ s \in Seq(I)
    <3> HIDE DEF N, I
    <3> QED BY <2>1, SeqOver
  <2> QED BY <2>2
<1> QED BY <1>1, Marks

\* Decimal digits are not taken for 0x.
LEMMA DecimalIsNotHex == ASSUME NEW w \in Seq(Decimal) PROVE ~ IsHex(w)
<1>1. Len(w) \in Nat /\ \A k \in 1 .. Len(w) : w[k] \in Decimal
  OBVIOUS
<1> QED BY <1>1, Marks DEF IsHex

\* Decimal digits are read as a decimal number.
LEMMA DecimalNumber ==
  ASSUME NEW w \in Seq(Decimal)
  PROVE  /\ NumberValue(w) = Value(w, DecBase) /\ NumberValue(w) \in Nat
         /\ w # <<>> => IsNumber(w)
<1>1. w \in Seq(Nat) /\ \A k \in 1 .. Len(w) : w[k] \in Decimal
  BY Marks, DigitsAreInt
<1>2. ~ IsHex(w)
  BY DecimalIsNotHex
<1>3. NumberDigits(w) = w /\ Base(w) = DecBase
  BY <1>2 DEF NumberDigits, Base
<1>4. NumberValue(w) = Value(w, DecBase)
  BY <1>3 DEF NumberValue
<1>5. Value(w, DecBase) \in Nat
  BY <1>1, ValueSteps, BaseAssumption
<1>6. Range(w) \subseteq 0 .. DecBase - 1
  BY <1>1 DEF Range, Decimal
<1> QED BY <1>3, <1>4, <1>5, <1>6 DEF IsNumber

\* The digits of a number written with 0x, and one more of them.
LEMMA HexDigits ==
  ASSUME NEW d \in Seq(Int)
  PROVE  /\ IsHex(HexText(d)) /\ NumberDigits(HexText(d)) = d
         /\ HexText(d) \in Seq(Int)
         /\ \A c \in Int : Append(HexText(d), c) = HexText(Append(d, c))
<1>1. HexText(d) \in Seq(Int) /\ Len(HexText(d)) = Len(d) + 2
      /\ HexText(d)[1] = 0 /\ HexText(d)[2] = Ex
      /\ \A k \in 1 .. Len(d) : HexText(d)[k + 2] = d[k]
  BY Marks DEF HexText
<1>2. IsHex(HexText(d))
  BY <1>1 DEF IsHex
<1>3. SubSeq(HexText(d), 3, Len(HexText(d))) = d
  BY <1>1
<1>4. \A c \in Int : Append(HexText(d), c) = HexText(Append(d, c))
  BY Marks DEF HexText
<1> QED BY <1>1, <1>2, <1>3, <1>4 DEF NumberDigits

\* Behind 0x, hexadecimal digits are read as a hexadecimal number.
LEMMA HexNumber ==
  ASSUME NEW d \in Seq(Hexadecimal)
  PROVE  /\ NumberValue(HexText(d)) = Value(d, HexBase) /\ NumberValue(HexText(d)) \in Nat
         /\ d # <<>> => IsNumber(HexText(d))
         /\ d = <<>> => IsBareHex(HexText(d))
<1>1. d \in Seq(Nat) /\ d \in Seq(Int) /\ \A k \in 1 .. Len(d) : d[k] \in Hexadecimal
  BY Marks, DigitsAreInt
<1>2. IsHex(HexText(d)) /\ NumberDigits(HexText(d)) = d
  BY <1>1, HexDigits
<1>3. Base(HexText(d)) = HexBase
  BY <1>2 DEF Base
<1>4. NumberValue(HexText(d)) = Value(d, HexBase)
  BY <1>2, <1>3 DEF NumberValue
<1>5. Value(d, HexBase) \in Nat
  BY <1>1, ValueSteps, BaseAssumption
<1>6. Range(d) \subseteq 0 .. HexBase - 1
  BY <1>1 DEF Range, Hexadecimal
<1>7. d # <<>> => IsNumber(HexText(d))
  BY <1>2, <1>3, <1>6 DEF IsNumber
<1>8. d = <<>> => IsBareHex(HexText(d))
  BY DEF IsBareHex, HexText
<1> QED BY <1>4, <1>5, <1>7, <1>8

\* A character that is no digit makes a decimal number malformed,
LEMMA BadDecimal ==
  ASSUME NEW w \in Seq(Decimal), NEW c \in Int \ Decimal
  PROVE  ~ IsNumber(Append(w, c))
<1> DEFINE u == Append(w, c)
           n == Len(w) + 1
<1>1. /\ Len(u) = n /\ u[n] = c /\ n \in Nat /\ n > 0 /\ u \in Seq(Int)
      /\ \A k \in 1 .. Len(w) : u[k] \in Decimal
  <2>1. w \in Seq(Int) /\ \A k \in 1 .. Len(w) : w[k] \in Decimal
    BY DigitsAreInt
  <2> QED BY <2>1
<1>2. CASE IsHex(u)
  <2>1. n = 2
    BY <1>1, <1>2, Marks DEF IsHex
  <2>2. NumberDigits(u) = <<>>
    BY <1>1, <1>2, <2>1 DEF NumberDigits
  <2> QED BY <2>2 DEF IsNumber
<1>3. CASE ~ IsHex(u)
  <2>1. NumberDigits(u) = u /\ Base(u) = DecBase
    BY <1>3 DEF NumberDigits, Base
  <2>2. c \in Range(u)
    BY <1>1 DEF Range
  <2> QED BY <2>1, <2>2 DEF IsNumber, Decimal
<1> QED BY <1>2, <1>3

\* and a hexadecimal one too.
LEMMA BadHex ==
  ASSUME NEW d \in Seq(Hexadecimal), NEW c \in Int \ Hexadecimal
  PROVE  ~ IsNumber(HexText(Append(d, c)))
<1> DEFINE u == Append(d, c)
<1>1. u \in Seq(Int) /\ u[Len(u)] = c /\ Len(u) \in 1 .. Len(u)
  <2>1. d \in Seq(Int)
    BY DigitsAreInt
  <2> QED BY <2>1
<1>2. IsHex(HexText(u)) /\ NumberDigits(HexText(u)) = u
  BY <1>1, HexDigits
<1>3. c \in Range(u)
  BY <1>1 DEF Range
<1> QED BY <1>2, <1>3 DEF IsNumber, Base, Hexadecimal

-----------------------------------------------------------------------------
(* What the automaton has read *)

\* The number in front of the end of the text, w, by the state of the automaton.
Reading(w, q) ==
  \/ q.state = "start" /\ w = <<>> /\ q.accum = 0
  \/ q.state = "zero" /\ w = <<0>> /\ q.accum = 0
  \/ q.state = "zero_x" /\ w = HexText(<<>>) /\ q.accum = 0
  \/ /\ q.state = "dec" /\ w \in Seq(Decimal) \ {<<>>}
     /\ q.accum = Value(w, DecBase) % Word
  \/ /\ q.state = "hex"
     /\ \E d \in Seq(Hexadecimal) \ {<<>>} : w = HexText(d) /\ q.accum = Value(d, HexBase) % Word

\* A number that was read, as the accumulator held it.
Ended(w, n) ==
  (IsNumber(w) \/ IsBareHex(w)) /\ NumberValue(w) \in Nat /\ n = NumberValue(w) % Word

\* The pieces of the text that led to q.
Follows(ps, q) ==
  /\ Len(ps) = q.octet + 1
  /\ \A j \in 1 .. q.octet : Ended(ps[j], q.result[j - 1])
  /\ Reading(ps[Len(ps)], q)

\* Valid, of the pieces.
ValidPieces(ps) ==
  /\ Len(ps) <= 4
  /\ \A j \in DOMAIN ps : IsNumber(ps[j]) \/ (j < Len(ps) /\ IsBareHex(ps[j]))
  /\ \A j \in DOMAIN ps : NumberValue(ps[j]) < IF Len(ps) = 1 THEN Word ELSE Octet

\* No number has been read before its first character, one has been after it.
LEMMA ReadingEnds ==
  ASSUME NEW q, NEW w, Reading(w, q), q.state # "start"
  PROVE  Ended(w, q.accum) /\ (q.state # "zero_x" => IsNumber(w))
<1>1. CASE q.state = "zero"
  <2>a. <<0>> \in Seq(Decimal) /\ <<0>> # <<>>
    BY Marks
  <2>b. w = <<0>> /\ q.accum = 0
    BY <1>1 DEF Reading
  <2>1. w = <<0>> /\ w \in Seq(Decimal) /\ w # <<>> /\ q.accum = 0
    BY <2>a, <2>b
  <2>2. Value(w, DecBase) = 0
    BY <2>1, ValueOfOne, BaseAssumption
  <2>3. 0 % Word = 0
    BY WordPositive
  <2> QED BY <2>1, <2>2, <2>3, DecimalNumber DEF Ended
<1>2. CASE q.state = "zero_x"
  <2>1. w = HexText(<<>>) /\ q.accum = 0 /\ <<>> \in Seq(Hexadecimal)
    BY <1>2 DEF Reading
  <2>2. Value(<<>>, HexBase) = 0
    BY ValueSteps, BaseAssumption
  <2>3. 0 % Word = 0
    BY WordPositive
  <2>4. NumberValue(w) = 0 /\ IsBareHex(w)
    BY <2>1, <2>2, HexNumber
  <2> QED BY <1>2, <2>1, <2>3, <2>4 DEF Ended
<1>3. CASE q.state = "dec"
  <2>1. w \in Seq(Decimal) /\ w # <<>> /\ q.accum = Value(w, DecBase) % Word
    BY <1>3 DEF Reading
  <2> QED BY <2>1, DecimalNumber DEF Ended
<1>4. CASE q.state = "hex"
  <2>1. PICK d \in Seq(Hexadecimal) \ {<<>>} : w = HexText(d) /\ q.accum = Value(d, HexBase) % Word
    BY <1>4 DEF Reading
  <2> QED BY <2>1, HexNumber DEF Ended
<1>5. q.state \in {"zero", "zero_x", "dec", "hex"}
  BY DEF Reading
<1> QED BY <1>1, <1>2, <1>3, <1>4, <1>5

\* ModStep for a uint32_t.
LEMMA WordStep ==
  ASSUME NEW n \in Nat, NEW base \in Nat, NEW c \in Nat
  PROVE  ((n % Word) * base + c) % Word = (n * base + c) % Word
BY WordPositive, ModStep, Zenon

\* One more digit: the accumulator wraps as the number modulo Word does.
LEMMA DigitRead ==
  ASSUME NEW q \in Parsers, NEW c \in Nat, NEW base \in Nat, NEW d \in Seq(Nat),
         q.accum = Value(d, base) % Word
  PROVE  (q.accum * base + c) % Word = Value(Append(d, c), base) % Word
<1>1. Value(d, base) \in Nat /\ Value(Append(d, c), base) = Value(d, base) * base + c
  BY ValueSteps
<1>2. ((Value(d, base) % Word) * base + c) % Word = (Value(d, base) * base + c) % Word
  BY <1>1, WordStep, Zenon
<1> QED BY <1>1, <1>2

\* A character other than a dot goes on with the number, or makes it malformed
\* and stops the automaton.
LEMMA ReadCharacter ==
  ASSUME NEW q \in Parsers, NEW w, Reading(w, q), NEW c \in Int \ {Dot}
  PROVE  \/ Read(q, c).state = "error" /\ ~ IsNumber(Append(w, c))
         \/ /\ Read(q, c).state # "error" /\ Reading(Append(w, c), Read(q, c))
            /\ Read(q, c).octet = q.octet /\ Read(q, c).result = q.result
<1> DEFINE r == Read(q, c)
<1>1. /\ 0 .. DecBase - 1 = Decimal /\ 0 .. HexBase - 1 = Hexadecimal
      /\ DecBase \in Nat /\ HexBase \in Nat
  BY BaseAssumption DEF Decimal, Hexadecimal
<1>2. \A state \in {"error", "zero", "zero_x"} :
        LET z == [q EXCEPT !.state = state]
        IN  z.state = state /\ z.accum = q.accum /\ z.octet = q.octet /\ z.result = q.result
  BY DEF Parsers
<1>3. ASSUME NEW d \in Seq(Decimal), q.accum = Value(d, DecBase) % Word, c \in Decimal,
             r = InNumber(q, c, DecBase, "dec")
      PROVE  Reading(Append(d, c), r) /\ r.state = "dec" /\ r.octet = q.octet /\ r.result = q.result
  <2>a. Append(d, c) \in Seq(Decimal) \ {<<>>}
    BY <1>3
  <2>1. d \in Seq(Nat) /\ c \in Nat /\ Append(d, c) \in Seq(Decimal) \ {<<>>}
    BY <1>3, <2>a, DigitsAreInt, Marks
  <2>2. /\ r.state = "dec" /\ r.accum = (q.accum * DecBase + c) % Word
        /\ r.octet = q.octet /\ r.result = q.result
    <3>1. c \in 0 .. DecBase - 1 /\ DecBase \in Nat /\ c \in Int
      BY <1>1, <1>3
    <3> HIDE DEF r
    <3> DEFINE i == InNumber(q, c, DecBase, "dec")
    <3>2. r = i
      BY <1>3
    <3>3. /\ i.state = "dec" /\ i.accum = (q.accum * DecBase + c) % Word
          /\ i.octet = q.octet /\ i.result = q.result
      BY <3>1 DEF InNumber, Parsers
    <3> QED BY <3>2, <3>3
  <2>3. r.accum = Value(Append(d, c), DecBase) % Word
    BY <1>1, <1>3, <2>1, <2>2, DigitRead
  <2> HIDE DEF r
  <2> QED BY <2>1, <2>2, <2>3 DEF Reading
<1>4. ASSUME NEW d \in Seq(Hexadecimal), q.accum = Value(d, HexBase) % Word, c \in Hexadecimal,
             r = InNumber(q, c, HexBase, "hex"), w = HexText(d)
      PROVE  Reading(Append(w, c), r) /\ r.state = "hex" /\ r.octet = q.octet /\ r.result = q.result
  <2>a. Append(d, c) \in Seq(Hexadecimal) \ {<<>>}
    BY <1>4
  <2>1. /\ d \in Seq(Nat) /\ c \in Nat /\ d \in Seq(Int)
        /\ Append(d, c) \in Seq(Hexadecimal) \ {<<>>}
    BY <1>4, <2>a, DigitsAreInt, Marks
  <2>2. /\ r.state = "hex" /\ r.accum = (q.accum * HexBase + c) % Word
        /\ r.octet = q.octet /\ r.result = q.result
    <3>1. c \in 0 .. HexBase - 1 /\ HexBase \in Nat /\ c \in Int
      BY <1>1, <1>4
    <3> HIDE DEF r
    <3> DEFINE i == InNumber(q, c, HexBase, "hex")
    <3>2. r = i
      BY <1>4
    <3>3. /\ i.state = "hex" /\ i.accum = (q.accum * HexBase + c) % Word
          /\ i.octet = q.octet /\ i.result = q.result
      BY <3>1 DEF InNumber, Parsers
    <3> QED BY <3>2, <3>3
  <2>3. r.accum = Value(Append(d, c), HexBase) % Word
    BY <1>1, <1>4, <2>1, <2>2, DigitRead
  <2>4. Append(w, c) = HexText(Append(d, c))
    BY <1>4, <2>1, HexDigits
  <2> HIDE DEF r
  <2> QED BY <2>1, <2>2, <2>3, <2>4 DEF Reading
<1>5. <<>> \in Seq(Decimal) /\ <<0>> \in Seq(Decimal) /\ <<>> \in Seq(Hexadecimal)
  BY Marks
<1>6. /\ Value(<<>>, DecBase) = 0 /\ Value(<<0>>, DecBase) = 0 /\ Value(<<>>, HexBase) = 0
      /\ 0 % Word = 0
  BY <1>1, ValueSteps, ValueOfOne, WordPositive
<1>7. CASE q.state = "start"
  <2>1. w = <<>> /\ q.accum = 0
    BY <1>7 DEF Reading
  <2>2. CASE c \notin Decimal
    <3>1. r = [q EXCEPT !.state = "error"]
      BY <1>7, <2>2 DEF Read
    <3> QED BY <1>2, <1>5, <2>1, <2>2, <3>1, BadDecimal
  <2>3. CASE c = 0
    <3>1. r = [q EXCEPT !.state = "zero"]
      BY <1>7, <2>3, Marks DEF Read
    <3>2. r.state = "zero" /\ r.accum = 0 /\ r.octet = q.octet /\ r.result = q.result
      BY <1>2, <2>1, <3>1
    <3>3. Append(w, c) = <<0>>
      BY <2>1, <2>3
    <3> HIDE DEF r
    <3>4. Reading(Append(w, c), r)
      BY <3>2, <3>3 DEF Reading
    <3> QED BY <3>2, <3>4 DEF r
  <2>4. CASE c \in Decimal /\ c # 0
    <3>1. r = InNumber(q, c, DecBase, "dec")
      BY <1>7, <2>4 DEF Read
    <3> QED BY <1>3, <1>5, <1>6, <2>1, <2>4, <3>1
  <2> QED BY <2>2, <2>3, <2>4
<1>8. ASSUME NEW d \in Seq(Decimal), w = d, q.accum = Value(d, DecBase) % Word, c # Ex,
             q.state \in {"zero", "dec"}
      PROVE  \/ r.state = "error" /\ ~ IsNumber(Append(w, c))
             \/ /\ r.state # "error" /\ Reading(Append(w, c), r)
                /\ r.octet = q.octet /\ r.result = q.result
  <2>1. r = InNumber(q, c, DecBase, "dec")
    BY <1>8 DEF Read
  <2>2. CASE c \in Decimal
    BY <1>3, <1>8, <2>1, <2>2
  <2>3. CASE c \notin Decimal
    <3>1. r = [q EXCEPT !.state = "error"]
      BY <1>1, <2>1, <2>3 DEF InNumber
    <3> QED BY <1>2, <1>8, <2>3, <3>1, BadDecimal
  <2> QED BY <2>2, <2>3
<1>9. CASE q.state = "zero" /\ c = Ex
  <2>1. w = <<0>> /\ q.accum = 0
    BY <1>9 DEF Reading
  <2>2. r = [q EXCEPT !.state = "zero_x"]
    BY <1>9 DEF Read
  <2>3. r.state = "zero_x" /\ r.accum = 0 /\ r.octet = q.octet /\ r.result = q.result
    BY <1>2, <2>1, <2>2
  <2>4. Append(w, c) = HexText(<<>>)
    <3>1. <<0, Ex>> \in Seq(Int) /\ <<0, Ex>> \o <<>> = <<0, Ex>>
      BY Marks
    <3>2. ASSUME NEW x \in Int, NEW y \in Int PROVE Append(<<x>>, y) = <<x, y>>
      <4>1. <<x>> \in Seq(Int) /\ <<x, y>> \in Seq(Int) /\ Len(<<x, y>>) = 2 /\ Len(<<x>>) = 1
        OBVIOUS
      <4>2. Append(<<x>>, y) \in Seq(Int) /\ Len(Append(<<x>>, y)) = 2
            /\ Append(<<x>>, y)[1] = x /\ Append(<<x>>, y)[2] = y
        BY <4>1
      <4>3. \A k \in 1 .. 2 : Append(<<x>>, y)[k] = <<x, y>>[k]
        <5>1. \A k \in 1 .. 2 : k = 1 \/ k = 2
          OBVIOUS
        <5> QED BY <4>2, <5>1
      <4> QED BY <4>1, <4>2, <4>3, SeqEqual
    <3>3. Append(<<0>>, Ex) = <<0, Ex>>
      BY <3>2, Marks
    <3> QED BY <1>9, <2>1, <3>1, <3>3 DEF HexText
  <2> HIDE DEF r
  <2>5. Reading(Append(w, c), r)
    BY <2>3, <2>4 DEF Reading
  <2> QED BY <2>3, <2>5 DEF r
<1>10. CASE q.state = "dec" /\ c = Ex
  <2>1. w \in Seq(Decimal)
    BY <1>10 DEF Reading
  <2>2. r = [q EXCEPT !.state = "error"] /\ c \notin Decimal
    BY <1>10, Marks DEF Read
  <2> QED BY <1>2, <2>1, <2>2, BadDecimal
<1>11. CASE q.state \in {"zero_x", "hex"}
  <2>1. PICK d \in Seq(Hexadecimal) : w = HexText(d) /\ q.accum = Value(d, HexBase) % Word
    BY <1>5, <1>6, <1>11 DEF Reading
  <2>2. r = InNumber(q, c, HexBase, "hex")
    BY <1>11 DEF Read
  <2>3. CASE c \in Hexadecimal
    BY <1>4, <2>1, <2>2, <2>3
  <2>4. CASE c \notin Hexadecimal
    <3>1. r = [q EXCEPT !.state = "error"]
      BY <1>1, <2>2, <2>4 DEF InNumber
    <3>2. Append(w, c) = HexText(Append(d, c))
      BY <2>1, DigitsAreInt, HexDigits
    <3> QED BY <1>2, <2>4, <3>1, <3>2, BadHex
  <2> QED BY <2>3, <2>4
<1>12. CASE q.state = "zero" /\ c # Ex
  <2>1. w = <<0>> /\ q.accum = 0
    BY <1>12 DEF Reading
  <2> QED BY <1>5, <1>6, <1>8, <1>12, <2>1
<1>13. CASE q.state = "dec" /\ c # Ex
  <2>1. w \in Seq(Decimal) /\ q.accum = Value(w, DecBase) % Word
    BY <1>13 DEF Reading
  <2> QED BY <1>8, <1>13, <2>1
<1>14. q.state \in {"start", "zero", "zero_x", "dec", "hex"}
  BY DEF Reading
<1> QED BY <1>7, <1>9, <1>10, <1>11, <1>12, <1>13, <1>14

\* Neither no character nor too large a number is a number of an address.
LEMMA NoNumber == ~ IsNumber(<<>>) /\ ~ IsBareHex(<<>>)
BY DEF IsNumber, NumberDigits, IsHex, IsBareHex

\* A dot ends the number if it is one, fits an octet and another may follow;
\* otherwise the automaton stops, at a text that is not valid.
LEMMA ReadDot ==
  ASSUME NEW q \in Parsers, NEW ps \in Seq(Seq(Int)) \ {<<>>}, Follows(ps, q)
  PROVE  \/ Read(q, Dot).state = "error" /\ ~ ValidPieces(Append(ps, <<>>))
         \/ Read(q, Dot).state # "error" /\ Follows(Append(ps, <<>>), Read(q, Dot))
<1> DEFINE n == Len(ps)
           qs == Append(ps, <<>>)
           r == Read(q, Dot)
<1>1. n \in Nat /\ n > 0 /\ n = q.octet + 1 /\ q.octet \in 0 .. 3
  BY DEF Follows, Parsers
<1>2. /\ Len(qs) = n + 1 /\ DOMAIN qs = 1 .. n + 1 /\ qs[n + 1] = <<>>
      /\ \A j \in 1 .. n : qs[j] = ps[j]
  <2>1. <<>> \in Seq(Int)
    OBVIOUS
  <2> QED BY <2>1
<1>3. n \in 1 .. n /\ n \in 1 .. n + 1 /\ ~ (n + 1 = 1)
  BY <1>1
<1>4. Reading(ps[n], q)
  BY DEF Follows
<1> HIDE DEF qs, r, n
<1>5. CASE q.state = "start"
  <2>1. r.state = "error"
    BY <1>5, Marks DEF r, Read, Parsers
  <2>2. qs[n] = <<>>
    BY <1>2, <1>3, <1>4, <1>5 DEF Reading
  <2>3. ~ ValidPieces(qs)
    BY <1>2, <1>3, <2>2, NoNumber DEF ValidPieces
  <2> QED BY <2>1, <2>3 DEF qs, r
<1>6. CASE q.state # "start"
  <2>1. r = Cont(q)
    <3>1. Dot \notin 0 .. DecBase - 1 /\ Dot \notin 0 .. HexBase - 1
      BY BaseAssumption DEF Dot
    <3>2. q.state \in {"zero", "zero_x", "dec", "hex"} /\ Dot # Ex
      BY <1>4, <1>6, Marks DEF Reading
    <3> QED BY <3>1, <3>2 DEF r, Read, InNumber
  <2>2. Ended(ps[n], q.accum)
    BY <1>4, <1>6, ReadingEnds
  <2>3. CASE q.accum >= Octet
    <3>1. r.state = "error"
      BY <2>1, <2>3 DEF Cont, Parsers
    <3>2. ~ (NumberValue(qs[n]) < Octet)
      <4>1. NumberValue(ps[n]) \in Nat /\ q.accum = NumberValue(ps[n]) % Word
        BY <2>2 DEF Ended
      <4>2. q.accum \in Nat /\ q.accum <= NumberValue(ps[n])
        BY <4>1, RemainderBelow, WordPositive
      <4> QED BY <1>2, <1>3, <2>3, <4>1, <4>2, WidthAssumption
    <3>3. ~ ValidPieces(qs)
      BY <1>2, <1>3, <3>2 DEF ValidPieces
    <3> QED BY <3>1, <3>3 DEF qs, r
  <2>4. CASE q.octet >= 3
    <3>1. r.state = "error"
      BY <2>1, <2>4 DEF Cont, Parsers
    <3>2. ~ (Len(qs) <= 4)
      BY <1>1, <1>2, <2>4
    <3>3. ~ ValidPieces(qs)
      BY <3>2 DEF ValidPieces
    <3> QED BY <3>1, <3>3 DEF qs, r
  <2>5. CASE ~ (q.accum >= Octet \/ q.octet >= 3)
    <3>1. /\ r.state = "start" /\ r.accum = 0 /\ r.octet = q.octet + 1
          /\ r.result = [q.result EXCEPT ![q.octet] = q.accum]
      BY <2>1, <2>5 DEF Cont
    <3>2. q.octet \in 0 .. 2 /\ q.result \in [0 .. 2 -> Byte]
      BY <1>1, <2>5 DEF Parsers
    <3>3. ASSUME NEW j \in 1 .. r.octet PROVE Ended(qs[j], r.result[j - 1])
      <4>1. CASE j = n
        <5>a. j - 1 = q.octet
          BY <1>1, <4>1
        <5>b. qs[j] = ps[n]
          BY <1>2, <1>3, <4>1
        <5>1. j - 1 = q.octet /\ qs[j] = ps[n]
          BY <5>a, <5>b
        <5>2. r.result[j - 1] = q.accum
          BY <3>1, <3>2, <5>1
        <5> QED BY <2>2, <5>1, <5>2
      <4>2. CASE j # n
        <5>1. j \in 1 .. q.octet /\ j \in 1 .. n /\ j - 1 # q.octet /\ j - 1 \in 0 .. 2
          BY <1>1, <3>1, <3>2, <4>2
        <5>2. r.result[j - 1] = q.result[j - 1] /\ qs[j] = ps[j]
          BY <1>2, <3>1, <3>2, <5>1
        <5>3. Ended(ps[j], q.result[j - 1])
          BY <5>1 DEF Follows
        <5> QED BY <5>2, <5>3
      <4> QED BY <4>1, <4>2
    <3>4. Reading(qs[n + 1], r)
      BY <1>2, <3>1 DEF Reading
    <3>5. Len(qs) = r.octet + 1
      BY <1>1, <1>2, <3>1
    <3>6. Follows(qs, r)
      BY <1>2, <3>3, <3>4, <3>5 DEF Follows
    <3> QED BY <3>1, <3>6 DEF qs, r
  <2> QED BY <2>3, <2>4, <2>5
<1> QED BY <1>5, <1>6

\* Every other character belongs to the last piece.
LEMMA ReadOther ==
  ASSUME NEW q \in Parsers, NEW ps \in Seq(Seq(Int)) \ {<<>>}, Follows(ps, q), NEW c \in Int \ {Dot}
  PROVE  LET qs == [ps EXCEPT ![Len(ps)] = Append(@, c)]
         IN  \/ Read(q, c).state = "error" /\ ~ ValidPieces(qs)
             \/ Read(q, c).state # "error" /\ Follows(qs, Read(q, c))
<1> DEFINE n == Len(ps)
           w == ps[n]
           qs == [ps EXCEPT ![n] = Append(@, c)]
           r == Read(q, c)
<1>1. n \in Nat /\ n > 0 /\ n = q.octet + 1 /\ q.octet \in 0 .. 3 /\ n \in 1 .. n
  BY DEF Follows, Parsers
<1>2. /\ Len(qs) = n /\ DOMAIN qs = 1 .. n /\ qs[n] = Append(w, c)
      /\ \A j \in 1 .. n : j # n => qs[j] = ps[j]
  BY <1>1
<1>3. Reading(w, q)
  BY DEF Follows
<1> HIDE DEF n, w, qs, r
<1>4. \/ r.state = "error" /\ ~ IsNumber(Append(w, c))
      \/ /\ r.state # "error" /\ Reading(Append(w, c), r)
         /\ r.octet = q.octet /\ r.result = q.result
  BY <1>3, ReadCharacter DEF r
<1>5. CASE r.state = "error"
  <2>1. ~ IsNumber(qs[n]) /\ ~ (n < n)
    BY <1>1, <1>2, <1>4, <1>5
  <2>2. ~ ValidPieces(qs)
    BY <1>1, <1>2, <2>1 DEF ValidPieces
  <2> QED BY <1>5, <2>2 DEF qs, r, n
<1>6. CASE r.state # "error"
  <2>1. Reading(qs[n], r) /\ r.octet = q.octet /\ r.result = q.result
    BY <1>2, <1>4, <1>6
  <2>2. ASSUME NEW j \in 1 .. r.octet PROVE Ended(qs[j], r.result[j - 1])
    <3>1. j \in 1 .. q.octet /\ j \in 1 .. n /\ j # n
      BY <1>1, <2>1
    <3>2. Ended(ps[j], q.result[j - 1])
      BY <3>1 DEF Follows
    <3> QED BY <1>2, <2>1, <3>1, <3>2
  <2>3. Follows(qs, r)
    BY <1>1, <1>2, <2>1, <2>2 DEF Follows
  <2> QED BY <1>6, <2>3 DEF qs, r, n
<1> QED BY <1>5, <1>6

-----------------------------------------------------------------------------
(* ip4_t::from_str accepts the texts it is meant to *)

\* The automaton has read the pieces of the text, or has stopped at a text that
\* is not valid.
PieceInv ==
  IF p.state = "error" THEN ~ ValidPieces(Pieces(text)) ELSE Follows(Pieces(text), p)

\* Every character keeps the automaton in step with the pieces.
LEMMA PieceInvariance == Spec => [](TypeOK /\ PieceInv)
<1>1. Init => PieceInv
  <2> SUFFICES ASSUME Init PROVE PieceInv
    OBVIOUS
  <2>1. text = <<>> /\ p.state = "start" /\ p.octet = 0 /\ p.accum = 0
    BY DEF Init, NewParser
  <2>2. Pieces(text) = << <<>> >>
    <3>1. SplitAt(<<>>, Dot) = << <<>> >>
      BY SplitSteps, Zenon
    <3> QED BY <2>1, <3>1, Zenon DEF Pieces
  <2>3. Len(<< <<>> >>) = 1 /\ << <<>> >>[1] = <<>>
    OBVIOUS
  <2>4. Follows(Pieces(text), p)
    <3> DEFINE ps == Pieces(text)
    <3>1. Len(ps) = 1 /\ ps[1] = <<>>
      BY <2>2, <2>3
    <3> HIDE DEF ps
    <3>2. Reading(<<>>, p)
      BY <2>1 DEF Reading
    <3>3. 1 .. p.octet = {} /\ Len(ps) = p.octet + 1 /\ ps[Len(ps)] = <<>>
      BY <2>1, <3>1
    <3>4. Follows(ps, p)
      BY <3>2, <3>3 DEF Follows
    <3> QED BY <3>4 DEF ps
  <2> QED BY <2>1, <2>4 DEF PieceInv
<1>2. TypeOK /\ PieceInv /\ [Next]_vars => PieceInv'
  <2> SUFFICES ASSUME TypeOK, PieceInv, [Next]_vars PROVE PieceInv'
    OBVIOUS
  <2>1. ASSUME NEW c \in Int, ReadAddress(c) PROVE PieceInv'
    <3> DEFINE ps == Pieces(text)
               qs == Pieces(Append(text, c))
               r == Read(p, c)
    <3>1. text \in Seq(Int) /\ p \in Parsers /\ p.state # "error"
          /\ text' = Append(text, c) /\ p' = r
      BY <2>1 DEF TypeOK, ReadAddress
    <3>2. Follows(ps, p)
      BY <3>1 DEF PieceInv
    <3>3. ps \in Seq(Seq(Int)) \ {<<>>} /\ qs = WithLast(ps, c, Dot)
      BY <3>1, SplitSteps DEF Pieces
    <3> HIDE DEF ps, qs, r
    <3>4. \/ r.state = "error" /\ ~ ValidPieces(qs)
          \/ r.state # "error" /\ Follows(qs, r)
      <4>1. CASE c = Dot
        <5>1. qs = Append(ps, <<>>)
          BY <3>3, <4>1 DEF WithLast
        <5> QED BY <3>1, <3>2, <3>3, <4>1, <5>1, ReadDot DEF r
      <4>2. CASE c # Dot
        <5>1. qs = [ps EXCEPT ![Len(ps)] = Append(@, c)]
          BY <3>3, <4>2 DEF WithLast
        <5> QED BY <3>1, <3>2, <3>3, <4>2, <5>1, ReadOther DEF r
      <4> QED BY <4>1, <4>2
    <3>5. Pieces(text)' = qs
      BY <3>1 DEF qs, Pieces
    <3> QED BY <3>1, <3>4, <3>5 DEF PieceInv
  <2>2. CASE UNCHANGED <<text, p>>
    BY <2>2 DEF PieceInv, Pieces
  <2>3. \A c : ReadTail(c) => UNCHANGED <<text, p>>
    BY DEF ReadTail
  <2>4. Hexadecimal \cup {Dot, Ex, Other} \subseteq Int
    BY BaseAssumption DEF Hexadecimal, Dot, Ex, Other
  <2> QED BY <2>1, <2>2, <2>3, <2>4 DEF Next, vars
<1> QED BY <1>1, <1>2, Ip4TypeCorrect, PTL DEF Spec

\* The number of four bytes, the most significant one first.
LEMMA ValueOfFour ==
  ASSUME NEW a \in Nat, NEW b \in Nat, NEW c \in Nat, NEW d \in Nat, NEW base \in Nat
  PROVE  Value(<<a, b, c, d>>, base) = ((a * base + b) * base + c) * base + d
<1>1. /\ <<a>> \in Seq(Nat) /\ <<a, b>> \in Seq(Nat) /\ <<a, b, c>> \in Seq(Nat)
      /\ <<a, b>> = Append(<<a>>, b) /\ <<a, b, c>> = Append(<<a, b>>, c)
      /\ <<a, b, c, d>> = Append(<<a, b, c>>, d)
  OBVIOUS
<1>2. Value(<<a>>, base) = a
  BY ValueOfOne
<1>3. ASSUME NEW s \in Seq(Nat), NEW x \in Nat, NEW t, t = Append(s, x), NEW v, Value(s, base) = v
      PROVE  Value(t, base) = v * base + x
  BY <1>3, ValueSteps
<1>4. Value(<<a, b>>, base) = a * base + b
  <2> DEFINE s == <<a>>
             t == <<a, b>>
  <2>1. s \in Seq(Nat) /\ t = Append(s, b) /\ Value(s, base) = a
    BY <1>1, <1>2
  <2> HIDE DEF s, t
  <2>2. Value(t, base) = a * base + b
    BY <1>3, <2>1
  <2> QED BY <2>2 DEF t
<1>5. Value(<<a, b, c>>, base) = (a * base + b) * base + c
  <2> DEFINE s == <<a, b>>
             t == <<a, b, c>>
             v == a * base + b
  <2>1. s \in Seq(Nat) /\ t = Append(s, c) /\ Value(s, base) = v
    BY <1>1, <1>4
  <2> HIDE DEF s, t, v
  <2>2. Value(t, base) = v * base + c
    BY <1>3, <2>1
  <2> QED BY <2>2 DEF t, v
<1> DEFINE s == <<a, b, c>>
           t == <<a, b, c, d>>
           v == (a * base + b) * base + c
<1>6. s \in Seq(Nat) /\ t = Append(s, d) /\ Value(s, base) = v
  BY <1>1, <1>5
<1> HIDE DEF s, t, v
<1>7. Value(t, base) = v * base + d
  BY <1>3, <1>6
<1> QED BY <1>7 DEF t, v

\* The bytes that htonT makes of a uint32_t are its digits to the base Octet.
LEMMA NumberOfBytes ==
  ASSUME NEW n \in Nat, n < Word
  PROVE  ToNumber(FromNumber(n)) = n
<1> DEFINE a == FromNumber(n)
           n1 == n \div Octet
           n2 == n1 \div Octet
           n3 == n2 \div Octet
<1>1. Octet \in Nat \ {0} /\ Octet * Octet \in Nat \ {0} /\ Octet * Octet * Octet \in Nat \ {0}
  <2>1. Octet * Octet \in Nat \ {0}
    BY WidthAssumption
  <2> QED BY <2>1, WidthAssumption
<1>2. /\ n1 \in Nat /\ n % Octet \in Nat /\ n = Octet * n1 + (n % Octet)
      /\ n2 \in Nat /\ n1 % Octet \in Nat /\ n1 = Octet * n2 + (n1 % Octet)
      /\ n3 \in Nat /\ n2 % Octet \in Nat /\ n2 = Octet * n3 + (n2 % Octet)
  <2>1. ASSUME NEW k \in Nat
        PROVE k \div Octet \in Nat /\ k % Octet \in Nat /\ k = Octet * (k \div Octet) + (k % Octet)
    BY <1>1, DivMod
  <2>2. n1 \in Nat /\ n % Octet \in Nat /\ n = Octet * n1 + (n % Octet)
    BY <2>1
  <2> HIDE DEF n1
  <2>3. n2 \in Nat /\ n1 % Octet \in Nat /\ n1 = Octet * n2 + (n1 % Octet)
    BY <2>1, <2>2
  <2> HIDE DEF n2
  <2>4. n3 \in Nat /\ n2 % Octet \in Nat /\ n2 = Octet * n3 + (n2 % Octet)
    BY <2>1, <2>3
  <2> QED BY <2>2, <2>3, <2>4
<1>3. n2 = n \div (Octet * Octet) /\ n3 = n \div (Octet * Octet * Octet)
  <2>1. n2 = n \div (Octet * Octet)
    BY <1>1, DivDiv
  <2>2. n3 = n \div (Octet * Octet * Octet)
    <3>1. (n \div (Octet * Octet)) \div Octet = n \div (Octet * Octet * Octet)
      BY <1>1, DivDiv
    <3> QED BY <2>1, <3>1
  <2> QED BY <2>1, <2>2
<1>4. n3 < Octet
  <2> HIDE DEF n1, n2, n3
  <2>1. SUFFICES ASSUME n3 >= Octet PROVE FALSE
    BY <1>1, <1>2
  <2>2. n2 >= Octet * Octet
    <3>1. Octet * n3 >= Octet * Octet
      <4>1. PICK k \in Nat : n3 = Octet + k
        <5>1. n3 - Octet \in Nat /\ n3 = Octet + (n3 - Octet)
          BY <1>1, <1>2, <2>1
        <5> QED BY <5>1
      <4>2. Octet * n3 = Octet * Octet + Octet * k /\ Octet * k \in Nat
        BY <1>1, <4>1
      <4> QED BY <1>1, <4>2
    <3>2. Octet * n3 \in Nat
      BY <1>1, <1>2
    <3> QED BY <1>1, <1>2, <3>1, <3>2
  <2>3. ASSUME NEW x \in Nat, NEW y \in Nat, NEW z \in Nat, NEW r \in Nat,
               x >= y, z = Octet * x + r
        PROVE  z >= y * Octet
    <3>1. PICK k \in Nat : x = y + k
      <4>1. x - y \in Nat /\ x = y + (x - y)
        BY <2>3
      <4> QED BY <4>1
    <3>2. Octet * x = y * Octet + Octet * k /\ Octet * k \in Nat /\ y * Octet \in Nat
      BY <1>1, <3>1
    <3> QED BY <2>3, <3>2
  <2>4. n1 >= Octet * Octet * Octet
    <3> DEFINE y == Octet * Octet
               r == n1 % Octet
    <3>1. n1 = Octet * n2 + r /\ y \in Nat /\ r \in Nat /\ n2 >= y
      BY <1>1, <1>2, <2>2
    <3>2. n1 >= y * Octet
      <4> HIDE DEF y, r
      <4> QED BY <1>2, <2>3, <3>1
    <3> QED BY <3>2
  <2>5. n >= Octet * Octet * Octet * Octet
    <3> DEFINE y == Octet * Octet * Octet
               r == n % Octet
    <3>1. n = Octet * n1 + r /\ y \in Nat /\ r \in Nat /\ n1 >= y
      BY <1>1, <1>2, <2>4
    <3>2. n >= y * Octet
      <4> HIDE DEF y, r
      <4> QED BY <1>2, <2>3, <3>1
    <3> QED BY <3>2
  <2>6. Word \in Nat
    BY WordPositive
  <2> QED BY <2>5, <2>6 DEF Word
<1>5. a[1] = n3 /\ a[2] = n2 % Octet /\ a[3] = n1 % Octet /\ a[4] = n % Octet
  <2>1. /\ a[1] = (n \div (Octet * Octet * Octet)) % Octet
        /\ a[2] = (n \div (Octet * Octet)) % Octet
        /\ a[3] = (n \div Octet) % Octet
        /\ a[4] = (n \div 1) % Octet
    BY DEF FromNumber, Weight
  <2>2. n \div 1 = n
    OBVIOUS
  <2>3. n3 % Octet = n3
    <3> HIDE DEF n3
    <3> QED BY <1>1, <1>2, <1>4, RemainderBelow
  <2> QED BY <1>3, <2>1, <2>2, <2>3
<1> HIDE DEF a, n1, n2, n3
<1>6. a[1] \in Nat /\ a[2] \in Nat /\ a[3] \in Nat /\ a[4] \in Nat /\ Octet \in Nat
  BY <1>1, <1>2, <1>5
<1>7. Value(<<a[1], a[2], a[3], a[4]>>, Octet)
        = ((a[1] * Octet + a[2]) * Octet + a[3]) * Octet + a[4]
  <2>1. ASSUME NEW b \in Nat, NEW c \in Nat, NEW d \in Nat, NEW e \in Nat
        PROVE  Value(<<b, c, d, e>>, Octet) = ((b * Octet + c) * Octet + d) * Octet + e
    BY <1>6, ValueOfFour
  <2>2. PICK b \in Nat, c \in Nat, d \in Nat, e \in Nat : b = a[1] /\ c = a[2] /\ d = a[3] /\ e = a[4]
    BY <1>6
  <2>3. Value(<<b, c, d, e>>, Octet) = ((b * Octet + c) * Octet + d) * Octet + e
    BY <2>1
  <2> QED BY <2>2, <2>3
<1>8. ((n3 * Octet + a[2]) * Octet + a[3]) * Octet + a[4] = n
  <2>1. n3 * Octet = Octet * n3 /\ n2 * Octet = Octet * n2 /\ n1 * Octet = Octet * n1
    BY <1>1, <1>2
  <2>2. n3 * Octet + a[2] = n2
    BY <1>2, <1>5, <2>1
  <2>3. n2 * Octet + a[3] = n1
    BY <1>2, <1>5, <2>1
  <2>4. n1 * Octet + a[4] = n
    BY <1>2, <1>5, <2>1
  <2> QED BY <2>2, <2>3, <2>4
<1> QED BY <1>5, <1>7, <1>8 DEF ToNumber, a

\* An octet is a uint32_t.
LEMMA OctetBelowWord == Octet \in Nat \ {0} /\ Word \in Nat \ {0} /\ Octet <= Word
<1>1. \A x \in Nat \ {0} : x * Octet \in Nat \ {0} /\ Octet <= x * Octet
  <2> TAKE x \in Nat \ {0}
  <2>1. PICK k \in Nat : x = k + 1
    <3>1. x - 1 \in Nat /\ x = (x - 1) + 1
      OBVIOUS
    <3> QED BY <3>1
  <2>2. x * Octet = k * Octet + Octet /\ k * Octet \in Nat
    BY <2>1, WidthAssumption
  <2> QED BY <2>2, WidthAssumption
<1>2. Octet * Octet * Octet \in Nat \ {0}
  BY <1>1, WidthAssumption
<1> QED BY <1>1, <1>2, WidthAssumption DEF Word

\* An accepted text: the automaton ended in a number, and every number of the
\* text below Word is the one the automaton has.
LEMMA EndOfText ==
  ASSUME NEW q \in Parsers, NEW ps \in Seq(Seq(Int)) \ {<<>>}, Follows(ps, q)
  PROVE  /\ Len(ps) = q.octet + 1 /\ Len(ps) \in 1 .. 4 /\ DOMAIN ps = 1 .. Len(ps)
         /\ q.state \in {"start", "zero_x"} => ~ IsNumber(ps[Len(ps)])
         /\ q.state \notin {"start", "zero_x"} =>
              /\ IsNumber(ps[Len(ps)]) /\ Ended(ps[Len(ps)], q.accum)
         /\ \A j \in 1 .. q.octet : Ended(ps[j], q.result[j - 1])
<1>1. Len(ps) = q.octet + 1 /\ Len(ps) \in 1 .. 4 /\ DOMAIN ps = 1 .. Len(ps)
  BY DEF Follows, Parsers
<1>2. Reading(ps[Len(ps)], q) /\ \A j \in 1 .. q.octet : Ended(ps[j], q.result[j - 1])
  BY DEF Follows
<1>3. ~ IsNumber(HexText(<<>>))
  <2>1. <<>> \in Seq(Int)
    OBVIOUS
  <2>2. NumberDigits(HexText(<<>>)) = <<>>
    BY <2>1, HexDigits
  <2> QED BY <2>2 DEF IsNumber
<1>4. q.state = "start" => ps[Len(ps)] = <<>>
  BY <1>2 DEF Reading
<1>5. q.state = "zero_x" => ps[Len(ps)] = HexText(<<>>)
  BY <1>2 DEF Reading
<1>6. q.state \in {"start", "zero_x"} => ~ IsNumber(ps[Len(ps)])
  BY <1>3, <1>4, <1>5, NoNumber
<1>7. ASSUME q.state \notin {"start", "zero_x"}
      PROVE  IsNumber(ps[Len(ps)]) /\ Ended(ps[Len(ps)], q.accum)
  BY <1>2, <1>7, ReadingEnds
<1> QED BY <1>1, <1>2, <1>6, <1>7

\* ParsesEveryForm, of the pieces.
LEMMA AcceptsValid ==
  ASSUME NEW q \in Parsers, NEW s, Pieces(s) \in Seq(Seq(Int)) \ {<<>>},
         Follows(Pieces(s), q), ValidPieces(Pieces(s)), q.state # "error"
  PROVE  Finish(q).success /\ Means(Finish(q).ip, s)
<1> DEFINE ps == Pieces(s)
           n == Len(ps)
           last == NumberValue(ps[n])
<1>1. /\ n = q.octet + 1 /\ n \in 1 .. 4 /\ DOMAIN ps = 1 .. n /\ q.octet \in 0 .. 3
      /\ q.state \in {"start", "zero_x"} => ~ IsNumber(ps[n])
      /\ q.state \notin {"start", "zero_x"} => Ended(ps[n], q.accum)
      /\ \A j \in 1 .. q.octet : Ended(ps[j], q.result[j - 1])
  BY EndOfText DEF Parsers
<1>2. /\ \A j \in 1 .. n : IsNumber(ps[j]) \/ (j < n /\ IsBareHex(ps[j]))
      /\ \A j \in 1 .. n : NumberValue(ps[j]) < IF n = 1 THEN Word ELSE Octet
  BY <1>1 DEF ValidPieces
<1> HIDE DEF ps, n
<1>3. n \in 1 .. n /\ ~ (n < n) /\ n \in Nat
  BY <1>1
<1>4. q.state \notin {"start", "zero_x"}
  BY <1>1, <1>2, <1>3
<1>5. ASSUME NEW w, NEW m, Ended(w, m), NumberValue(w) < IF n = 1 THEN Word ELSE Octet
      PROVE  m = NumberValue(w) /\ m \in Nat
  <2>1. NumberValue(w) \in Nat /\ m = NumberValue(w) % Word
    BY <1>5 DEF Ended
  <2>2. NumberValue(w) < Word
    BY <1>5, <2>1, OctetBelowWord
  <2> QED BY <2>1, <2>2, RemainderBelow, OctetBelowWord
<1>6. q.accum = last /\ last \in Nat
  BY <1>1, <1>2, <1>3, <1>4, <1>5
<1>7. CASE n = 1
  <2>1. q.octet = 0 /\ last < Word
    BY <1>1, <1>2, <1>3, <1>7
  <2>2. Finish(q).success /\ Finish(q).ip = FromNumber(q.accum)
    BY <1>4, <2>1 DEF Finish
  <2>3. ToNumber(FromNumber(last)) = last
    BY <1>6, <2>1, NumberOfBytes
  <2> QED BY <1>6, <1>7, <2>2, <2>3 DEF Means, ps, n
<1>8. CASE n # 1
  <2> DEFINE a == [j \in 1 .. 4 |-> IF j <= q.octet THEN q.result[j - 1]
                                    ELSE IF j < 4 THEN 0 ELSE q.accum]
             b == [j \in 1 .. 4 |-> IF j < n THEN NumberValue(ps[j])
                                    ELSE IF j < 4 THEN 0 ELSE last]
  <2>1. q.octet # 0 /\ last < Octet
    BY <1>1, <1>2, <1>3, <1>8
  <2>2. ~ (q.accum >= Octet)
    BY <1>6, <2>1, OctetBelowWord
  <2>3. Finish(q).success /\ Finish(q).ip = a
    BY <1>4, <2>1, <2>2 DEF Finish
  <2>4. ASSUME NEW j \in 1 .. 4 PROVE a[j] = b[j]
    <3>1. CASE j <= q.octet
      <4>1. j \in 1 .. q.octet /\ j \in 1 .. n /\ j < n
        BY <1>1, <3>1
      <4>2. q.result[j - 1] = NumberValue(ps[j])
        BY <1>1, <1>2, <1>5, <4>1
      <4> QED BY <3>1, <4>1, <4>2
    <3>2. CASE ~ (j <= q.octet)
      <4>1. ~ (j < n)
        BY <1>1, <3>2
      <4> QED BY <1>6, <3>2, <4>1
    <3> QED BY <3>1, <3>2
  <2>5. a = b
    BY <2>4
  <2> HIDE DEF a
  <2>6. Means(b, s)
    BY <1>8 DEF Means, ps, n
  <2> QED BY <2>3, <2>5, <2>6
<1> QED BY <1>7, <1>8

\* A text the automaton read to its end, whose numbers do not wrap, is valid
\* unless from_str gives the zero address.
LEMMA RefusesOthers ==
  ASSUME NEW q \in Parsers, NEW ps \in Seq(Seq(Int)) \ {<<>>}, Follows(ps, q),
         Finish(q).ip # ZeroIP, q.state # "error",
         (\A j \in DOMAIN ps : IsNumber(ps[j]) \/ (j < Len(ps) /\ IsBareHex(ps[j])))
           => \A j \in DOMAIN ps : NumberValue(ps[j]) < Word
  PROVE  ValidPieces(ps)
<1> DEFINE n == Len(ps)
<1>1. /\ n = q.octet + 1 /\ n \in 1 .. 4 /\ DOMAIN ps = 1 .. n /\ q.octet \in 0 .. 3
      /\ q.state \notin {"start", "zero_x"} => IsNumber(ps[n]) /\ Ended(ps[n], q.accum)
      /\ \A j \in 1 .. q.octet : Ended(ps[j], q.result[j - 1])
  BY EndOfText DEF Parsers
<1> HIDE DEF n
<1>2. q.state \notin {"start", "zero_x"}
  BY DEF Finish
<1>3. IsNumber(ps[n]) /\ Ended(ps[n], q.accum)
  BY <1>1, <1>2
<1>4. \A j \in 1 .. n : j = n \/ (j \in 1 .. q.octet /\ j < n)
  BY <1>1
<1>5. \A j \in 1 .. n : IsNumber(ps[j]) \/ (j < n /\ IsBareHex(ps[j]))
  BY <1>1, <1>3, <1>4 DEF Ended
<1>6. \A j \in 1 .. n : NumberValue(ps[j]) < Word
  BY <1>1, <1>5 DEF n
<1>7. CASE n = 1
  <2>1. \A j \in 1 .. n : NumberValue(ps[j]) < IF n = 1 THEN Word ELSE Octet
    BY <1>6, <1>7
  <2> QED BY <1>1, <1>5, <2>1 DEF ValidPieces, n
<1>8. CASE n # 1
  <2>1. q.octet # 0
    BY <1>1, <1>8
  <2>2. q.accum < Octet
    <3>1. ~ (q.accum >= Octet)
      BY <1>2, <2>1 DEF Finish
    <3>2. q.accum \in Nat
      BY OctetBelowWord DEF Parsers
    <3> QED BY <3>1, <3>2, OctetBelowWord
  <2>3. ASSUME NEW w, NEW m, Ended(w, m), m < Octet, NumberValue(w) < Word
        PROVE  NumberValue(w) < Octet
    <3>1. NumberValue(w) \in Nat /\ m = NumberValue(w) % Word
      BY <2>3 DEF Ended
    <3> QED BY <2>3, <3>1, RemainderBelow, OctetBelowWord
  <2>4. ASSUME NEW j \in 1 .. n PROVE NumberValue(ps[j]) < Octet
    <3>1. CASE j = n
      BY <1>3, <1>6, <2>2, <2>3, <3>1
    <3>2. CASE j # n
      <4>1. j \in 1 .. q.octet /\ Ended(ps[j], q.result[j - 1])
        BY <1>1, <1>4, <3>2
      <4>2. q.result[j - 1] < Octet
        <5>1. j - 1 \in 0 .. 2 /\ q.result \in [0 .. 2 -> Byte]
          BY <1>1, <4>1 DEF Parsers
        <5>2. q.result[j - 1] \in Byte
          BY <5>1
        <5> QED BY <5>2, OctetBelowWord DEF Byte
      <4> QED BY <1>6, <2>3, <4>1, <4>2
    <3> QED BY <3>1, <3>2
  <2>5. \A j \in 1 .. n : NumberValue(ps[j]) < IF n = 1 THEN Word ELSE Octet
    BY <1>8, <2>4
  <2> QED BY <1>1, <1>5, <2>5 DEF ValidPieces, n
<1> QED BY <1>7, <1>8

\* Every text of one to four decimal or hexadecimal numbers in range is accepted
\* by ip4_t::from_str with the address the comment of the class describes
\* (ip_address.h:106-110), for texts of every length.
THEOREM ParsesEveryFormHolds == Spec => []ParsesEveryForm
<1>1. TypeOK /\ PieceInv => ParsesEveryForm
  <2> SUFFICES ASSUME TypeOK, PieceInv, Valid(text)
               PROVE  Finish(p).success /\ Means(Finish(p).ip, text)
    BY DEF ParsesEveryForm
  <2>1. ValidPieces(Pieces(text))
    BY DEF Valid, Written, ValidPieces
  <2>2. p \in Parsers /\ Pieces(text) \in Seq(Seq(Int)) \ {<<>>}
    BY SplitSteps DEF TypeOK, Pieces
  <2>3. p.state # "error" /\ Follows(Pieces(text), p)
    BY <2>1 DEF PieceInv
  <2> QED BY <2>1, <2>2, <2>3, AcceptsValid
<1> QED BY <1>1, PieceInvariance, PTL

\* Any other text, as long as no number of it wraps, leaves ip4_t at 0.0.0.0
\* (ip_address.h:111), for texts of every length.
THEOREM MalformedIsZeroHolds == Spec => []MalformedIsZero
<1>1. TypeOK /\ PieceInv => MalformedIsZero
  <2> SUFFICES ASSUME TypeOK, PieceInv, Unwrapped(text), ~ Valid(text), Finish(p).ip # ZeroIP
               PROVE  FALSE
    BY DEF MalformedIsZero
  <2>1. ~ ValidPieces(Pieces(text))
    BY DEF Valid, Written, ValidPieces
  <2>2. p \in Parsers /\ Pieces(text) \in Seq(Seq(Int)) \ {<<>>}
    BY SplitSteps DEF TypeOK, Pieces
  <2>3. p.state # "error"
    BY DEF Finish
  <2>4. Follows(Pieces(text), p)
    BY <2>3 DEF PieceInv
  <2> QED BY <2>1, <2>2, <2>3, <2>4, RefusesOthers DEF Unwrapped, Written
<1> QED BY <1>1, PieceInvariance, PTL

-----------------------------------------------------------------------------
(* from_str as a whole *)

\* The automaton behind a text.
Parsed(s) == FoldLeft(Read, NewParser, s)

\* from_str reads the characters one by one.
LEMMA ParsedSteps ==
  /\ Parsed(<<>>) = NewParser
  /\ \A s \in Seq(Int) : Parsed(s) \in Parsers
  /\ \A s \in Seq(Int), c \in Int : Parsed(Append(s, c)) = Read(Parsed(s), c)
<1> DEFINE F == [q \in Parsers |-> [c \in Int |-> Read(q, c)]]
<1>1. NewParser \in Parsers
  BY WordPositive, WidthAssumption DEF NewParser, Parsers, Byte
<1>2. /\ F \in [Parsers -> [Int -> Parsers]]
      /\ \A q \in Parsers, c \in Int : F[q][c] = Read(q, c)
  BY ReadType
<1> HIDE DEF F
<1>3. ASSUME NEW s \in Seq(Int) PROVE FoldsTo(Parsed(s), Parsers, Int, F, NewParser, s)
  <2> DEFINE Entry(g, t) == IF t = {} THEN NewParser ELSE Read(g[t \ {Max(t)}], s[Max(t)])
             P(g) == g = [t \in SUBSET DOMAIN s |-> Entry(g, t)]
             table == CHOOSE g : P(g)
  <2>1. PICK h \in [SUBSET DOMAIN s -> Parsers] : IsTable(h, F, NewParser, s)
    BY <1>1, <1>2, TableExists
  <2>2. Len(s) \in Nat /\ DOMAIN s = 1 .. Len(s)
    OBVIOUS
  <2>3. ASSUME NEW t \in SUBSET DOMAIN s PROVE h[t] = Entry(h, t)
    <3>1. CASE t = {}
      BY <2>1, <3>1 DEF IsTable
    <3>2. CASE t # {}
      <4>1. Max(t) \in DOMAIN s
        BY <2>2, <3>2, MaxOf
      <4>2. s[Max(t)] \in Int /\ h[t \ {Max(t)}] \in Parsers
        BY <2>1, <4>1
      <4> QED BY <1>2, <2>1, <3>2, <4>2 DEF IsTable
    <3> QED BY <3>1, <3>2
  <2>4. P(h)
    BY <2>3
  <2>5. Parsed(s) = table[DOMAIN s]
    BY DEF Parsed, FoldLeft, MapThenFoldSet
  <2>6. P(table)
    <3> HIDE DEF P
    <3> QED BY <2>4
  <2>7. \A t \in SUBSET DOMAIN s : table[t] = Entry(table, t)
    <3> HIDE DEF table, Entry
    <3> QED BY <2>6
  <2> HIDE DEF table, P
  <2>8. table[{}] = NewParser
    BY <2>7
  <2>9. ASSUME NEW k \in 1 .. Len(s), table[1 .. k - 1] \in Parsers
        PROVE  table[1 .. k] = F[table[1 .. k - 1]][s[k]]
    <3>1. /\ 1 .. k \in SUBSET DOMAIN s /\ 1 .. k # {} /\ Max(1 .. k) = k
          /\ (1 .. k) \ {k} = 1 .. k - 1
      BY <2>2, Positions
    <3>2. table[1 .. k] = Read(table[1 .. k - 1], s[k])
      BY <2>7, <3>1
    <3>3. s[k] \in Int
      BY <2>2
    <3> QED BY <1>2, <2>9, <3>2, <3>3
  <2>10. FoldsTo(table[DOMAIN s], Parsers, Int, F, NewParser, s)
    BY <1>1, <1>2, <2>8, <2>9, TableFolds
  <2> QED BY <2>5, <2>10
<1>4. ASSUME NEW s \in Seq(Int), NEW c \in Int
      PROVE  /\ Parsed(s) \in Parsers /\ (s = <<>> => Parsed(s) = NewParser)
             /\ Parsed(Append(s, c)) = F[Parsed(s)][c]
  <2>1. FoldsTo(Parsed(s), Parsers, Int, F, NewParser, s)
    BY <1>3
  <2>2. Append(s, c) \in Seq(Int)
    OBVIOUS
  <2>3. FoldsTo(Parsed(Append(s, c)), Parsers, Int, F, NewParser, Append(s, c))
    BY <1>3, <2>2, Zenon
  <2>4. Parsed(s) \in Parsers /\ (s = <<>> => Parsed(s) = NewParser)
    BY <2>1, FoldType
  <2>5. Parsed(Append(s, c)) = F[Parsed(s)][c]
    BY <2>1, <2>3, FoldSnoc
  <2> QED BY <2>4, <2>5
<1>5. <<>> \in Seq(Int) /\ 0 \in Int
  OBVIOUS
<1> QED BY <1>2, <1>4, <1>5

\* One more digit is at least one.
LEMMA MoreDigits ==
  ASSUME NEW w \in Seq(Decimal), NEW c \in Decimal
  PROVE  Append(w, c) \in Seq(Decimal) /\ Append(w, c) # <<>>
BY AppendProperties, Zenon

\* Decimal digits at the beginning of a number are read as that number.
LEMMA DigitsParsed ==
  ASSUME NEW s \in Seq(Int), Parsed(s).state = "start", Parsed(s).accum = 0,
         NEW d \in Seq(Decimal) \ {<<>>}
  PROVE  LET q == Parsed(s \o d)
         IN  /\ q.state \in {"zero", "dec"} /\ q.accum = Value(d, DecBase) % Word
             /\ q.octet = Parsed(s).octet /\ q.result = Parsed(s).result
<1> DEFINE e(k) == SubSeq(d, 1, k)
           q(k) == Parsed(s \o e(k))
           Good(k) == /\ Reading(e(k), q(k))
                      /\ q(k).octet = Parsed(s).octet /\ q(k).result = Parsed(s).result
           S == {k \in 0 .. Len(d) : Good(k)}
<1>1. Len(d) \in Nat /\ d \in Seq(Int)
  BY DigitsAreInt
<1>2. ASSUME NEW k \in 0 .. Len(d) PROVE e(k) \in Seq(Decimal) /\ e(k) \in Seq(Int)
  <2>1. e(k) \in Seq(Decimal)
    BY <1>1
  <2> QED BY <2>1, DigitsAreInt
<1>3. 0 \in S
  <2>1. e(0) = <<>> /\ s \o <<>> = s /\ 0 \in 0 .. Len(d)
    BY <1>1
  <2>2. Reading(<<>>, Parsed(s))
    BY DEF Reading
  <2> QED BY <2>1, <2>2
<1>4. ASSUME NEW k \in 1 .. Len(d), k - 1 \in S PROVE k \in S
  <2> DEFINE w == e(k - 1)
             c == d[k]
             r == Parsed(s \o w)
  <2>1. k \in 0 .. Len(d) /\ k - 1 \in 0 .. Len(d) /\ c \in Decimal
    BY <1>1
  <2>2. w \in Seq(Decimal) /\ w \in Seq(Int) /\ c \in Int \ {Dot}
    BY <1>2, <2>1, Marks
  <2>3. e(k) = Append(w, c)
    BY <1>1
  <2>4. s \o e(k) = Append(s \o w, c) /\ s \o w \in Seq(Int)
    <3> HIDE DEF w, c
    <3>1. s \o Append(w, c) = Append(s \o w, c) /\ s \o w \in Seq(Int)
      BY <2>2
    <3> QED BY <2>3, <3>1
  <2>5. Reading(w, r) /\ r.octet = Parsed(s).octet /\ r.result = Parsed(s).result
    BY <1>4
  <2>6. r \in Parsers /\ Parsed(s \o e(k)) = Read(r, c)
    <3> HIDE DEF w, c
    <3> QED BY <2>2, <2>4, ParsedSteps
  <2>7. IsNumber(Append(w, c))
    <3> HIDE DEF w, c
    <3>1. Append(w, c) \in Seq(Decimal) /\ Append(w, c) # <<>>
      BY <2>1, <2>2, MoreDigits
    <3> QED BY <3>1, DecimalNumber
  <2> HIDE DEF w, c, r
  <2>8. Reading(Append(w, c), Read(r, c)) /\ Read(r, c).octet = r.octet /\ Read(r, c).result = r.result
    BY <2>2, <2>5, <2>6, <2>7, ReadCharacter
  <2>9. Good(k)
    BY <2>3, <2>5, <2>6, <2>8
  <2> QED BY <2>1, <2>9
<1>5. Good(Len(d))
  <2>1. 0 .. Len(d) \subseteq S
    <3> HIDE DEF S
    <3> QED BY <1>1, <1>3, <1>4, RangeInduction
  <2> HIDE DEF Good
  <2> QED BY <1>1, <2>1
<1>6. e(Len(d)) = d
  BY <1>1
<1> DEFINE z == Parsed(s \o d)
<1>7. Reading(d, z) /\ z.octet = Parsed(s).octet /\ z.result = Parsed(s).result
  BY <1>5, <1>6
<1> HIDE DEF z
<1>8. NumberValue(d) = Value(d, DecBase) /\ ~ IsHex(d)
  BY DecimalNumber, DecimalIsNotHex
<1>9. z.state # "start" /\ z.state # "zero_x" /\ z.state # "hex"
  <2>1. z.state # "start"
    BY <1>7 DEF Reading
  <2>2. ASSUME NEW x \in Seq(Hexadecimal), d = HexText(x) PROVE FALSE
    BY <1>8, <2>2, DigitsAreInt, HexDigits
  <2>3. <<>> \in Seq(Hexadecimal)
    OBVIOUS
  <2>4. z.state \in {"zero_x", "hex"} => \E x \in Seq(Hexadecimal) : d = HexText(x)
    BY <1>7, <2>3 DEF Reading
  <2> QED BY <2>1, <2>2, <2>4
<1>10. z.state \in {"zero", "dec"}
  BY <1>7, <1>9 DEF Reading
<1>11. z.accum = Value(d, DecBase) % Word
  BY <1>7, <1>8, <1>9, ReadingEnds DEF Ended
<1> QED BY <1>7, <1>10, <1>11 DEF z

\* What to_string writes of a byte is read as that byte.
LEMMA ByteText ==
  ASSUME NEW n \in Byte
  PROVE  /\ DigitsOf(n, DecBase) \in Seq(Decimal) \ {<<>>}
         /\ DigitsOf(n, DecBase) \in Seq(Int)
         /\ Value(DigitsOf(n, DecBase), DecBase) % Word = n
<1>1. n \in Nat /\ n < Octet
  BY WidthAssumption DEF Byte
<1>2. DecBase \in Nat /\ DecBase > 1
  BY BaseAssumption
<1>3. DigitsOf(n, DecBase) \in Seq(Decimal) \ {<<>>}
  BY <1>1, <1>2, DigitsOfEquation DEF Decimal
<1>4. Value(DigitsOf(n, DecBase), DecBase) = n
  BY <1>1, <1>2, DigitsValue
<1>5. n % Word = n
  BY <1>1, OctetBelowWord, RemainderBelow
<1> QED BY <1>3, <1>4, <1>5, DigitsAreInt

\* A byte and a dot in front of the last octet.
LEMMA OctetParsed ==
  ASSUME NEW s \in Seq(Int), Parsed(s).state = "start", Parsed(s).accum = 0,
         Parsed(s).octet \in 0 .. 2, NEW n \in Byte
  PROVE  LET t == s \o DigitsOf(n, DecBase) \o <<Dot>>
         IN  /\ t \in Seq(Int) /\ Parsed(t).state = "start" /\ Parsed(t).accum = 0
             /\ Parsed(t).octet = Parsed(s).octet + 1
             /\ Parsed(t).result = [Parsed(s).result EXCEPT ![Parsed(s).octet] = n]
<1> DEFINE d == DigitsOf(n, DecBase)
           u == s \o d
           q == Parsed(u)
<1>1. d \in Seq(Decimal) \ {<<>>} /\ d \in Seq(Int) /\ Value(d, DecBase) % Word = n
  BY ByteText
<1> HIDE DEF d
<1>2. u \in Seq(Int)
  BY <1>1
<1>3. u \o <<Dot>> = Append(u, Dot) /\ Append(u, Dot) \in Seq(Int) /\ Dot \in Int
  <2> HIDE DEF u
  <2> QED BY <1>2, Marks
<1>4. /\ q.state \in {"zero", "dec"} /\ q.accum = n
      /\ q.octet = Parsed(s).octet /\ q.result = Parsed(s).result
  BY <1>1, DigitsParsed
<1>5. Parsed(Append(u, Dot)) = Read(q, Dot)
  BY <1>2, <1>3, ParsedSteps
<1> HIDE DEF u, q
<1>6. Read(q, Dot) = Cont(q)
  <2>1. Dot \notin 0 .. DecBase - 1 /\ Dot # Ex
    BY BaseAssumption DEF Dot, Ex
  <2> QED BY <1>4, <2>1 DEF Read, InNumber
<1>7. ~ (q.accum >= Octet \/ q.octet >= 3)
  BY <1>4, WidthAssumption DEF Byte
<1>8. /\ Cont(q).state = "start" /\ Cont(q).accum = 0 /\ Cont(q).octet = q.octet + 1
      /\ Cont(q).result = [q.result EXCEPT ![q.octet] = q.accum]
  BY <1>7 DEF Cont
<1> QED BY <1>3, <1>4, <1>5, <1>6, <1>8 DEF d, u

\* from_str reads what to_str writes as the same address.
THEOREM FromStrOfToStr ==
  ASSUME NEW a \in IPs PROVE from_str(to_str(a)) = [ip |-> a, success |-> TRUE]
<1> DEFINE t1 == <<>> \o DigitsOf(a[1], DecBase) \o <<Dot>>
           t2 == t1 \o DigitsOf(a[2], DecBase) \o <<Dot>>
           t3 == t2 \o DigitsOf(a[3], DecBase) \o <<Dot>>
           t4 == t3 \o DigitsOf(a[4], DecBase)
           q == Parsed(t4)
<1>1. a[1] \in Byte /\ a[2] \in Byte /\ a[3] \in Byte /\ a[4] \in Byte
  BY DEF IPs
<1>2. <<>> \in Seq(Int) /\ Parsed(<<>>) = NewParser
  BY ParsedSteps
<1>3. /\ t1 \in Seq(Int) /\ Parsed(t1).state = "start" /\ Parsed(t1).accum = 0
      /\ Parsed(t1).octet = 1 /\ Parsed(t1).result = [NewParser.result EXCEPT ![0] = a[1]]
  <2>1. /\ NewParser.state = "start" /\ NewParser.accum = 0 /\ NewParser.octet = 0
        /\ NewParser.octet \in 0 .. 2
    BY DEF NewParser
  <2>2. /\ t1 \in Seq(Int) /\ Parsed(t1).state = "start" /\ Parsed(t1).accum = 0
        /\ Parsed(t1).octet = Parsed(<<>>).octet + 1
        /\ Parsed(t1).result = [Parsed(<<>>).result EXCEPT ![Parsed(<<>>).octet] = a[1]]
    BY <1>1, <1>2, <2>1, OctetParsed
  <2> HIDE DEF t1
  <2> QED BY <1>2, <2>1, <2>2
<1> HIDE DEF t1
<1>4. /\ t2 \in Seq(Int) /\ Parsed(t2).state = "start" /\ Parsed(t2).accum = 0
      /\ Parsed(t2).octet = 2 /\ Parsed(t2).result = [Parsed(t1).result EXCEPT ![1] = a[2]]
  <2>a. Parsed(t1).octet \in 0 .. 2
    BY <1>3
  <2>1. /\ t2 \in Seq(Int) /\ Parsed(t2).state = "start" /\ Parsed(t2).accum = 0
        /\ Parsed(t2).octet = Parsed(t1).octet + 1
        /\ Parsed(t2).result = [Parsed(t1).result EXCEPT ![Parsed(t1).octet] = a[2]]
    BY <1>1, <1>3, <2>a, OctetParsed
  <2> HIDE DEF t2
  <2> QED BY <1>3, <2>1
<1> HIDE DEF t2
<1>5. /\ t3 \in Seq(Int) /\ Parsed(t3).state = "start" /\ Parsed(t3).accum = 0
      /\ Parsed(t3).octet = 3 /\ Parsed(t3).result = [Parsed(t2).result EXCEPT ![2] = a[3]]
  <2>a. Parsed(t2).octet \in 0 .. 2
    BY <1>4
  <2>1. /\ t3 \in Seq(Int) /\ Parsed(t3).state = "start" /\ Parsed(t3).accum = 0
        /\ Parsed(t3).octet = Parsed(t2).octet + 1
        /\ Parsed(t3).result = [Parsed(t2).result EXCEPT ![Parsed(t2).octet] = a[3]]
    BY <1>1, <1>4, <2>a, OctetParsed
  <2> HIDE DEF t3
  <2> QED BY <1>4, <2>1
<1> HIDE DEF t3
<1>6. q.state \in {"zero", "dec"} /\ q.accum = a[4] /\ q.octet = 3 /\ q.result = Parsed(t3).result
  <2> DEFINE d == DigitsOf(a[4], DecBase)
  <2>1. d \in Seq(Decimal) \ {<<>>} /\ Value(d, DecBase) % Word = a[4]
    BY <1>1, ByteText
  <2> HIDE DEF d
  <2>2. LET z == Parsed(t3 \o d)
        IN  /\ z.state \in {"zero", "dec"} /\ z.accum = Value(d, DecBase) % Word
            /\ z.octet = Parsed(t3).octet /\ z.result = Parsed(t3).result
    BY <1>5, <2>1, DigitsParsed
  <2> QED BY <1>5, <2>1, <2>2 DEF d
<1> HIDE DEF q
<1>7. q.result[0] = a[1] /\ q.result[1] = a[2] /\ q.result[2] = a[3]
  <2>1. DOMAIN NewParser.result = 0 .. 2 /\ 0 \in 0 .. 2 /\ 1 \in 0 .. 2 /\ 2 \in 0 .. 2
    BY DEF NewParser
  <2>2. DOMAIN Parsed(t1).result = 0 .. 2 /\ Parsed(t1).result[0] = a[1]
    BY <1>3, <2>1
  <2>3. /\ DOMAIN Parsed(t2).result = 0 .. 2 /\ Parsed(t2).result[0] = a[1]
        /\ Parsed(t2).result[1] = a[2]
    BY <1>4, <2>1, <2>2
  <2>4. /\ Parsed(t3).result[0] = a[1] /\ Parsed(t3).result[1] = a[2]
        /\ Parsed(t3).result[2] = a[3]
    BY <1>5, <2>1, <2>3
  <2> QED BY <1>6, <2>4
<1>8. Finish(q).success /\ Finish(q).ip = a /\ Finish(q) = [ip |-> a, success |-> TRUE]
  <2>1. ~ (q.accum >= Octet) /\ q.octet # 0
    BY <1>1, <1>6, WidthAssumption DEF Byte
  <2> DEFINE b == [j \in 1 .. 4 |-> IF j <= q.octet THEN q.result[j - 1]
                                    ELSE IF j < 4 THEN 0 ELSE q.accum]
  <2>2. Finish(q) = [ip |-> b, success |-> TRUE]
    <3>1. q.state \notin {"error", "start", "zero_x"}
      BY <1>6
    <3> QED BY <2>1, <3>1, Zenon DEF Finish
  <2>3. ASSUME NEW j \in 1 .. 4 PROVE b[j] = a[j]
    <3>1. j = 1 \/ j = 2 \/ j = 3 \/ j = 4
      OBVIOUS
    <3>2. CASE j = 4
      BY <1>6, <3>2
    <3>3. CASE j = 3
      BY <1>6, <1>7, <3>3
    <3>4. CASE j = 2
      BY <1>6, <1>7, <3>4
    <3>5. CASE j = 1
      BY <1>6, <1>7, <3>5
    <3> QED BY <3>1, <3>2, <3>3, <3>4, <3>5
  <2>4. b = a
    BY <2>3 DEF IPs
  <2> HIDE DEF b
  <2> QED BY <2>2, <2>4
<1>9. to_str(a) = t4
  <2>1. <<>> \o DigitsOf(a[1], DecBase) = DigitsOf(a[1], DecBase)
    BY <1>1, ByteText, ConcatEmptySeq
  <2> QED BY <2>1, Zenon DEF to_str, OctetText, t1, t2, t3
<1>10. from_str(t4) = Finish(q)
  BY DEF from_str, Parsed, q
<1> QED BY <1>8, <1>9, <1>10

\* Whatever was read as an address is written and read again as that address.
THEOREM Ip4RoundTripHolds == Spec => []RoundTrip
<1>1. TypeOK => RoundTrip
  BY FinishIsAddress, FromStrOfToStr DEF TypeOK, RoundTrip
<1> QED BY <1>1, Ip4TypeCorrect, PTL

\* The automaton of the model, fed with one character per step, is from_str of
\* the text.
THEOREM AutomatonIsFromStr == Spec => [](from_str(text) = Finish(p))
<1> DEFINE Same == p = Parsed(text)
<1>1. Init => Same
  BY ParsedSteps DEF Init
<1>2. TypeOK /\ Same /\ [Next]_vars => Same'
  <2> SUFFICES ASSUME TypeOK, Same, [Next]_vars PROVE Same'
    OBVIOUS
  <2>1. ASSUME NEW c \in Int, ReadAddress(c) PROVE Same'
    BY <2>1, ParsedSteps DEF TypeOK, ReadAddress
  <2>2. \A c : ReadTail(c) => UNCHANGED <<text, p>>
    BY DEF ReadTail
  <2>3. CASE UNCHANGED <<text, p>>
    BY <2>3
  <2>4. Hexadecimal \cup {Dot, Ex, Other} \subseteq Int
    BY BaseAssumption DEF Hexadecimal, Dot, Ex, Other
  <2> QED BY <2>1, <2>2, <2>3, <2>4 DEF Next, vars
<1>3. Same => from_str(text) = Finish(p)
  BY DEF from_str, Parsed
<1> QED BY <1>1, <1>2, <1>3, Ip4TypeCorrect, PTL DEF Spec

-----------------------------------------------------------------------------
(* The part behind a colon or a slash *)

\* The loop of ip_prefix_t::from_str over the digits of the length.
Lengths == [accum : 0 .. Word - 1, has_digits : BOOLEAN, done : BOOLEAN]
NewLength == [accum |-> 0, has_digits |-> FALSE, done |-> FALSE]
LengthOf(s) == FoldLeft(LengthRead, NewLength, s)

\* A character leaves the length a uint32_t.
LEMMA LengthType == \A q \in Lengths, c \in Int : LengthRead(q, c) \in Lengths
<1> TAKE q \in Lengths, c \in Int
<1>1. CASE q.done \/ c \notin Decimal
  BY <1>1 DEF LengthRead, Lengths
<1>2. CASE ~ (q.done \/ c \notin Decimal)
  <2>1. q.accum * DecBase + c \in Int
    BY BaseAssumption, WordPositive DEF Lengths
  <2>2. (q.accum * DecBase + c) % Word \in 0 .. Word - 1
    BY <2>1, WordPositive
  <2> QED BY <1>2, <2>2 DEF LengthRead, Lengths
<1> QED BY <1>1, <1>2

\* It reads the characters one by one.
LEMMA LengthSteps ==
  /\ LengthOf(<<>>) = NewLength
  /\ \A s \in Seq(Int) : LengthOf(s) \in Lengths
  /\ \A s \in Seq(Int), c \in Int : LengthOf(Append(s, c)) = LengthRead(LengthOf(s), c)
<1> DEFINE F == [q \in Lengths |-> [c \in Int |-> LengthRead(q, c)]]
<1>1. NewLength \in Lengths
  BY WordPositive DEF NewLength, Lengths
<1>2. /\ F \in [Lengths -> [Int -> Lengths]]
      /\ \A q \in Lengths, c \in Int : F[q][c] = LengthRead(q, c)
  BY LengthType
<1> HIDE DEF F
<1>3. ASSUME NEW s \in Seq(Int) PROVE FoldsTo(LengthOf(s), Lengths, Int, F, NewLength, s)
  <2> DEFINE Entry(g, t) == IF t = {} THEN NewLength ELSE LengthRead(g[t \ {Max(t)}], s[Max(t)])
             P(g) == g = [t \in SUBSET DOMAIN s |-> Entry(g, t)]
             table == CHOOSE g : P(g)
  <2>1. PICK h \in [SUBSET DOMAIN s -> Lengths] : IsTable(h, F, NewLength, s)
    BY <1>1, <1>2, TableExists
  <2>2. Len(s) \in Nat /\ DOMAIN s = 1 .. Len(s)
    OBVIOUS
  <2>3. ASSUME NEW t \in SUBSET DOMAIN s PROVE h[t] = Entry(h, t)
    <3>1. CASE t = {}
      BY <2>1, <3>1 DEF IsTable
    <3>2. CASE t # {}
      <4>1. Max(t) \in DOMAIN s
        BY <2>2, <3>2, MaxOf
      <4>2. s[Max(t)] \in Int /\ h[t \ {Max(t)}] \in Lengths
        BY <2>1, <4>1
      <4> QED BY <1>2, <2>1, <3>2, <4>2 DEF IsTable
    <3> QED BY <3>1, <3>2
  <2>4. P(h)
    BY <2>3
  <2>5. LengthOf(s) = table[DOMAIN s]
    BY DEF LengthOf, FoldLeft, MapThenFoldSet
  <2>6. P(table)
    <3> HIDE DEF P
    <3> QED BY <2>4
  <2>7. \A t \in SUBSET DOMAIN s : table[t] = Entry(table, t)
    <3> HIDE DEF table, Entry
    <3> QED BY <2>6
  <2> HIDE DEF table, P
  <2>8. table[{}] = NewLength
    BY <2>7
  <2>9. ASSUME NEW k \in 1 .. Len(s), table[1 .. k - 1] \in Lengths
        PROVE  table[1 .. k] = F[table[1 .. k - 1]][s[k]]
    <3>1. /\ 1 .. k \in SUBSET DOMAIN s /\ 1 .. k # {} /\ Max(1 .. k) = k
          /\ (1 .. k) \ {k} = 1 .. k - 1
      BY <2>2, Positions
    <3>2. table[1 .. k] = LengthRead(table[1 .. k - 1], s[k])
      BY <2>7, <3>1
    <3>3. s[k] \in Int
      BY <2>2
    <3> QED BY <1>2, <2>9, <3>2, <3>3
  <2>10. FoldsTo(table[DOMAIN s], Lengths, Int, F, NewLength, s)
    BY <1>1, <1>2, <2>8, <2>9, TableFolds
  <2> QED BY <2>5, <2>10
<1>4. ASSUME NEW s \in Seq(Int), NEW c \in Int
      PROVE  /\ LengthOf(s) \in Lengths /\ (s = <<>> => LengthOf(s) = NewLength)
             /\ LengthOf(Append(s, c)) = F[LengthOf(s)][c]
  <2>1. FoldsTo(LengthOf(s), Lengths, Int, F, NewLength, s)
    BY <1>3
  <2>2. Append(s, c) \in Seq(Int)
    OBVIOUS
  <2>3. FoldsTo(LengthOf(Append(s, c)), Lengths, Int, F, NewLength, Append(s, c))
    BY <1>3, <2>2, Zenon
  <2>4. LengthOf(s) \in Lengths /\ (s = <<>> => LengthOf(s) = NewLength)
    BY <2>1, FoldType
  <2>5. LengthOf(Append(s, c)) = F[LengthOf(s)][c]
    BY <2>1, <2>3, FoldSnoc
  <2> QED BY <2>4, <2>5
<1>5. <<>> \in Seq(Int) /\ 0 \in Int
  OBVIOUS
<1> QED BY <1>2, <1>4, <1>5

\* The loop of addr4_t::from_str.
Scans == [ip_length : Nat, n : Nat, accum : 0 .. Wide - 1, done : BOOLEAN]
NewScan == [ip_length |-> 0, n |-> 0, accum |-> 0, done |-> FALSE]
ScanOf(s) == FoldLeft(AddrRead, NewScan, s)

\* A size_t has at least the values of a uint32_t.
LEMMA WidePositive == Wide \in Nat \ {0}
BY WordPositive DEF Wide

\* ModStep for a size_t.
LEMMA WideStep ==
  ASSUME NEW n \in Nat, NEW base \in Nat, NEW c \in Nat
  PROVE  ((n % Wide) * base + c) % Wide = (n * base + c) % Wide
BY WidePositive, ModStep, Zenon

\* A character leaves the port a size_t.
LEMMA ScanType == \A q \in Scans, c \in Int : AddrRead(q, c) \in Scans
<1> TAKE q \in Scans, c \in Int
<1>1. /\ q = [ip_length |-> q.ip_length, n |-> q.n, accum |-> q.accum, done |-> q.done]
      /\ q.ip_length \in Nat /\ q.n \in Nat /\ q.accum \in 0 .. Wide - 1 /\ q.done \in BOOLEAN
  BY DEF Scans
<1>2. [q EXCEPT !.done = TRUE] \in Scans
  BY <1>1 DEF Scans
<1>3. [q EXCEPT !.n = @ + 1] \in Scans
  BY <1>1 DEF Scans
<1>4. \A v, w \in Nat : [q EXCEPT !.ip_length = v, !.n = w] \in Scans
  BY DEF Scans
<1>5. \A v \in 0 .. Wide - 1, w \in Nat : [q EXCEPT !.accum = v, !.n = w] \in Scans
  BY DEF Scans
<1>a. q.n + 1 \in Nat /\ (q.accum * DecBase + c) % Wide \in 0 .. Wide - 1
  <2>1. q.accum * DecBase + c \in Int
    BY <1>1, BaseAssumption, WidePositive
  <2> QED BY <1>1, <2>1, WidePositive
<1>6. CASE q.done
  BY <1>6 DEF AddrRead
<1>7. CASE ~ q.done /\ q.ip_length = 0
  BY <1>1, <1>2, <1>3, <1>4, <1>7, <1>a DEF AddrRead
<1>8. CASE ~ q.done /\ q.ip_length # 0
  BY <1>2, <1>5, <1>8, <1>a DEF AddrRead
<1> QED BY <1>1, <1>6, <1>7, <1>8

\* It reads the characters one by one.
LEMMA ScanSteps ==
  /\ ScanOf(<<>>) = NewScan
  /\ \A s \in Seq(Int) : ScanOf(s) \in Scans
  /\ \A s \in Seq(Int), c \in Int : ScanOf(Append(s, c)) = AddrRead(ScanOf(s), c)
<1> DEFINE F == [q \in Scans |-> [c \in Int |-> AddrRead(q, c)]]
<1>1. NewScan \in Scans
  BY WidePositive DEF NewScan, Scans
<1>2. /\ F \in [Scans -> [Int -> Scans]]
      /\ \A q \in Scans, c \in Int : F[q][c] = AddrRead(q, c)
  BY ScanType
<1> HIDE DEF F
<1>3. ASSUME NEW s \in Seq(Int) PROVE FoldsTo(ScanOf(s), Scans, Int, F, NewScan, s)
  <2> DEFINE Entry(g, t) == IF t = {} THEN NewScan ELSE AddrRead(g[t \ {Max(t)}], s[Max(t)])
             P(g) == g = [t \in SUBSET DOMAIN s |-> Entry(g, t)]
             table == CHOOSE g : P(g)
  <2>1. PICK h \in [SUBSET DOMAIN s -> Scans] : IsTable(h, F, NewScan, s)
    BY <1>1, <1>2, TableExists
  <2>2. Len(s) \in Nat /\ DOMAIN s = 1 .. Len(s)
    OBVIOUS
  <2>3. ASSUME NEW t \in SUBSET DOMAIN s PROVE h[t] = Entry(h, t)
    <3>1. CASE t = {}
      BY <2>1, <3>1 DEF IsTable
    <3>2. CASE t # {}
      <4>1. Max(t) \in DOMAIN s
        BY <2>2, <3>2, MaxOf
      <4>2. s[Max(t)] \in Int /\ h[t \ {Max(t)}] \in Scans
        BY <2>1, <4>1
      <4> QED BY <1>2, <2>1, <3>2, <4>2 DEF IsTable
    <3> QED BY <3>1, <3>2
  <2>4. P(h)
    BY <2>3
  <2>5. ScanOf(s) = table[DOMAIN s]
    BY DEF ScanOf, FoldLeft, MapThenFoldSet
  <2>6. P(table)
    <3> HIDE DEF P
    <3> QED BY <2>4
  <2>7. \A t \in SUBSET DOMAIN s : table[t] = Entry(table, t)
    <3> HIDE DEF table, Entry
    <3> QED BY <2>6
  <2> HIDE DEF table, P
  <2>8. table[{}] = NewScan
    BY <2>7
  <2>9. ASSUME NEW k \in 1 .. Len(s), table[1 .. k - 1] \in Scans
        PROVE  table[1 .. k] = F[table[1 .. k - 1]][s[k]]
    <3>1. /\ 1 .. k \in SUBSET DOMAIN s /\ 1 .. k # {} /\ Max(1 .. k) = k
          /\ (1 .. k) \ {k} = 1 .. k - 1
      BY <2>2, Positions
    <3>2. table[1 .. k] = AddrRead(table[1 .. k - 1], s[k])
      BY <2>7, <3>1
    <3>3. s[k] \in Int
      BY <2>2
    <3> QED BY <1>2, <2>9, <3>2, <3>3
  <2>10. FoldsTo(table[DOMAIN s], Scans, Int, F, NewScan, s)
    BY <1>1, <1>2, <2>8, <2>9, TableFolds
  <2> QED BY <2>5, <2>10
<1>4. ASSUME NEW s \in Seq(Int), NEW c \in Int
      PROVE  /\ ScanOf(s) \in Scans /\ (s = <<>> => ScanOf(s) = NewScan)
             /\ ScanOf(Append(s, c)) = F[ScanOf(s)][c]
  <2>1. FoldsTo(ScanOf(s), Scans, Int, F, NewScan, s)
    BY <1>3
  <2>2. Append(s, c) \in Seq(Int)
    OBVIOUS
  <2>3. FoldsTo(ScanOf(Append(s, c)), Scans, Int, F, NewScan, Append(s, c))
    BY <1>3, <2>2, Zenon
  <2>4. ScanOf(s) \in Scans /\ (s = <<>> => ScanOf(s) = NewScan)
    BY <2>1, FoldType
  <2>5. ScanOf(Append(s, c)) = F[ScanOf(s)][c]
    BY <2>1, <2>3, FoldSnoc
  <2> QED BY <2>4, <2>5
<1>5. <<>> \in Seq(Int) /\ 0 \in Int
  OBVIOUS
<1> QED BY <1>2, <1>4, <1>5

\* The length read from digits d and what follows them.
LengthIs(q, d, e) ==
  q = [accum |-> Value(d, DecBase) % Word, has_digits |-> d # <<>>, done |-> e # <<>>]

\* The next character goes on with the length, or ends it.
LEMMA LengthOn ==
  ASSUME NEW d \in Seq(Decimal), NEW e \in Seq(Int), NEW c \in Int, NEW q, LengthIs(q, d, e)
  PROVE  /\ e = <<>> /\ c \in Decimal => LengthIs(LengthRead(q, c), Append(d, c), <<>>)
         /\ ~ (e = <<>> /\ c \in Decimal) => LengthIs(LengthRead(q, c), d, Append(e, c))
<1>1. /\ q.accum = Value(d, DecBase) % Word /\ q.has_digits = (d # <<>>) /\ q.done = (e # <<>>)
      /\ q = [accum |-> q.accum, has_digits |-> q.has_digits, done |-> q.done]
  BY DEF LengthIs
<1>2. Append(e, c) # <<>>
  BY MoreText
<1>3. ASSUME e = <<>>, c \in Decimal PROVE LengthIs(LengthRead(q, c), Append(d, c), <<>>)
  <2>1. d \in Seq(Nat) /\ c \in Nat
    BY <1>3, BaseAssumption, SeqOver DEF Decimal
  <2>2. Value(d, DecBase) \in Nat /\ Value(Append(d, c), DecBase) = Value(d, DecBase) * DecBase + c
    BY <2>1, ValueSteps, BaseAssumption
  <2>3. ((Value(d, DecBase) % Word) * DecBase + c) % Word = (Value(d, DecBase) * DecBase + c) % Word
    BY <2>1, <2>2, WordStep, BaseAssumption, Zenon
  <2>4. (q.accum * DecBase + c) % Word = Value(Append(d, c), DecBase) % Word
    BY <1>1, <2>2, <2>3
  <2>5. Append(d, c) # <<>>
    BY <1>3, MoreDigits
  <2>6. LengthRead(q, c) = [accum |-> (q.accum * DecBase + c) % Word, has_digits |-> TRUE, done |-> FALSE]
    BY <1>1, <1>3 DEF LengthRead
  <2> QED BY <2>4, <2>5, <2>6 DEF LengthIs
<1>4. ASSUME ~ (e = <<>> /\ c \in Decimal) PROVE LengthIs(LengthRead(q, c), d, Append(e, c))
  <2>1. LengthRead(q, c) = [q EXCEPT !.done = TRUE]
    BY <1>1, <1>4 DEF LengthRead
  <2> QED BY <1>1, <1>2, <2>1 DEF LengthIs
<1> QED BY <1>3, <1>4

\* The port read from digits d and what follows them, behind k characters.
PortIs(q, k, d, e) ==
  q.ip_length = k /\ q.accum = Value(d, DecBase) % Wide /\ (q.done <=> e # <<>>)

\* The next character goes on with the port, or ends it.
LEMMA PortOn ==
  ASSUME NEW d \in Seq(Decimal), NEW e \in Seq(Int), NEW c \in Int, NEW q \in Scans,
         NEW k \in Nat \ {0}, PortIs(q, k, d, e)
  PROVE  /\ e = <<>> /\ c \in Decimal => PortIs(AddrRead(q, c), k, Append(d, c), <<>>)
         /\ ~ (e = <<>> /\ c \in Decimal) => PortIs(AddrRead(q, c), k, d, Append(e, c))
<1>1. /\ q.accum = Value(d, DecBase) % Wide /\ q.ip_length = k /\ k # 0 /\ (q.done <=> e # <<>>)
      /\ q = [ip_length |-> q.ip_length, n |-> q.n, accum |-> q.accum, done |-> q.done]
      /\ q.done \in BOOLEAN
  BY DEF PortIs, Scans
<1>2. Append(e, c) # <<>>
  BY MoreText
<1>3. ASSUME e = <<>>, c \in Decimal PROVE PortIs(AddrRead(q, c), k, Append(d, c), <<>>)
  <2>1. d \in Seq(Nat) /\ c \in Nat
    BY <1>3, BaseAssumption, SeqOver DEF Decimal
  <2>2. Value(d, DecBase) \in Nat /\ Value(Append(d, c), DecBase) = Value(d, DecBase) * DecBase + c
    BY <2>1, ValueSteps, BaseAssumption
  <2>3. ((Value(d, DecBase) % Wide) * DecBase + c) % Wide = (Value(d, DecBase) * DecBase + c) % Wide
    BY <2>1, <2>2, WideStep, BaseAssumption, Zenon
  <2>4. (q.accum * DecBase + c) % Wide = Value(Append(d, c), DecBase) % Wide
    BY <1>1, <2>2, <2>3
  <2>5. AddrRead(q, c) = [q EXCEPT !.accum = (q.accum * DecBase + c) % Wide, !.n = q.n + 1]
    BY <1>1, <1>3 DEF AddrRead
  <2> QED BY <1>1, <1>3, <2>4, <2>5 DEF PortIs
<1>4. ASSUME ~ (e = <<>> /\ c \in Decimal) PROVE PortIs(AddrRead(q, c), k, d, Append(e, c))
  <2>1. CASE q.done
    BY <1>1, <1>2, <2>1 DEF AddrRead, PortIs
  <2>2. CASE ~ q.done
    <3>1. AddrRead(q, c) = [q EXCEPT !.done = TRUE]
      BY <1>1, <1>4, <2>2 DEF AddrRead
    <3> QED BY <1>1, <1>2, <3>1 DEF PortIs
  <2> QED BY <2>1, <2>2
<1> QED BY <1>3, <1>4

\* ip4_t::from_str does not know the colon and the slash, and stays at an error.
LEMMA MarkIsError ==
  ASSUME NEW q \in Parsers, NEW c \in Int
  PROVE  /\ c \in {Colon, Slash, Other} => Read(q, c).state = "error"
         /\ q.state = "error" => Read(q, c).state = "error"
<1>1. q.state \in {"start", "zero", "zero_x", "dec", "hex", "error"}
  BY DEF Parsers
<1>2. ASSUME c \in {Colon, Slash, Other}
      PROVE  /\ c # Ex /\ c # Dot /\ c \notin Decimal
             /\ \A base \in Nat : c \notin 0 .. base - 1
  BY <1>2 DEF Colon, Slash, Other, Ex, Dot, Decimal
<1>3. ASSUME c \in {Colon, Slash, Other}, NEW base \in Nat, NEW s
      PROVE  InNumber(q, c, base, s) = [q EXCEPT !.state = "error"]
  BY <1>2, <1>3 DEF InNumber
<1>4. [q EXCEPT !.state = "error"].state = "error"
  BY DEF Parsers
<1>5. ASSUME c \in {Colon, Slash, Other}, q.state # "error" PROVE Read(q, c) = [q EXCEPT !.state = "error"]
  BY <1>1, <1>2, <1>3, <1>5, BaseAssumption DEF Read
<1>6. q.state = "error" => Read(q, c) = q
  BY DEF Read
<1> QED BY <1>4, <1>5, <1>6

Letters == Hexadecimal \cup {Dot, Ex, Other}

\* What addr4_t::from_str has found behind the text s, a mark, digits d and what
\* follows them: the port, or no address in front of it.
ScanIs(q, s, mark, state, d, e) ==
  \/ mark = Colon /\ s # <<>> /\ PortIs(q, Len(s), d, e)
  \/ q.ip_length = 0 /\ (mark = Slash \/ s = <<>> \/ state = "error")

\* The marks are in their place, and the automaton has read the text.
MarkInv ==
  /\ text \in Seq(Letters)
  /\ tail # <<>> => tail[1] \in {Colon, Slash} /\ Tail(tail) \in Seq(Decimal \cup {Other})
  /\ p = Parsed(text)
  /\ tail # <<>> => Parsed(Whole).state = "error"

\* Behind the address both loops have read the same digits.
TailInv ==
  /\ tail = <<>> => LET q == ScanOf(text)
                    IN  /\ q.ip_length = 0 /\ q.accum = 0
                        /\ IF q.done THEN p.state = "error" ELSE q.n = Len(text)
  /\ tail # <<>> => \E d, e : /\ Leads(d, e, Tail(tail), Decimal)
                              /\ LengthIs(LengthOf(Tail(tail)), d, e)
                              /\ ScanIs(ScanOf(Whole), text, tail[1], p.state, d, e)

\* The characters of a text in front of its mark and behind it.
LEMMA LetterTypes ==
  /\ Letters \subseteq Int /\ Decimal \cup {Other} \subseteq Int /\ {Colon, Slash} \subseteq Int
  /\ \A s \in Seq(Letters) : s \in Seq(Int)
  /\ \A s \in Seq(Decimal \cup {Other}) : s \in Seq(Int)
  /\ Colon \notin Letters /\ Slash \notin Letters /\ Colon # Slash
  /\ Colon \notin Decimal \cup {Other} /\ Slash \notin Decimal \cup {Other}
<1>1. Letters \subseteq Int /\ Decimal \cup {Other} \subseteq Int
  BY BaseAssumption DEF Letters, Hexadecimal, Decimal, Dot, Ex, Other
<1>2. {Colon, Slash} \subseteq Int
  BY DEF Colon, Slash
<1>3. \A s \in Seq(Letters) : s \in Seq(Int)
  BY <1>1, SeqOver, Zenon
<1>4. \A s \in Seq(Decimal \cup {Other}) : s \in Seq(Int)
  BY <1>1, SeqOver, Zenon
<1>5. /\ Colon \notin Letters /\ Slash \notin Letters /\ Colon # Slash
      /\ Colon \notin Decimal \cup {Other} /\ Slash \notin Decimal \cup {Other}
  BY BaseAssumption DEF Letters, Hexadecimal, Decimal, Dot, Ex, Other, Colon, Slash
<1> QED BY <1>1, <1>2, <1>3, <1>4, <1>5

\* The first character behind the address, and the later ones.
LEMMA TailOn ==
  ASSUME NEW s \in Seq(Int), NEW c \in Int
  PROVE  /\ Tail(<<c>>) = <<>> /\ <<c>>[1] = c /\ <<c>> # <<>>
         /\ s # <<>> => Tail(Append(s, c)) = Append(Tail(s), c) /\ Append(s, c)[1] = s[1]
<1>1. Tail(<<c>>) = <<>> /\ <<c>>[1] = c /\ <<c>> # <<>>
  OBVIOUS
<1>2. ASSUME s # <<>> PROVE Tail(Append(s, c)) = Append(Tail(s), c) /\ Append(s, c)[1] = s[1]
  <2>1. Len(s) \in Nat /\ Len(s) > 0
    BY <1>2
  <2>2. Append(s, c)[1] = s[1]
    BY <2>1
  <2>3. /\ Tail(Append(s, c)) \in Seq(Int) /\ Append(Tail(s), c) \in Seq(Int)
        /\ Len(Tail(Append(s, c))) = Len(s) /\ Len(Append(Tail(s), c)) = Len(s)
    BY <1>2, <2>1
  <2>4. ASSUME NEW k \in 1 .. Len(s) PROVE Tail(Append(s, c))[k] = Append(Tail(s), c)[k]
    BY <1>2, <2>1
  <2> QED BY <2>2, <2>3, <2>4, SeqEqual
<1> QED BY <1>1, <1>2

\* The text as a whole grows by one character in every step.
LEMMA WholeSteps ==
  ASSUME TypeOK
  PROVE  /\ Whole \in Seq(Int) /\ (tail = <<>> => Whole = text)
         /\ \A c \in Int : ReadAddress(c) => /\ tail' = <<>> /\ Whole' = Append(text, c)
                                             /\ tail = <<>> /\ Whole = text
         /\ \A c \in Int : ReadTail(c) => Whole' = Append(Whole, c)
<1>1. text \in Seq(Int) /\ tail \in Seq(Int)
  BY DEF TypeOK
<1>2. Whole \in Seq(Int) /\ \A c \in Int : Append(Whole, c) = text \o Append(tail, c)
  BY <1>1, MoreBehind DEF Whole
<1>3. \A s \in Seq(Int) : s \o <<>> = s
  OBVIOUS
<1>4. tail = <<>> => Whole = text
  BY <1>1, <1>3 DEF Whole
<1>5. ASSUME NEW c \in Int, ReadAddress(c) PROVE tail' = <<>> /\ tail = <<>> /\ Whole' = Append(text, c)
  <2>1. tail' = <<>> /\ tail = <<>> /\ text' = Append(text, c)
    BY <1>5 DEF ReadAddress
  <2>2. Append(text, c) \in Seq(Int)
    BY <1>1
  <2> QED BY <1>3, <2>1, <2>2 DEF Whole
<1>6. ASSUME NEW c \in Int, ReadTail(c) PROVE Whole' = Append(Whole, c)
  BY <1>2, <1>6 DEF ReadTail, Whole
<1> QED BY <1>2, <1>4, <1>5, <1>6

LEMMA MarkInvariance == Spec => [](TypeOK /\ MarkInv)
<1>1. Init => MarkInv
  <2> SUFFICES ASSUME Init PROVE MarkInv
    OBVIOUS
  <2>1. text = <<>> /\ tail = <<>> /\ p = Parsed(text)
    BY ParsedSteps DEF Init
  <2> QED BY <2>1 DEF MarkInv
<1>2. TypeOK /\ MarkInv /\ [Next]_vars => MarkInv'
  <2> SUFFICES ASSUME TypeOK, MarkInv, [Next]_vars PROVE MarkInv'
    OBVIOUS
  <2>1. text \in Seq(Int) /\ tail \in Seq(Int) /\ text \in Seq(Letters) /\ p = Parsed(text)
    BY DEF TypeOK, MarkInv
  <2>2. ASSUME NEW c \in Letters, ReadAddress(c) PROVE MarkInv'
    <3>1. c \in Int
      BY LetterTypes
    <3>2. text' = Append(text, c) /\ tail' = <<>> /\ p' = Read(p, c)
      BY <2>2 DEF ReadAddress
    <3>3. text' \in Seq(Letters)
      BY <2>1, <3>2
    <3>4. p' = Parsed(text')
      BY <2>1, <3>1, <3>2, ParsedSteps
    <3> QED BY <3>2, <3>3, <3>4 DEF MarkInv
  <2>3. ASSUME NEW c \in Decimal \cup {Colon, Slash, Other}, ReadTail(c) PROVE MarkInv'
    <3>1. c \in Int
      BY LetterTypes
    <3>2. /\ text' = text /\ tail' = Append(tail, c) /\ p' = p
          /\ (tail = <<>>) <=> (c \in {Colon, Slash})
      BY <2>3 DEF ReadTail
    <3>3. Parsed(Whole)' = Read(Parsed(Whole), c) /\ Parsed(Whole) \in Parsers
      <4>1. Whole \in Seq(Int) /\ Whole' = Append(Whole, c)
        BY <2>3, <3>1, WholeSteps
      <4>2. Parsed(Append(Whole, c)) = Read(Parsed(Whole), c) /\ Parsed(Whole) \in Parsers
        BY <3>1, <4>1, ParsedSteps
      <4> QED BY <4>1, <4>2
    <3>4. CASE tail = <<>>
      <4>1. tail' = <<c>> /\ c \in {Colon, Slash}
        BY <2>1, <3>2, <3>4
      <4>2. tail'[1] \in {Colon, Slash} /\ Tail(tail') = <<>>
        BY <3>1, <4>1, TailOn
      <4>3. Parsed(Whole)'.state = "error"
        BY <3>1, <3>3, <4>1, MarkIsError
      <4>4. Tail(tail') \in Seq(Decimal \cup {Other})
        <5>1. <<>> \in Seq(Decimal \cup {Other})
          OBVIOUS
        <5> QED BY <4>2, <5>1, Zenon
      <4> QED BY <2>1, <3>2, <4>2, <4>3, <4>4 DEF MarkInv
    <3>5. CASE tail # <<>>
      <4>1. c \in Decimal \cup {Other}
        BY <3>2, <3>5
      <4>2. /\ tail[1] \in {Colon, Slash} /\ Tail(tail) \in Seq(Decimal \cup {Other})
            /\ Parsed(Whole).state = "error"
        BY <3>5 DEF MarkInv
      <4>3. Tail(tail') = Append(Tail(tail), c) /\ tail'[1] = tail[1]
        BY <2>1, <3>1, <3>2, <3>5, TailOn
      <4>4. Append(Tail(tail), c) \in Seq(Decimal \cup {Other})
        BY <4>1, <4>2
      <4>5. Parsed(Whole)'.state = "error"
        BY <3>1, <3>3, <4>2, MarkIsError
      <4> QED BY <2>1, <3>2, <4>2, <4>3, <4>4, <4>5 DEF MarkInv
    <3> QED BY <3>4, <3>5
  <2>4. CASE UNCHANGED vars
    <3>1. text' = text /\ tail' = tail /\ p' = p
      BY <2>4 DEF vars
    <3> QED BY <3>1 DEF MarkInv, Whole
  <2> QED BY <2>2, <2>3, <2>4 DEF Next, Letters
<1> QED BY <1>1, <1>2, Ip4TypeCorrect, PTL DEF Spec

\* A character of the address, for addr4_t::from_str.
LEMMA ScanAddress ==
  ASSUME NEW q \in Scans, NEW c \in Letters, ~ q.done, q.ip_length = 0
  PROVE  AddrRead(q, c) = IF c = Other THEN [q EXCEPT !.done = TRUE] ELSE [q EXCEPT !.n = q.n + 1]
<1>1. c # Colon /\ (c = Other <=> c \notin Hexadecimal \cup {Ex, Dot})
  BY BaseAssumption DEF Letters, Hexadecimal, Colon, Dot, Ex, Other
<1> QED BY <1>1 DEF AddrRead

LEMMA TailInvariance == Spec => []TailInv
<1>1. Init => TailInv
  <2> SUFFICES ASSUME Init PROVE TailInv
    OBVIOUS
  <2>1. text = <<>> /\ tail = <<>> /\ Len(text) = 0
    BY DEF Init
  <2>2. ScanOf(text) = NewScan
    BY <2>1, ScanSteps
  <2> QED BY <2>1, <2>2 DEF TailInv, NewScan
<1>2. TypeOK /\ MarkInv /\ TailInv /\ [Next]_vars => TailInv'
  <2> SUFFICES ASSUME TypeOK, MarkInv, TailInv, [Next]_vars PROVE TailInv'
    OBVIOUS
  <2>1. text \in Seq(Int) /\ tail \in Seq(Int) /\ p \in Parsers /\ Len(text) \in Nat
    BY DEF TypeOK
  <2>2. ASSUME NEW c \in Letters, ReadAddress(c) PROVE TailInv'
    <3> DEFINE q == ScanOf(text)
    <3>1. c \in Int /\ q \in Scans
      BY <2>1, LetterTypes, ScanSteps
    <3>2. text' = Append(text, c) /\ tail = <<>> /\ tail' = <<>> /\ p' = Read(p, c) /\ p.state # "error"
      BY <2>2 DEF ReadAddress
    <3>3. ScanOf(text)' = AddrRead(q, c)
      BY <2>1, <3>1, <3>2, ScanSteps
    <3>4. q.ip_length = 0 /\ q.accum = 0 /\ ~ q.done /\ q.n = Len(text)
      BY <3>2 DEF TailInv
    <3>5. Len(text') = Len(text) + 1
      BY <2>1, <3>1, <3>2
    <3> HIDE DEF q
    <3>6. AddrRead(q, c) = IF c = Other THEN [q EXCEPT !.done = TRUE] ELSE [q EXCEPT !.n = q.n + 1]
      BY <3>1, <3>4, ScanAddress
    <3>7. /\ AddrRead(q, c).ip_length = 0 /\ AddrRead(q, c).accum = 0
          /\ IF AddrRead(q, c).done THEN c = Other ELSE AddrRead(q, c).n = Len(text) + 1
      BY <3>1, <3>4, <3>6 DEF Scans
    <3>8. c = Other => p'.state = "error"
      BY <2>1, <3>1, <3>2, MarkIsError
    <3> QED BY <3>2, <3>3, <3>5, <3>7, <3>8 DEF TailInv
  <2>3. ASSUME NEW c \in Decimal \cup {Colon, Slash, Other}, ReadTail(c) PROVE TailInv'
    <3>1. c \in Int
      BY LetterTypes
    <3>2. /\ text' = text /\ tail' = Append(tail, c) /\ p' = p
          /\ (tail = <<>>) <=> (c \in {Colon, Slash})
      BY <2>3 DEF ReadTail
    <3> DEFINE q == ScanOf(Whole)
    <3>3. ScanOf(Whole)' = AddrRead(q, c) /\ q \in Scans
      <4>1. Whole \in Seq(Int) /\ Whole' = Append(Whole, c)
        BY <2>3, <3>1, WholeSteps
      <4>2. ScanOf(Append(Whole, c)) = AddrRead(q, c) /\ q \in Scans
        BY <3>1, <4>1, ScanSteps
      <4> QED BY <4>1, <4>2
    <3>4. tail' # <<>>
      BY <2>1, <3>1, <3>2, MoreText
    <3> HIDE DEF q
    <3>5. ASSUME NEW d, NEW e, Leads(d, e, Tail(tail'), Decimal), LengthIs(LengthOf(Tail(tail')), d, e),
                 ScanIs(AddrRead(q, c), text, tail'[1], p.state, d, e)
          PROVE  TailInv'
      BY <3>2, <3>3, <3>4, <3>5 DEF TailInv
    <3>6. CASE tail = <<>>
      <4>1. tail' = <<c>> /\ c \in {Colon, Slash}
        BY <2>1, <3>2, <3>6
      <4>2. tail'[1] = c /\ Tail(tail') = <<>>
        BY <3>1, <4>1, TailOn
      <4>3. Leads(<<>>, <<>>, Tail(tail'), Decimal)
        BY <4>2 DEF Leads
      <4>4. LengthIs(LengthOf(Tail(tail')), <<>>, <<>>)
        <5>1. LengthOf(Tail(tail')) = NewLength
          BY <4>2, LengthSteps
        <5>2. Value(<<>>, DecBase) = 0 /\ 0 % Word = 0
          BY ValueSteps, BaseAssumption, WordPositive
        <5> QED BY <5>1, <5>2 DEF LengthIs, NewLength
      <4>5. ScanIs(AddrRead(q, c), text, c, p.state, <<>>, <<>>)
        <5>1. q = ScanOf(text)
          BY <3>6, WholeSteps DEF q
        <5>2. q.ip_length = 0 /\ q.accum = 0 /\ IF q.done THEN p.state = "error" ELSE q.n = Len(text)
          BY <3>6, <5>1 DEF TailInv
        <5>3. CASE q.done
          <6>1. AddrRead(q, c) = q
            BY <5>3 DEF AddrRead
          <6> QED BY <5>2, <5>3, <6>1 DEF ScanIs
        <5>4. CASE ~ q.done /\ c = Slash
          <6>1. c # Colon /\ c \notin Hexadecimal \cup {Ex, Dot}
            BY <5>4, BaseAssumption DEF Slash, Colon, Hexadecimal, Ex, Dot
          <6>2. AddrRead(q, c) = [q EXCEPT !.done = TRUE]
            BY <5>2, <5>4, <6>1 DEF AddrRead
          <6>3. AddrRead(q, c).ip_length = 0
            BY <3>3, <5>2, <6>2 DEF Scans
          <6> QED BY <5>4, <6>3 DEF ScanIs
        <5>5. CASE ~ q.done /\ c = Colon
          <6>1. AddrRead(q, c) = [q EXCEPT !.ip_length = q.n, !.n = q.n + 1]
            BY <5>2, <5>5 DEF AddrRead
          <6>2. /\ AddrRead(q, c).ip_length = Len(text) /\ AddrRead(q, c).accum = 0
                /\ AddrRead(q, c).done = FALSE
            BY <3>3, <5>2, <5>5, <6>1 DEF Scans
          <6>3. Value(<<>>, DecBase) = 0 /\ 0 % Wide = 0
            BY ValueSteps, BaseAssumption, WidePositive
          <6>4. PortIs(AddrRead(q, c), Len(text), <<>>, <<>>)
            BY <6>2, <6>3 DEF PortIs
          <6>5. text = <<>> => Len(text) = 0
            BY <2>1
          <6> QED BY <5>5, <6>2, <6>4, <6>5 DEF ScanIs
        <5> QED BY <4>1, <5>3, <5>4, <5>5
      <4> QED BY <3>5, <4>2, <4>3, <4>4, <4>5
    <3>7. CASE tail # <<>>
      <4>1. c \in Decimal \cup {Other}
        BY <3>2, <3>7
      <4>2. Tail(tail') = Append(Tail(tail), c) /\ tail'[1] = tail[1] /\ Tail(tail) \in Seq(Int)
        BY <2>1, <3>1, <3>2, <3>7, TailOn
      <4>3. PICK d, e : /\ Leads(d, e, Tail(tail), Decimal) /\ LengthIs(LengthOf(Tail(tail)), d, e)
                        /\ ScanIs(q, text, tail[1], p.state, d, e)
        BY <3>7 DEF TailInv, q
      <4>4. d \in Seq(Decimal) /\ e \in Seq(Int)
        BY <4>3 DEF Leads
      <4>5. LengthOf(Tail(tail')) = LengthRead(LengthOf(Tail(tail)), c)
        BY <3>1, <4>2, LengthSteps
      <4>6. ASSUME q.ip_length = 0 PROVE AddrRead(q, c).ip_length = 0
        <5>1. c # Colon
          BY <4>1, LetterTypes
        <5>2. \/ AddrRead(q, c) = q
              \/ AddrRead(q, c) = [q EXCEPT !.n = @ + 1]
              \/ AddrRead(q, c) = [q EXCEPT !.done = TRUE]
          <6>1. q.done \in BOOLEAN
            BY <3>3 DEF Scans
          <6> QED BY <4>6, <5>1, <6>1 DEF AddrRead
        <5> QED BY <3>3, <4>6, <5>2 DEF Scans
      <4>7. ASSUME text # <<>> PROVE Len(text) \in Nat \ {0}
        BY <2>1, <4>7
      <4>8. CASE e = <<>> /\ c \in Decimal
        <5>a. Decimal \in SUBSET Int
          BY LetterTypes
        <5>1. Leads(Append(d, c), <<>>, Tail(tail'), Decimal)
          <6>1. Leads(Append(d, c), <<>>, Append(Tail(tail), c), Decimal)
            BY <3>1, <4>3, <4>8, <5>a, LeadsOn, Zenon
          <6> QED BY <4>2, <6>1
        <5>2. LengthIs(LengthOf(Tail(tail')), Append(d, c), <<>>)
          BY <3>1, <4>3, <4>4, <4>5, <4>8, LengthOn
        <5>3. ScanIs(AddrRead(q, c), text, tail[1], p.state, Append(d, c), <<>>)
          BY <3>1, <3>3, <4>3, <4>4, <4>6, <4>7, <4>8, PortOn DEF ScanIs
        <5> QED BY <3>5, <4>2, <5>1, <5>2, <5>3
      <4>9. CASE ~ (e = <<>> /\ c \in Decimal)
        <5>a. Decimal \in SUBSET Int
          BY LetterTypes
        <5>1. Leads(d, Append(e, c), Tail(tail'), Decimal)
          <6>1. Leads(d, Append(e, c), Append(Tail(tail), c), Decimal)
            BY <3>1, <4>3, <4>9, <5>a, LeadsOn, Zenon
          <6> QED BY <4>2, <6>1
        <5>2. LengthIs(LengthOf(Tail(tail')), d, Append(e, c))
          BY <3>1, <4>3, <4>4, <4>5, <4>9, LengthOn
        <5>3. ScanIs(AddrRead(q, c), text, tail[1], p.state, d, Append(e, c))
          BY <3>1, <3>3, <4>3, <4>4, <4>6, <4>7, <4>9, PortOn DEF ScanIs
        <5> QED BY <3>5, <4>2, <5>1, <5>2, <5>3
      <4> QED BY <4>8, <4>9
    <3> QED BY <3>6, <3>7
  <2>4. CASE UNCHANGED vars
    <3>1. text' = text /\ tail' = tail /\ p' = p
      BY <2>4 DEF vars
    <3> QED BY <3>1 DEF TailInv, Whole
  <2> QED BY <2>2, <2>3, <2>4 DEF Next, Letters
<1> QED BY <1>1, <1>2, MarkInvariance, PTL DEF Spec

\* The parts of the text as a whole.
LEMMA WholeParts ==
  ASSUME NEW s \in Seq(Int), NEW t \in Seq(Int)
  PROVE  /\ SubSeq(s \o t, 1, Len(s)) = s
         /\ t # <<>> => SubSeq(s \o t, Len(s) + 2, Len(s \o t)) = Tail(t)
<1>1. /\ s \o t \in Seq(Int) /\ Len(s) \in Nat /\ Len(t) \in Nat /\ Len(s \o t) = Len(s) + Len(t)
      /\ \A k \in 1 .. Len(s) : (s \o t)[k] = s[k]
      /\ \A k \in 1 .. Len(t) : (s \o t)[Len(s) + k] = t[k]
  BY ConcatAt, MoreBehind
<1>2. PICK w \in Seq(Int) : w = s \o t
  BY <1>1
<1>3. SubSeq(w, 1, Len(s)) = s
  <2>1. /\ SubSeq(w, 1, Len(s)) \in Seq(Int) /\ Len(SubSeq(w, 1, Len(s))) = Len(s)
        /\ \A k \in 1 .. Len(s) : SubSeq(w, 1, Len(s))[k] = w[k]
    BY <1>1, <1>2
  <2> QED BY <1>1, <1>2, <2>1, SeqEqual
<1>4. ASSUME t # <<>> PROVE SubSeq(w, Len(s) + 2, Len(w)) = Tail(t)
  <2>1. /\ Len(t) > 0 /\ Tail(t) \in Seq(Int) /\ Len(Tail(t)) = Len(t) - 1
        /\ \A k \in 1 .. Len(t) - 1 : Tail(t)[k] = t[k + 1]
    BY <1>4, TailAt
  <2>2. /\ SubSeq(w, Len(s) + 2, Len(w)) \in Seq(Int)
        /\ Len(SubSeq(w, Len(s) + 2, Len(w))) = Len(t) - 1
        /\ \A k \in 1 .. Len(t) - 1 : SubSeq(w, Len(s) + 2, Len(w))[k] = w[Len(s) + 1 + k]
    <3>1. ASSUME NEW v \in Seq(Int), NEW n \in Nat, NEW m \in Nat, m > 0, Len(v) = n + m
          PROVE  /\ SubSeq(v, n + 2, Len(v)) \in Seq(Int) /\ Len(SubSeq(v, n + 2, Len(v))) = m - 1
                 /\ \A k \in 1 .. m - 1 : SubSeq(v, n + 2, Len(v))[k] = v[n + 1 + k]
      BY <3>1
    <3>2. Len(w) = Len(s) + Len(t)
      BY <1>1, <1>2
    <3> QED BY <1>1, <2>1, <3>1, <3>2
  <2>3. ASSUME NEW k \in 1 .. Len(t) - 1 PROVE w[Len(s) + 1 + k] = t[k + 1]
    <3>1. k + 1 \in 1 .. Len(t) /\ Len(s) + (k + 1) = Len(s) + 1 + k
      BY <1>1, <2>1
    <3> QED BY <1>1, <1>2, <3>1
  <2> QED BY <2>1, <2>2, <2>3, SeqEqual
<1> QED BY <1>2, <1>3, <1>4

\* A refused text leaves the address zero, and an automaton at an error refuses.
LEMMA RefusedIsZero ==
  ASSUME NEW q \in Parsers
  PROVE  /\ Finish(q).success \in BOOLEAN
         /\ ~ Finish(q).success => Finish(q).ip = ZeroIP
         /\ q.state = "error" => ~ Finish(q).success
BY DEF Finish

\* The number behind the mark is the value of the digits that lead the tail.
LEMMA TailValueIs ==
  ASSUME TypeOK, tail # <<>>, NEW d, NEW e, Leads(d, e, Tail(tail), Decimal)
  PROVE  TailValue = Value(d, DecBase) /\ Value(d, DecBase) \in Nat
<1>1. DigitsFrom(tail, 2, DecBase) = d
  <2>1. tail \in Seq(Int) /\ Tail(tail) \in Seq(Int) /\ EndsWith(tail, 1, Tail(tail))
    BY TailAt DEF TypeOK, EndsWith
  <2>2. DigitsFrom(tail, 1 + 1, DecBase) = d
    BY <2>1, DigitsFromLeads, BaseAssumption DEF Decimal
  <2> QED BY <2>2
<1>2. d \in Seq(Nat)
  BY DigitsAreInt DEF Leads
<1>3. Value(d, DecBase) \in Nat
  BY <1>2, ValueSteps, BaseAssumption
<1> QED BY <1>1, <1>3 DEF TailValue

\* addr4_t::from_str: an address with a port is accepted exactly when both are,
\* and a refused one tests false, for every text whose port fits a size_t.
THEOREM Ip4AddrHolds == Spec => []AddrIsAddressAndPort
<1>1. TypeOK /\ MarkInv /\ TailInv => AddrIsAddressAndPort
  <2> SUFFICES ASSUME TypeOK, MarkInv, TailInv PROVE AddrIsAddressAndPort
    OBVIOUS
  <2> DEFINE q == ScanOf(Whole)
             f == Finish(p)
             r == addr_from_str(Whole)
             good == /\ text # <<>> /\ tail # <<>> /\ tail[1] = Colon
                     /\ f.success /\ TailValue \in 1 .. PortMax
  <2>1. text \in Seq(Int) /\ tail \in Seq(Int) /\ p \in Parsers /\ Len(text) \in Nat
    BY DEF TypeOK
  <2>2. from_str(text) = f
    BY DEF MarkInv, from_str, Parsed
  <2>3. r = IF q.ip_length = 0 \/ q.accum = 0 \/ q.accum > PortMax
              THEN [addr |-> EmptyAddr, success |-> FALSE]
              ELSE [addr |-> [ip |-> from_str(SubSeq(Whole, 1, q.ip_length)).ip, port |-> q.accum],
                    success |-> from_str(SubSeq(Whole, 1, q.ip_length)).success]
    BY DEF addr_from_str, ScanOf, NewScan
  <2>4. ~ AddrIsSet(EmptyAddr)
    BY DEF AddrIsSet, EmptyAddr
  <2>5. f.success \in BOOLEAN /\ (~ f.success => f.ip = ZeroIP) /\ (p.state = "error" => ~ f.success)
    BY <2>1, RefusedIsZero
  <2> HIDE DEF q, f, r
  <2>6. ASSUME q.ip_length = 0, ~ good PROVE AddrIsAddressAndPort
    <3>1. r = [addr |-> EmptyAddr, success |-> FALSE]
      BY <2>3, <2>6
    <3> QED BY <2>4, <2>6, <3>1 DEF AddrIsAddressAndPort, r, f
  <2>7. CASE tail = <<>>
    <3>1. q = ScanOf(text)
      BY <2>7, WholeSteps DEF q
    <3>2. q.ip_length = 0
      BY <2>7, <3>1 DEF TailInv
    <3> QED BY <2>6, <2>7, <3>2
  <2>8. CASE tail # <<>>
    <3>1. PICK d, e : Leads(d, e, Tail(tail), Decimal) /\ ScanIs(q, text, tail[1], p.state, d, e)
      BY <2>8 DEF TailInv, q
    <3>2. TailValue = Value(d, DecBase) /\ TailValue \in Nat
      BY <2>8, <3>1, TailValueIs
    <3>3. CASE q.ip_length = 0 /\ (tail[1] = Slash \/ text = <<>> \/ p.state = "error")
      <4>1. ~ good
        BY <2>5, <3>3, LetterTypes
      <4> QED BY <2>6, <3>3, <4>1
    <3>4. CASE tail[1] = Colon /\ text # <<>> /\ PortIs(q, Len(text), d, e)
      <4> SUFFICES ASSUME TailValue < Wide PROVE AddrIsAddressAndPort
        BY DEF AddrIsAddressAndPort
      <4>1. q.ip_length = Len(text) /\ Len(text) # 0 /\ q.accum = TailValue
        <5>1. TailValue % Wide = TailValue
          BY <3>2, WidePositive, RemainderBelow
        <5>2. Len(text) # 0
          BY <2>1, <3>4
        <5> QED BY <3>2, <3>4, <5>1, <5>2 DEF PortIs
      <4>2. SubSeq(Whole, 1, Len(text)) = text
        BY <2>1, WholeParts DEF Whole
      <4>3. from_str(SubSeq(Whole, 1, q.ip_length)) = f
        BY <2>2, <4>1, <4>2
      <4>4. (q.accum = 0 \/ q.accum > PortMax) <=> TailValue \notin 1 .. PortMax
        BY <3>2, <4>1, BoundAssumption
      <4>5. CASE TailValue \notin 1 .. PortMax
        <5>1. r = [addr |-> EmptyAddr, success |-> FALSE]
          BY <2>3, <4>4, <4>5
        <5> QED BY <2>4, <4>5, <5>1 DEF AddrIsAddressAndPort, r, f
      <4>6. CASE TailValue \in 1 .. PortMax
        <5>1. r = [addr |-> [ip |-> f.ip, port |-> TailValue], success |-> f.success]
          BY <2>3, <4>1, <4>3, <4>4, <4>6
        <5>2. good <=> f.success
          BY <2>5, <2>8, <3>4, <4>6
        <5>3. ~ good => ~ AddrIsSet(r.addr)
          BY <2>5, <5>1, <5>2 DEF AddrIsSet
        <5>4. (r.success <=> good) /\ (good => r.addr = [ip |-> f.ip, port |-> TailValue])
          BY <5>1, <5>2
        <5> QED BY <5>3, <5>4 DEF AddrIsAddressAndPort, r, f
      <4> QED BY <4>5, <4>6
    <3> QED BY <3>1, <3>3, <3>4 DEF ScanIs
  <2> QED BY <2>7, <2>8
<1> QED BY <1>1, MarkInvariance, TailInvariance, PTL

\* The characters equal to a slash, and the position SelectInSeq gives them.
Slashes(s) == {i \in 1 .. Len(s) : s[i] = Slash}
SlashAt(s) == IF Slashes(s) # {} THEN Min(Slashes(s)) ELSE 0

\* The only slash is the mark behind the address.
LEMMA SlashIsMark ==
  ASSUME TypeOK, MarkInv
  PROVE  SlashAt(Whole) = IF tail # <<>> /\ tail[1] = Slash THEN Len(text) + 1 ELSE 0
<1> DEFINE n == Len(text)
           I == Slashes(Whole)
<1>1. /\ text \in Seq(Int) /\ tail \in Seq(Int) /\ n \in Nat /\ Len(tail) \in Nat
      /\ Len(Whole) = n + Len(tail)
      /\ \A k \in 1 .. n : Whole[k] = text[k]
      /\ \A k \in 1 .. Len(tail) : Whole[n + k] = tail[k]
  BY ConcatAt DEF TypeOK, Whole
<1>2. \A i \in 1 .. n : text[i] # Slash
  <2>1. \A i \in 1 .. n : text[i] \in Letters
    BY DEF MarkInv
  <2> QED BY <2>1, LetterTypes
<1>3. \A k \in 2 .. Len(tail) : tail[k] # Slash
  <2> TAKE k \in 2 .. Len(tail)
  <2>1. tail # <<>> /\ k - 1 \in 1 .. Len(tail) - 1
    BY <1>1
  <2>2. Tail(tail)[k - 1] = tail[k] /\ Len(Tail(tail)) = Len(tail) - 1
    <3>1. ASSUME NEW t \in Seq(Int) \ {<<>>}, NEW j \in 1 .. Len(t) - 1
          PROVE  Tail(t)[j] = t[j + 1] /\ Len(Tail(t)) = Len(t) - 1
      BY TailAt
    <3>2. (k - 1) + 1 = k
      BY <1>1
    <3> QED BY <1>1, <2>1, <3>1, <3>2
  <2>3. Tail(tail) \in Seq(Decimal \cup {Other})
    BY <2>1 DEF MarkInv
  <2>4. Tail(tail)[k - 1] \in Decimal \cup {Other}
    BY <2>1, <2>2, <2>3
  <2> QED BY <2>2, <2>4, LetterTypes
<1>4. ASSUME NEW i \in I PROVE i = n + 1 /\ Len(tail) > 0 /\ tail[1] = Slash
  <2>1. i \in 1 .. n + Len(tail) /\ Whole[i] = Slash
    BY <1>1, <1>4 DEF Slashes
  <2>2. i \notin 1 .. n
    BY <1>1, <1>2, <2>1
  <2>3. i - n \in 1 .. Len(tail) /\ n + (i - n) = i
    BY <1>1, <2>1, <2>2
  <2>4. tail[i - n] = Slash
    BY <1>1, <2>1, <2>3
  <2>5. i - n = 1
    BY <1>1, <1>3, <2>1, <2>3, <2>4
  <2> QED BY <1>1, <2>1, <2>3, <2>4, <2>5
<1>5. CASE tail # <<>> /\ tail[1] = Slash
  <2>1. Len(tail) > 0
    BY <1>1, <1>5
  <2>2. n + 1 \in I
    <3>1. n + 1 \in 1 .. Len(Whole) /\ 1 \in 1 .. Len(tail)
      BY <1>1, <2>1
    <3> QED BY <1>1, <1>5, <3>1 DEF Slashes
  <2>3. I = {n + 1}
    BY <1>4, <2>2
  <2>4. Min({n + 1}) = n + 1
    <3>1. Min({n + 1}) = CHOOSE x \in {n + 1} : \A y \in {n + 1} : x <= y
      BY DEF Min
    <3> QED BY <1>1, <3>1
  <2> QED BY <1>5, <2>3, <2>4 DEF SlashAt
<1>6. CASE ~ (tail # <<>> /\ tail[1] = Slash)
  <2>1. I = {}
    BY <1>1, <1>4, <1>6
  <2> QED BY <1>6, <2>1 DEF SlashAt
<1> QED BY <1>5, <1>6

\* ip_prefix_t::from_str: the length is the number behind the slash and the
\* address is masked by it, for every text whose length fits a uint32_t.
THEOREM Ip4PrefixHolds == Spec => []PrefixIsNetwork
<1>1. TypeOK /\ MarkInv /\ TailInv => PrefixIsNetwork
  <2> SUFFICES ASSUME TypeOK, MarkInv, TailInv PROVE PrefixIsNetwork
    OBVIOUS
  <2> DEFINE at == SlashAt(Whole)
             f == Finish(p)
             g == from_str(IF at = 0 THEN Whole ELSE SubSeq(Whole, 1, at - 1))
             q == LengthOf(SubSeq(Whole, at + 1, Len(Whole)))
             r == prefix_from_str(Whole)
             slash == tail # <<>> /\ tail[1] = Slash
             digits == Len(tail) > 1 /\ tail[2] \in Decimal
  <2>1. text \in Seq(Int) /\ tail \in Seq(Int) /\ p \in Parsers /\ Len(text) \in Nat
    BY DEF TypeOK
  <2>2. from_str(text) = f
    BY DEF MarkInv, from_str, Parsed
  <2>3. r = IF ~ g.success \/ (at # 0 /\ (~ q.has_digits \/ q.accum > max_length))
              THEN [prefix |-> EmptyPrefix, success |-> FALSE]
            ELSE IF at = 0 THEN [prefix |-> [ip |-> g.ip, length |-> max_length], success |-> TRUE]
            ELSE [prefix |-> [ip |-> Masked(g.ip, q.accum), length |-> q.accum], success |-> TRUE]
    BY DEF prefix_from_str, SelectInSeq, SlashAt, Slashes, LengthOf, NewLength
  <2>4. at = IF slash THEN Len(text) + 1 ELSE 0
    BY SlashIsMark
  <2>5. f.success \in BOOLEAN
    BY <2>1, RefusedIsZero
  <2> HIDE DEF at, f, g, q, r
  <2>6. CASE tail = <<>>
    <3>1. at = 0 /\ Whole = text
      BY <2>4, <2>6, WholeSteps
    <3>2. g = f
      BY <2>2, <3>1 DEF g
    <3>3. r = IF ~ f.success THEN [prefix |-> EmptyPrefix, success |-> FALSE]
              ELSE [prefix |-> [ip |-> f.ip, length |-> max_length], success |-> TRUE]
      BY <2>3, <3>1, <3>2
    <3>4. r.success = f.success /\ (r.success => r.prefix.length = max_length)
      BY <2>5, <3>3
    <3> QED BY <2>6, <3>4 DEF PrefixIsNetwork, r, f
  <2>7. CASE tail # <<>> /\ ~ slash
    <3>1. at = 0
      BY <2>4, <2>7
    <3>2. g = Finish(Parsed(Whole))
      BY <3>1 DEF g, from_str, Parsed
    <3>3. Parsed(Whole).state = "error" /\ Parsed(Whole) \in Parsers
      BY <2>7, WholeSteps, ParsedSteps DEF MarkInv
    <3>4. ~ g.success
      BY <3>2, <3>3, RefusedIsZero
    <3>5. r = [prefix |-> EmptyPrefix, success |-> FALSE]
      BY <2>3, <3>4
    <3>6. ~ r.success /\ r.prefix = EmptyPrefix
      BY <3>5
    <3> QED BY <2>7, <3>6 DEF PrefixIsNetwork, r, f
  <2>8. CASE slash
    <3>1. at = Len(text) + 1 /\ at # 0 /\ at - 1 = Len(text) /\ at + 1 = Len(text) + 2
      BY <2>1, <2>4, <2>8
    <3>2. SubSeq(Whole, 1, Len(text)) = text /\ SubSeq(Whole, Len(text) + 2, Len(Whole)) = Tail(tail)
      BY <2>1, <2>8, WholeParts DEF Whole
    <3>3. g = f
      BY <2>2, <3>1, <3>2 DEF g
    <3>4. PICK d, e : Leads(d, e, Tail(tail), Decimal) /\ LengthIs(LengthOf(Tail(tail)), d, e)
      BY <2>8 DEF TailInv
    <3>5. TailValue = Value(d, DecBase) /\ TailValue \in Nat
      BY <2>8, <3>4, TailValueIs
    <3>6. q = LengthOf(Tail(tail))
      BY <3>1, <3>2 DEF q
    <3>7. q.accum = TailValue % Word /\ q.has_digits = (d # <<>>)
      BY <3>4, <3>5, <3>6 DEF LengthIs
    <3>8. q.accum \in Nat /\ (TailValue < Word => q.accum = TailValue)
      BY <3>5, <3>7, WordPositive, RemainderBelow
    <3>9. max_length \in Nat
      BY WidthAssumption DEF max_length
    <3>10. digits <=> d # <<>>
      <4>1. /\ d \in Seq(Decimal) /\ d \in Seq(Int) /\ e \in Seq(Int) /\ Tail(tail) = d \o e
            /\ e = <<>> \/ e[1] \notin Decimal
        BY <3>4, DigitsAreInt DEF Leads
      <4>2. /\ Len(tail) \in Nat /\ Len(tail) > 0 /\ Len(Tail(tail)) = Len(tail) - 1
            /\ \A k \in 1 .. Len(tail) - 1 : Tail(tail)[k] = tail[k + 1]
        BY <2>1, <2>8, TailAt
      <4>3. /\ Len(d) \in Nat /\ Len(e) \in Nat /\ Len(d \o e) = Len(d) + Len(e)
            /\ \A k \in 1 .. Len(d) : (d \o e)[k] = d[k]
            /\ \A k \in 1 .. Len(e) : (d \o e)[Len(d) + k] = e[k]
        BY <4>1, ConcatAt
      <4>4. Len(tail) > 1 => Tail(tail)[1] = tail[2]
        <5>1. Len(tail) > 1 => 1 \in 1 .. Len(tail) - 1 /\ 1 + 1 = 2
          BY <4>2
        <5> QED BY <4>2, <5>1
      <4>5. CASE d # <<>>
        <5>1. Len(d) > 0 /\ d[1] \in Decimal
          BY <4>1, <4>5
        <5>2. (d \o e)[1] = d[1] /\ Len(d \o e) > 0
          BY <4>3, <5>1
        <5> QED BY <4>1, <4>2, <4>4, <4>5, <5>1, <5>2
      <4>6. CASE d = <<>>
        <5>1. d \o e = e
          BY <4>1, <4>6
        <5>2. ASSUME Len(tail) > 1 PROVE tail[2] = e[1] /\ e # <<>>
          BY <4>1, <4>2, <4>4, <5>1, <5>2
        <5> QED BY <4>1, <4>6, <5>2
      <4> QED BY <4>5, <4>6
    <3>11. r = IF ~ f.success \/ ~ digits \/ q.accum > max_length
                 THEN [prefix |-> EmptyPrefix, success |-> FALSE]
               ELSE [prefix |-> [ip |-> Masked(f.ip, q.accum), length |-> q.accum], success |-> TRUE]
      BY <2>3, <3>1, <3>3, <3>7, <3>10
    <3> HIDE DEF digits
    <3>12. CASE ~ f.success \/ ~ digits \/ q.accum > max_length
      <4>1. ~ r.success /\ r.prefix = EmptyPrefix
        BY <3>11, <3>12
      <4>2. TailValue < Word => ~ (f.success /\ digits /\ TailValue <= max_length)
        BY <3>5, <3>8, <3>9, <3>12
      <4> QED BY <2>8, <4>1, <4>2 DEF PrefixIsNetwork, r, f, digits
    <3>13. CASE ~ (~ f.success \/ ~ digits \/ q.accum > max_length)
      <4>1. r.success /\ r.prefix.length = q.accum /\ r.prefix.ip = Masked(f.ip, q.accum)
        BY <3>11, <3>13
      <4>2. q.accum <= max_length /\ f.success /\ digits
        BY <3>8, <3>9, <3>13
      <4>3. TailValue < Word => TailValue <= max_length
        BY <3>8, <4>2
      <4> QED BY <2>8, <4>1, <4>2, <4>3 DEF PrefixIsNetwork, r, f, digits
    <3> QED BY <3>12, <3>13
  <2> QED BY <2>6, <2>7, <2>8
<1> QED BY <1>1, MarkInvariance, TailInvariance, PTL
=============================================================================
