---------------------------- MODULE Ip6TextProofs ----------------------------
(***************************************************************************)
(* ip6_t and addr6_t for every number of groups, every base and byte width *)
(* and texts of every length: the automaton of from_str against the        *)
(* reference reading of a text, to_str and its inverse, and the port.      *)
(***************************************************************************)
EXTENDS Ip6Text, TextsProofs, FiniteSetTheorems

\* A parser whose arrays are not overrun: one group and one octet are left for
\* the end of the text.
InBounds(q) ==
  /\ q \in Parsers /\ Len(q.result_hex) < Groups /\ Len(q.result_dec) <= 3
  /\ q.separator <= Len(q.result_hex)

LEMMA WordPositive == Octet * Octet \in Nat \ {0} /\ Word \in Nat \ {0}
<1>1. Octet * Octet \in Nat \ {0}
  BY WidthAssumption
<1>2. Octet * Octet * Octet \in Nat \ {0}
  BY <1>1, WidthAssumption
<1> QED
  BY <1>1, <1>2, WidthAssumption DEF Word

LEMMA ErrorType == ASSUME NEW q, InBounds(q) PROVE InBounds(Error(q))
  BY DEF InBounds, Error, Parsers

\* A number that fits becomes one more group of the array.
LEMMA PushGroupType ==
  ASSUME NEW q, InBounds(q), GroupEnds(q)
  PROVE  /\ InBounds(PushGroup(q))
         /\ Len(PushGroup(q).result_hex) = Len(q.result_hex) + 1
<1>1. q.accum_hex \in Group
  BY WordPositive DEF InBounds, Parsers, GroupEnds, Group, Ones
<1>2. /\ Append(q.result_hex, q.accum_hex) \in Seq(Group)
      /\ Len(Append(q.result_hex, q.accum_hex)) = Len(q.result_hex) + 1
  BY <1>1 DEF InBounds, Parsers
<1>3. 0 \in 0 .. Word - 1
  BY WordPositive
<1>4. PushGroup(q) = [q EXCEPT !.result_hex = Append(q.result_hex, q.accum_hex),
                               !.accum_hex = 0, !.accum_dec = 0, !.pending = FALSE]
  BY DEF PushGroup
<1>5. PushGroup(q) \in Parsers
  BY <1>2, <1>3, <1>4 DEF InBounds, Parsers
<1>6. /\ PushGroup(q).result_hex = Append(q.result_hex, q.accum_hex)
      /\ PushGroup(q).result_dec = q.result_dec
      /\ PushGroup(q).separator = q.separator
  BY <1>4 DEF InBounds, Parsers
<1>7. /\ Len(q.result_hex) \in Nat /\ Len(q.result_hex) + 1 < Groups
      /\ q.separator \in Int
  BY WidthAssumption DEF InBounds, Parsers, GroupEnds, NoSeparator
<1> QED
  BY <1>2, <1>5, <1>6, <1>7, WidthAssumption DEF InBounds

LEMMA SingleColonType == ASSUME NEW q, InBounds(q) PROVE InBounds(SingleColon(q))
  BY ErrorType, PushGroupType DEF SingleColon

LEMMA DoubleColonType == ASSUME NEW q, InBounds(q) PROVE InBounds(DoubleColon(q))
<1>1. CASE q.separator # NoSeparator \/ ~ GroupEnds(q)
  BY <1>1, ErrorType DEF DoubleColon
<1>2. CASE ~ (q.separator # NoSeparator \/ ~ GroupEnds(q))
  <2> DEFINE r == IF q.state = "proc" THEN PushGroup(q) ELSE [q EXCEPT !.pending = FALSE]
  <2>1. InBounds([q EXCEPT !.pending = FALSE])
    BY DEF InBounds, Parsers
  <2>2. InBounds(r)
    BY <1>2, <2>1, PushGroupType
  <2> HIDE DEF r
  <2>3. Len(r.result_hex) \in NoSeparator .. Groups - 1
    BY <2>2, WidthAssumption DEF InBounds, Parsers, NoSeparator
  <2>4. InBounds([r EXCEPT !.separator = Len(r.result_hex)])
    <3>1. [r EXCEPT !.separator = Len(r.result_hex)] \in Parsers
      BY <2>2, <2>3 DEF InBounds, Parsers
    <3>2. /\ [r EXCEPT !.separator = Len(r.result_hex)].result_hex = r.result_hex
          /\ [r EXCEPT !.separator = Len(r.result_hex)].result_dec = r.result_dec
          /\ [r EXCEPT !.separator = Len(r.result_hex)].separator = Len(r.result_hex)
      BY <2>2 DEF InBounds, Parsers
    <3>3. Len(r.result_hex) \in Nat
      BY <2>2 DEF InBounds, Parsers
    <3> QED
      BY <2>2, <3>1, <3>2, <3>3 DEF InBounds
  <2> QED
    BY <1>2, <2>4 DEF DoubleColon, r
<1> QED
  BY <1>1, <1>2

LEMMA ReadDotType == ASSUME NEW q, InBounds(q) PROVE InBounds(ReadDot(q))
<1>1. CASE q.state = "proc" /\ q.accum_dec < Octet /\ Len(q.result_dec) < 3
  <2>1. q.accum_dec \in Byte
    BY <1>1, WordPositive, WidthAssumption DEF InBounds, Parsers, Byte
  <2>2. /\ Append(q.result_dec, q.accum_dec) \in Seq(Byte)
        /\ Len(Append(q.result_dec, q.accum_dec)) <= 3
    BY <1>1, <2>1 DEF InBounds, Parsers
  <2>3. 0 \in 0 .. Word - 1
    BY WordPositive
  <2>4. ReadDot(q) = [q EXCEPT !.result_dec = Append(q.result_dec, q.accum_dec),
                               !.accum_dec = 0, !.accum_hex = 0]
    BY <1>1 DEF ReadDot
  <2>5. ReadDot(q) \in Parsers
    BY <2>2, <2>3, <2>4 DEF InBounds, Parsers
  <2>6. /\ ReadDot(q).result_dec = Append(q.result_dec, q.accum_dec)
        /\ ReadDot(q).result_hex = q.result_hex
        /\ ReadDot(q).separator = q.separator
    BY <2>4 DEF InBounds, Parsers
  <2> QED
    BY <2>2, <2>5, <2>6 DEF InBounds
<1>2. CASE ~ (q.state = "proc" /\ q.accum_dec < Octet /\ Len(q.result_dec) < 3)
  BY <1>2, ErrorType DEF ReadDot
<1> QED
  BY <1>1, <1>2

LEMMA ReadDigitType == ASSUME NEW q, InBounds(q), NEW c \in Int PROVE InBounds(ReadDigit(q, c))
<1>1. CASE c \in Digit
  <2>1. /\ q.accum_hex * HexBase + c \in Int
        /\ q.accum_dec * DecBase + c \in Int
    BY WordPositive, BaseAssumption DEF InBounds, Parsers
  <2>2. /\ (q.accum_hex * HexBase + c) % Word \in 0 .. Word - 1
        /\ (q.accum_dec * DecBase + c) % Word \in 0 .. Word - 1
    BY <2>1, WordPositive
  <2>3. ReadDigit(q, c) = [q EXCEPT !.state = "proc",
                                    !.accum_hex = (q.accum_hex * HexBase + c) % Word,
                                    !.accum_dec = (q.accum_dec * DecBase + c) % Word]
    BY <1>1 DEF ReadDigit
  <2>4. ReadDigit(q, c) \in Parsers
    BY <2>2, <2>3 DEF InBounds, Parsers
  <2>5. /\ ReadDigit(q, c).result_dec = q.result_dec
        /\ ReadDigit(q, c).result_hex = q.result_hex
        /\ ReadDigit(q, c).separator = q.separator
    BY <2>3 DEF InBounds, Parsers
  <2> QED
    BY <2>4, <2>5 DEF InBounds
<1>2. CASE c \notin Digit
  BY <1>2, ErrorType DEF ReadDigit
<1> QED
  BY <1>1, <1>2

LEMMA SettledType == ASSUME NEW q, InBounds(q), NEW c \in Int PROVE InBounds(Settled(q, c))
<1>1. InBounds([q EXCEPT !.pending = TRUE])
  BY DEF InBounds, Parsers
<1> QED
  BY <1>1, ReadDotType, ReadDigitType DEF Settled

\* Every character leaves the automaton inside its arrays.
LEMMA ReadType == ASSUME NEW q, InBounds(q), NEW c \in Int PROVE InBounds(Read(q, c))
  BY SettledType, SingleColonType, DoubleColonType DEF Read

\* Whatever the text, the loop of ip6_t::from_str writes only inside
\* result_hex[8] and result_dec[3], leaves a place for the last group, and its
\* accumulators stay uint32_t.
THEOREM Ip6TypeCorrect == Spec => []TypeOK
<1>1. Init => TypeOK
  <2>1. NewParser \in Parsers
    BY WordPositive, WidthAssumption DEF NewParser, Parsers, NoSeparator
  <2> QED
    BY <2>1, WidthAssumption DEF Init, TypeOK, NewParser, NoSeparator
<1>2. TypeOK /\ [Next]_vars => TypeOK'
  <2> SUFFICES ASSUME TypeOK, [Next]_vars PROVE TypeOK'
    OBVIOUS
  <2>1. ASSUME NEW a, Construct(a) PROVE TypeOK'
    BY <2>1 DEF TypeOK, Construct
  <2>2. ASSUME NEW c \in Int, ReadAddress(c) PROVE TypeOK'
    <3>1. InBounds(p)
      BY DEF TypeOK, InBounds
    <3>2. InBounds(p')
      BY <2>2, <3>1, ReadType DEF ReadAddress
    <3> QED
      BY <2>2, <3>2 DEF TypeOK, ReadAddress, InBounds
  <2>3. ASSUME NEW c \in Int, ReadTail(c) PROVE TypeOK'
    BY <2>3 DEF TypeOK, ReadTail
  <2>4. CASE UNCHANGED vars
    BY <2>4 DEF TypeOK, vars
  <2>5. Digit \cup {0, 1, Close, Colon, Dot, Other} \subseteq Int
    BY BaseAssumption DEF Digit, Close, Colon, Dot, Other
  <2> QED
    BY <2>1, <2>2, <2>3, <2>4, <2>5 DEF Next
<1> QED
  BY <1>1, <1>2, PTL DEF Spec

-----------------------------------------------------------------------------
(* The two loops, character by character *)

Checked == {q \in Parsers : InBounds(q)}
Parsed(s) == FoldLeft(Read, NewParser, s)

LEMMA NewParserType == NewParser \in Parsers /\ InBounds(NewParser)
<1>1. NewParser \in Parsers
  BY WordPositive, WidthAssumption DEF NewParser, Parsers, NoSeparator
<1> QED
  BY <1>1, WidthAssumption DEF InBounds, NewParser, NoSeparator

\* ip6_t::from_str reads the characters one by one.
LEMMA ParsedSteps ==
  /\ Parsed(<<>>) = NewParser
  /\ \A s \in Seq(Int) : Parsed(s) \in Checked
  /\ \A s \in Seq(Int), c \in Int : Parsed(Append(s, c)) = Read(Parsed(s), c)
<1> DEFINE F == [q \in Checked |-> [c \in Int |-> Read(q, c)]]
<1>1. NewParser \in Checked
  BY NewParserType DEF Checked
<1>2. /\ F \in [Checked -> [Int -> Checked]]
      /\ \A q \in Checked, c \in Int : F[q][c] = Read(q, c)
  <2>1. \A q \in Checked, c \in Int : Read(q, c) \in Checked
    BY ReadType DEF Checked, InBounds
  <2> HIDE DEF Checked
  <2> QED BY <2>1
<1> HIDE DEF F
<1>3. ASSUME NEW s \in Seq(Int) PROVE FoldsTo(Parsed(s), Checked, Int, F, NewParser, s)
  <2> DEFINE Entry(g, t) == IF t = {} THEN NewParser ELSE Read(g[t \ {Max(t)}], s[Max(t)])
             P(g) == g = [t \in SUBSET DOMAIN s |-> Entry(g, t)]
             table == CHOOSE g : P(g)
  <2>1. PICK h \in [SUBSET DOMAIN s -> Checked] : IsTable(h, F, NewParser, s)
    BY <1>1, <1>2, TableExists
  <2>2. Len(s) \in Nat /\ DOMAIN s = 1 .. Len(s)
    OBVIOUS
  <2>3. ASSUME NEW t \in SUBSET DOMAIN s PROVE h[t] = Entry(h, t)
    <3>1. CASE t = {}
      BY <2>1, <3>1 DEF IsTable
    <3>2. CASE t # {}
      <4>1. Max(t) \in DOMAIN s
        BY <2>2, <3>2, MaxOf
      <4>2. s[Max(t)] \in Int /\ h[t \ {Max(t)}] \in Checked
        BY <2>1, <4>1
      <4> QED BY <1>2, <2>1, <3>2, <4>2 DEF IsTable
    <3> QED BY <3>1, <3>2
  <2>4. P(h)
    BY <2>3
  <2>5. Parsed(s) = table[DOMAIN s]
    BY DEF Parsed, FoldLeft, MapThenFoldSet
  <2>6. P(table)
    <3> HIDE DEF P
    <3> QED BY <2>4
  <2>7. \A t \in SUBSET DOMAIN s : table[t] = Entry(table, t)
    <3> HIDE DEF table, Entry
    <3> QED BY <2>6
  <2> HIDE DEF table, P
  <2>8. table[{}] = NewParser
    BY <2>7
  <2>9. ASSUME NEW k \in 1 .. Len(s), table[1 .. k - 1] \in Checked
        PROVE  table[1 .. k] = F[table[1 .. k - 1]][s[k]]
    <3>1. /\ 1 .. k \in SUBSET DOMAIN s /\ 1 .. k # {} /\ Max(1 .. k) = k
          /\ (1 .. k) \ {k} = 1 .. k - 1
      BY <2>2, Positions
    <3>2. table[1 .. k] = Read(table[1 .. k - 1], s[k])
      BY <2>7, <3>1
    <3>3. s[k] \in Int
      BY <2>2
    <3> QED BY <1>2, <2>9, <3>2, <3>3
  <2>10. FoldsTo(table[DOMAIN s], Checked, Int, F, NewParser, s)
    BY <1>1, <1>2, <2>8, <2>9, TableFolds
  <2> QED BY <2>5, <2>10
<1>4. ASSUME NEW s \in Seq(Int), NEW c \in Int
      PROVE  /\ Parsed(s) \in Checked /\ (s = <<>> => Parsed(s) = NewParser)
             /\ Parsed(Append(s, c)) = F[Parsed(s)][c]
  <2>1. FoldsTo(Parsed(s), Checked, Int, F, NewParser, s)
    BY <1>3
  <2>2. Append(s, c) \in Seq(Int)
    OBVIOUS
  <2>3. FoldsTo(Parsed(Append(s, c)), Checked, Int, F, NewParser, Append(s, c))
    BY <1>3, <2>2, Zenon
  <2>4. Parsed(s) \in Checked /\ (s = <<>> => Parsed(s) = NewParser)
    BY <2>1, FoldType
  <2>5. Parsed(Append(s, c)) = F[Parsed(s)][c]
    BY <2>1, <2>3, FoldSnoc
  <2> QED BY <2>4, <2>5
<1>5. <<>> \in Seq(Int) /\ 0 \in Int
  OBVIOUS
<1> QED BY <1>2, <1>4, <1>5

\* ModStep for a uint32_t.
LEMMA WordStep ==
  ASSUME NEW n \in Nat, NEW base \in Nat, NEW c \in Nat
  PROVE  ((n % Word) * base + c) % Word = (n * base + c) % Word
<1>1. Word \in Nat \ {0}
  BY WordPositive
<1> QED BY <1>1, ModStep, Zenon

\* A size_t has at least the values of a uint32_t.
LEMMA WidePositive == Wide \in Nat \ {0}
BY WordPositive DEF Wide

\* ModStep for a size_t.
LEMMA WideStep ==
  ASSUME NEW n \in Nat, NEW base \in Nat, NEW c \in Nat
  PROVE  ((n % Wide) * base + c) % Wide = (n * base + c) % Wide
BY WidePositive, ModStep, Zenon

Scans == [state : {"open", "ipp", "close", "portt", "end", "error"}, ip : Seq(Int), accum : 0 .. Wide - 1]
ScanOf(s) == FoldLeft(AddrRead, NewAddrParser, s)

\* A character leaves the port a size_t.
LEMMA ScanType == \A q \in Scans, c \in Int : AddrRead(q, c) \in Scans
<1> TAKE q \in Scans, c \in Int
<1>1. /\ q.ip \in Seq(Int) /\ q.accum \in 0 .. Wide - 1
      /\ q.state \in {"open", "ipp", "close", "portt", "end", "error"}
  BY DEF Scans
<1>2. \A x \in {"ipp", "close", "portt", "end", "error"} : [q EXCEPT !.state = x] \in Scans
  BY DEF Scans
<1>3. \A x \in Seq(Int) : [q EXCEPT !.ip = x] \in Scans
  BY DEF Scans
<1>4. \A x \in 0 .. Wide - 1 : [q EXCEPT !.accum = x] \in Scans
  BY DEF Scans
<1>5. Append(q.ip, c) \in Seq(Int)
  BY <1>1
<1>6. (q.accum * DecBase + c) % Wide \in 0 .. Wide - 1
  <2>1. q.accum * DecBase + c \in Int
    BY <1>1, BaseAssumption, WidePositive
  <2> QED BY <1>1, <2>1, WidePositive
<1>7. CASE q.state = "open"
  BY <1>2, <1>7 DEF AddrRead
<1>8. CASE q.state = "ipp"
  BY <1>2, <1>3, <1>5, <1>8 DEF AddrRead
<1>9. CASE q.state = "close"
  BY <1>2, <1>9 DEF AddrRead
<1>10. CASE q.state = "portt"
  BY <1>2, <1>4, <1>6, <1>10 DEF AddrRead
<1>11. CASE q.state \in {"end", "error"}
  BY <1>11 DEF AddrRead
<1> QED BY <1>1, <1>7, <1>8, <1>9, <1>10, <1>11

\* addr6_t::from_str reads the characters one by one.
LEMMA ScanSteps ==
  /\ ScanOf(<<>>) = NewAddrParser
  /\ \A s \in Seq(Int) : ScanOf(s) \in Scans
  /\ \A s \in Seq(Int), c \in Int : ScanOf(Append(s, c)) = AddrRead(ScanOf(s), c)
<1> DEFINE F == [q \in Scans |-> [c \in Int |-> AddrRead(q, c)]]
<1>1. NewAddrParser \in Scans
  BY WidePositive DEF NewAddrParser, Scans
<1>2. /\ F \in [Scans -> [Int -> Scans]]
      /\ \A q \in Scans, c \in Int : F[q][c] = AddrRead(q, c)
  BY ScanType
<1> HIDE DEF F
<1>3. ASSUME NEW s \in Seq(Int) PROVE FoldsTo(ScanOf(s), Scans, Int, F, NewAddrParser, s)
  <2> DEFINE Entry(g, t) == IF t = {} THEN NewAddrParser ELSE AddrRead(g[t \ {Max(t)}], s[Max(t)])
             P(g) == g = [t \in SUBSET DOMAIN s |-> Entry(g, t)]
             table == CHOOSE g : P(g)
  <2>1. PICK h \in [SUBSET DOMAIN s -> Scans] : IsTable(h, F, NewAddrParser, s)
    BY <1>1, <1>2, TableExists
  <2>2. Len(s) \in Nat /\ DOMAIN s = 1 .. Len(s)
    OBVIOUS
  <2>3. ASSUME NEW t \in SUBSET DOMAIN s PROVE h[t] = Entry(h, t)
    <3>1. CASE t = {}
      BY <2>1, <3>1 DEF IsTable
    <3>2. CASE t # {}
      <4>1. Max(t) \in DOMAIN s
        BY <2>2, <3>2, MaxOf
      <4>2. s[Max(t)] \in Int /\ h[t \ {Max(t)}] \in Scans
        BY <2>1, <4>1
      <4> QED BY <1>2, <2>1, <3>2, <4>2 DEF IsTable
    <3> QED BY <3>1, <3>2
  <2>4. P(h)
    BY <2>3
  <2>5. ScanOf(s) = table[DOMAIN s]
    BY DEF ScanOf, FoldLeft, MapThenFoldSet
  <2>6. P(table)
    <3> HIDE DEF P
    <3> QED BY <2>4
  <2>7. \A t \in SUBSET DOMAIN s : table[t] = Entry(table, t)
    <3> HIDE DEF table, Entry
    <3> QED BY <2>6
  <2> HIDE DEF table, P
  <2>8. table[{}] = NewAddrParser
    BY <2>7
  <2>9. ASSUME NEW k \in 1 .. Len(s), table[1 .. k - 1] \in Scans
        PROVE  table[1 .. k] = F[table[1 .. k - 1]][s[k]]
    <3>1. /\ 1 .. k \in SUBSET DOMAIN s /\ 1 .. k # {} /\ Max(1 .. k) = k
          /\ (1 .. k) \ {k} = 1 .. k - 1
      BY <2>2, Positions
    <3>2. table[1 .. k] = AddrRead(table[1 .. k - 1], s[k])
      BY <2>7, <3>1
    <3>3. s[k] \in Int
      BY <2>2
    <3> QED BY <1>2, <2>9, <3>2, <3>3
  <2>10. FoldsTo(table[DOMAIN s], Scans, Int, F, NewAddrParser, s)
    BY <1>1, <1>2, <2>8, <2>9, TableFolds
  <2> QED BY <2>5, <2>10
<1>4. ASSUME NEW s \in Seq(Int), NEW c \in Int
      PROVE  /\ ScanOf(s) \in Scans /\ (s = <<>> => ScanOf(s) = NewAddrParser)
             /\ ScanOf(Append(s, c)) = F[ScanOf(s)][c]
  <2>1. FoldsTo(ScanOf(s), Scans, Int, F, NewAddrParser, s)
    BY <1>3
  <2>2. Append(s, c) \in Seq(Int)
    OBVIOUS
  <2>3. FoldsTo(ScanOf(Append(s, c)), Scans, Int, F, NewAddrParser, Append(s, c))
    BY <1>3, <2>2, Zenon
  <2>4. ScanOf(s) \in Scans /\ (s = <<>> => ScanOf(s) = NewAddrParser)
    BY <2>1, FoldType
  <2>5. ScanOf(Append(s, c)) = F[ScanOf(s)][c]
    BY <2>1, <2>3, FoldSnoc
  <2> QED BY <2>4, <2>5
<1>5. <<>> \in Seq(Int) /\ 0 \in Int
  OBVIOUS
<1> QED BY <1>2, <1>4, <1>5

-----------------------------------------------------------------------------
(* An address in brackets and its port *)

Decimal == 0 .. DecBase - 1
Letters == Digit \cup {Colon, Dot, Other}
Whole == <<Open>> \o text \o tail

\* The marks are no digits.
LEMMA Marks ==
  /\ Decimal \subseteq Digit /\ Digit \subseteq Nat /\ Decimal \subseteq Int /\ 0 \in Decimal
  /\ Letters \subseteq Int /\ {0, 1, Close, Colon, Other} \subseteq Int /\ Open \in Int /\ Dot \in Int
  /\ Colon \notin Digit /\ Dot \notin Digit /\ Other \notin Digit
  /\ Colon # Dot /\ Other # Colon /\ Other # Dot
  /\ Close \notin Letters
BY BaseAssumption DEF Decimal, Digit, Letters, Colon, Dot, Other, Open, Close

\* The automaton at an error refuses, and what it refuses is zero.
LEMMA ErrorIsError ==
  ASSUME NEW q \in Parsers
  PROVE  /\ Error(q) \in Parsers /\ Error(q).state = "error" /\ Error(q).pending = FALSE
         /\ q.state = "error" => AtEnd(q).state = "error"
<1>1. Error(q) \in Parsers /\ Error(q).state = "error" /\ Error(q).pending = FALSE
  BY DEF Error, Parsers
<1>2. ASSUME q.state = "error" PROVE AtEnd(q).state = "error"
  BY <1>1, <1>2 DEF AtEnd, SingleColon
<1> QED BY <1>1, <1>2

LEMMA RefusedIsZero ==
  ASSUME NEW q \in Parsers
  PROVE  /\ Finish(q).success \in BOOLEAN
         /\ ~ Finish(q).success => Finish(q).ip = ZeroIP
         /\ q.state = "error" => ~ Finish(q).success
<1>1. CASE Refused(AtEnd(q))
  BY <1>1 DEF Finish
<1>2. CASE ~ Refused(AtEnd(q))
  <2>1. Finish(q).success = TRUE
    BY <1>2 DEF Finish
  <2>2. q.state # "error"
    BY <1>2, ErrorIsError DEF Refused
  <2> QED BY <2>1, <2>2
<1> QED BY <1>1, <1>2

\* A foreign character stops the automaton.
LEMMA OtherIsError == ASSUME NEW q \in Checked PROVE Read(q, Other).state = "error"
<1>1. ASSUME NEW r \in Parsers PROVE Settled(r, Other).state = "error"
  BY <1>1, Marks, ErrorIsError DEF Settled, ReadDigit
<1>2. q \in Parsers /\ SingleColon(q) \in Parsers
  BY SingleColonType DEF Checked, InBounds
<1> QED BY <1>1, <1>2, Marks DEF Read

\* Nothing is read from no text.
LEMMA EmptyIsRefused == from_str(<<>>) = [ip |-> ZeroIP, success |-> FALSE]
<1>1. from_str(<<>>) = Finish(NewParser)
  BY ParsedSteps DEF from_str, Parsed
<1>2. AtEnd(NewParser) = NewParser /\ Refused(NewParser)
  BY DEF AtEnd, NewParser, Refused
<1> QED BY <1>1, <1>2 DEF Finish

\* The port read from digits d and what follows them, e, behind an address s
\* and a mark; or no port, for one of four reasons.
PortScan(q, s, mark, state, d, e) ==
  \/ /\ mark = Colon /\ Len(s) >= 2 /\ q.ip = s /\ q.accum = Value(d, DecBase) % Wide
     /\ IF e = <<>> THEN q.state = "portt" ELSE q.state = "end" /\ q.accum # 0
  \/ /\ q.state = "error"
     /\ \/ mark # Colon \/ Len(s) < 2 \/ state = "error"
        \/ e # <<>> /\ Value(d, DecBase) % Wide = 0

\* The next character goes on with the port, or ends it.
LEMMA PortOn ==
  ASSUME NEW d \in Seq(Decimal), NEW e \in Seq(Int), NEW c \in Int, NEW q \in Scans,
         NEW s, NEW mark, NEW state, PortScan(q, s, mark, state, d, e)
  PROVE  /\ e = <<>> /\ c \in Decimal => PortScan(AddrRead(q, c), s, mark, state, Append(d, c), <<>>)
         /\ ~ (e = <<>> /\ c \in Decimal) => PortScan(AddrRead(q, c), s, mark, state, d, Append(e, c))
<1>1. Append(e, c) # <<>>
  BY MoreText
<1>2. CASE q.state = "error"
  <2>1. AddrRead(q, c) = q
    BY <1>2 DEF AddrRead
  <2> QED BY <1>1, <1>2, <2>1 DEF PortScan
<1>3. CASE q.state # "error"
  <2>1. /\ mark = Colon /\ Len(s) >= 2 /\ q.ip = s /\ q.accum = Value(d, DecBase) % Wide
        /\ IF e = <<>> THEN q.state = "portt" ELSE q.state = "end" /\ q.accum # 0
    BY <1>3 DEF PortScan
  <2>2. ASSUME e = <<>>, c \in Decimal
        PROVE  PortScan(AddrRead(q, c), s, mark, state, Append(d, c), <<>>)
    <3>1. d \in Seq(Nat) /\ c \in Nat
      <4>1. Decimal \subseteq Nat
        BY Marks
      <4> QED BY <2>2, <4>1, SeqOver
    <3>2. Value(d, DecBase) \in Nat /\ Value(Append(d, c), DecBase) = Value(d, DecBase) * DecBase + c
      BY <3>1, ValueSteps, BaseAssumption
    <3>3. ((Value(d, DecBase) % Wide) * DecBase + c) % Wide = (Value(d, DecBase) * DecBase + c) % Wide
      BY <3>1, <3>2, WideStep, BaseAssumption, Zenon
    <3>4. (q.accum * DecBase + c) % Wide = Value(Append(d, c), DecBase) % Wide
      BY <2>1, <3>2, <3>3
    <3>5. AddrRead(q, c) = [q EXCEPT !.accum = (q.accum * DecBase + c) % Wide]
      BY <2>1, <2>2 DEF AddrRead, Decimal
    <3>6. /\ AddrRead(q, c).ip = q.ip /\ AddrRead(q, c).state = q.state
          /\ AddrRead(q, c).accum = (q.accum * DecBase + c) % Wide
      BY <3>5 DEF Scans
    <3> QED BY <2>1, <2>2, <3>4, <3>6 DEF PortScan
  <2>3. ASSUME e # <<>> PROVE PortScan(AddrRead(q, c), s, mark, state, d, Append(e, c))
    <3>1. AddrRead(q, c) = q
      BY <2>1, <2>3 DEF AddrRead
    <3> QED BY <1>1, <2>1, <2>3, <3>1 DEF PortScan
  <2>4. ASSUME e = <<>>, c \notin Decimal PROVE PortScan(AddrRead(q, c), s, mark, state, d, Append(e, c))
    <3>1. AddrRead(q, c) = [q EXCEPT !.state = IF q.accum # 0 THEN "end" ELSE "error"]
      BY <2>1, <2>4 DEF AddrRead, Decimal
    <3>2. /\ AddrRead(q, c).ip = q.ip /\ AddrRead(q, c).accum = q.accum
          /\ AddrRead(q, c).state = IF q.accum # 0 THEN "end" ELSE "error"
      BY <3>1 DEF Scans
    <3> QED BY <1>1, <2>1, <3>2 DEF PortScan
  <2> QED BY <2>2, <2>3, <2>4
<1> QED BY <1>2, <1>3

\* The address between the brackets, and behind the closing one.
Inside(q, s, state) ==
  q = [state |-> "ipp", ip |-> s, accum |-> 0] \/ (q.state = "error" /\ state = "error")
Closed(q, s, state) ==
  \/ q.state = "close" /\ Len(s) >= 2 /\ q.ip = s /\ q.accum = 0
  \/ q.state = "error" /\ (Len(s) < 2 \/ state = "error")

\* What addr6_t::from_str has found, by the characters behind the text.
Found(q, s, t, state) ==
  /\ t = <<>> => Inside(q, s, state)
  /\ Len(t) = 1 => Closed(q, s, state)
  /\ Len(t) > 1 => \E d, e, u : /\ u \in Seq(Int) /\ EndsWith(t, 2, u) /\ Leads(d, e, u, Decimal)
                                /\ PortScan(q, s, t[2], state, d, e)

\* The automaton has read the text, and addr6_t::from_str all of it.
TailInv == p = Parsed(text) /\ Found(ScanOf(Whole), text, tail, p.state)

\* One more character of the address.
LEMMA InsideOn ==
  ASSUME NEW s \in Seq(Int), NEW c \in Letters, NEW r \in Checked, r.state # "error",
         NEW q, Inside(q, s, r.state)
  PROVE  Inside(AddrRead(q, c), Append(s, c), Read(r, c).state)
<1>1. q = [state |-> "ipp", ip |-> s, accum |-> 0]
  BY DEF Inside
<1>2. c # Close /\ (c = Other <=> c \notin Digit \cup {Colon, Dot})
  BY Marks DEF Letters
<1>3. CASE c = Other
  <2>1. Read(r, c).state = "error"
    BY <1>3, OtherIsError
  <2>2. AddrRead(q, c) = [q EXCEPT !.state = "error"]
    BY <1>1, <1>2, <1>3 DEF AddrRead
  <2>3. AddrRead(q, c).state = "error"
    BY <1>1, <2>2
  <2> QED BY <2>1, <2>3 DEF Inside
<1>4. CASE c # Other
  <2>1. AddrRead(q, c) = [q EXCEPT !.ip = Append(q.ip, c)]
    BY <1>1, <1>2, <1>4 DEF AddrRead
  <2>2. AddrRead(q, c) = [state |-> "ipp", ip |-> Append(s, c), accum |-> 0]
    BY <1>1, <2>1
  <2> QED BY <2>2 DEF Inside
<1> QED BY <1>3, <1>4

\* The closing bracket.
LEMMA ClosedOn ==
  ASSUME NEW s \in Seq(Int), NEW q, NEW state, Inside(q, s, state)
  PROVE  Closed(AddrRead(q, Close), s, state)
<1>1. CASE q.state = "error"
  BY <1>1 DEF AddrRead, Closed, Inside
<1>2. CASE q.state # "error"
  <2>1. q = [state |-> "ipp", ip |-> s, accum |-> 0]
    BY <1>2 DEF Inside
  <2>2. AddrRead(q, Close) = [state |-> IF Len(s) >= 2 THEN "close" ELSE "error", ip |-> s, accum |-> 0]
    BY <2>1 DEF AddrRead
  <2>3. Len(s) \in Nat
    OBVIOUS
  <2> QED BY <2>2, <2>3 DEF Closed
<1> QED BY <1>1, <1>2

\* The mark behind it.
LEMMA MarkOn ==
  ASSUME NEW s \in Seq(Int), NEW q \in Scans, NEW state, Closed(q, s, state), NEW c \in Int
  PROVE  PortScan(AddrRead(q, c), s, c, state, <<>>, <<>>)
<1>1. CASE q.state = "error"
  BY <1>1 DEF AddrRead, Closed, PortScan
<1>2. CASE q.state # "error"
  <2>1. q.state = "close" /\ Len(s) >= 2 /\ q.ip = s /\ q.accum = 0
    BY <1>2 DEF Closed
  <2>2. AddrRead(q, c) = [q EXCEPT !.state = IF c = Colon THEN "portt" ELSE "error"]
    BY <2>1 DEF AddrRead
  <2>3. /\ AddrRead(q, c).state = IF c = Colon THEN "portt" ELSE "error"
        /\ AddrRead(q, c).ip = s /\ AddrRead(q, c).accum = 0
    BY <2>1, <2>2 DEF Scans
  <2>4. Value(<<>>, DecBase) = 0 /\ 0 % Wide = 0
    BY ValueSteps, BaseAssumption, WidePositive
  <2> QED BY <2>1, <2>3, <2>4 DEF PortScan
<1> QED BY <1>1, <1>2

\* The texts as a whole grow by one character in every step.
LEMMA WholeSteps ==
  ASSUME TypeOK
  PROVE  /\ Whole \in Seq(Int)
         /\ \A c \in Int : ReadAddress(c) => Whole' = Append(Whole, c)
         /\ \A c \in Int : ReadTail(c) => Whole' = Append(Whole, c)
<1>1. text \in Seq(Int) /\ tail \in Seq(Int) /\ <<Open>> \in Seq(Int)
  BY Marks DEF TypeOK
<1>2. <<Open>> \o text \in Seq(Int)
  BY <1>1, MoreBehind
<1>3. Whole \in Seq(Int) /\ \A c \in Int : Append(Whole, c) = <<Open>> \o text \o Append(tail, c)
  <2>1. PICK w \in Seq(Int) : w = <<Open>> \o text
    BY <1>2
  <2>2. w \o tail \in Seq(Int) /\ \A c \in Int : Append(w \o tail, c) = w \o Append(tail, c)
    <3>1. w \o tail \in Seq(Int)
      BY <1>1
    <3>2. ASSUME NEW c \in Int PROVE Append(w \o tail, c) = w \o Append(tail, c)
      BY <1>1, MoreBehind
    <3> QED BY <3>1, <3>2
  <2> QED BY <2>1, <2>2 DEF Whole
<1>4. ASSUME NEW c \in Int, ReadAddress(c) PROVE Whole' = Append(Whole, c)
  <2>1. tail = <<>> /\ tail' = <<>> /\ text' = Append(text, c)
    BY <1>4 DEF ReadAddress
  <2>2. \A s \in Seq(Int) : s \o <<>> = s
    OBVIOUS
  <2>3. Whole = <<Open>> \o text
    BY <1>2, <2>1, <2>2 DEF Whole
  <2>4. Append(<<Open>> \o text, c) = <<Open>> \o Append(text, c)
    BY <1>1, MoreBehind
  <2>5. <<Open>> \o Append(text, c) \in Seq(Int)
    BY <1>1, MoreText, MoreBehind
  <2>6. Whole' = <<Open>> \o Append(text, c)
    BY <2>1, <2>2, <2>5 DEF Whole
  <2> QED BY <2>3, <2>4, <2>6
<1>5. ASSUME NEW c \in Int, ReadTail(c) PROVE Whole' = Append(Whole, c)
  BY <1>3, <1>5 DEF ReadTail, Whole
<1> QED BY <1>3, <1>4, <1>5

\* What stands behind a mark, with one more character.
LEMMA EndsOn ==
  ASSUME NEW t \in Seq(Int), NEW u \in Seq(Int), NEW m \in Nat, EndsWith(t, m, u), NEW c \in Int
  PROVE  EndsWith(Append(t, c), m, Append(u, c))
<1>1. Len(t) = m + Len(u) /\ \A k \in 1 .. Len(u) : t[m + k] = u[k]
  BY DEF EndsWith
<1>2. /\ Len(Append(t, c)) = Len(t) + 1 /\ Len(Append(u, c)) = Len(u) + 1
      /\ Len(t) \in Nat /\ Len(u) \in Nat
      /\ Append(t, c)[Len(t) + 1] = c /\ Append(u, c)[Len(u) + 1] = c
      /\ \A k \in 1 .. Len(t) : Append(t, c)[k] = t[k]
      /\ \A k \in 1 .. Len(u) : Append(u, c)[k] = u[k]
  BY MoreText
<1>3. ASSUME NEW k \in 1 .. Len(u) + 1 PROVE Append(t, c)[m + k] = Append(u, c)[k]
  <2>1. CASE k = Len(u) + 1
    <3>1. m + k = Len(t) + 1
      BY <1>1, <1>2, <2>1
    <3> QED BY <1>2, <2>1, <3>1
  <2>2. CASE k # Len(u) + 1
    <3>a. Len(t) = m + Len(u) /\ Len(u) \in Nat
      BY <1>1, <1>2
    <3>1. k \in 1 .. Len(u) /\ m + k \in 1 .. Len(t)
      BY <2>2, <3>a
    <3> QED BY <1>1, <1>2, <3>1
  <2> QED BY <2>1, <2>2
<1>4. Len(Append(t, c)) = m + Len(Append(u, c))
  BY <1>1, <1>2
<1> QED BY <1>2, <1>3, <1>4 DEF EndsWith

\* One more character behind the address.
LEMMA FoundOn ==
  ASSUME NEW s \in Seq(Int), NEW t \in Seq(Int), NEW c \in Int, (t = <<>>) <=> (c = Close),
         NEW q \in Scans, NEW state, Found(q, s, t, state)
  PROVE  Found(AddrRead(q, c), s, Append(t, c), state)
<1> DEFINE v == Append(t, c)
           r == AddrRead(q, c)
<1>1. /\ v # <<>> /\ Len(t) \in Nat /\ Len(v) = Len(t) + 1 /\ v[Len(t) + 1] = c /\ v \in Seq(Int)
      /\ \A k \in 1 .. Len(t) : v[k] = t[k]
  BY MoreText
<1> HIDE DEF v, r
<1>2. CASE t = <<>>
  <2>1. Len(v) = 1
    BY <1>1, <1>2
  <2>2. Closed(r, s, state)
    BY <1>2, ClosedOn DEF Found, r
  <2> QED BY <1>1, <2>1, <2>2 DEF Found, v, r
<1>3. ASSUME Len(v) > 1,
             NEW d, NEW e, NEW u \in Seq(Int), EndsWith(v, 2, u), Leads(d, e, u, Decimal),
             PortScan(r, s, v[2], state, d, e)
      PROVE  Found(r, s, v, state)
  BY <1>1, <1>3 DEF Found
<1>4. CASE Len(t) = 1
  <2>1. Len(v) = 2 /\ v[2] = c
    BY <1>1, <1>4
  <2>2. PortScan(r, s, v[2], state, <<>>, <<>>)
    BY <1>4, <2>1, MarkOn DEF Found, r
  <2>3. EndsWith(v, 2, <<>>)
    BY <2>1 DEF EndsWith
  <2>4. <<>> \in Seq(Int) /\ Leads(<<>>, <<>>, <<>>, Decimal)
    BY DEF Leads
  <2>5. Found(r, s, v, state)
    <3>1. Len(v) > 1
      BY <2>1
    <3> QED BY <1>3, <2>2, <2>3, <2>4, <3>1
  <2> QED BY <2>5 DEF v, r
<1>5. CASE Len(t) > 1
  <2>1. PICK d, e, u : /\ u \in Seq(Int) /\ EndsWith(t, 2, u) /\ Leads(d, e, u, Decimal)
                       /\ PortScan(q, s, t[2], state, d, e)
    BY <1>5 DEF Found
  <2>2. v[2] = t[2] /\ Len(v) > 1
    BY <1>1, <1>5
  <2>3. EndsWith(v, 2, Append(u, c)) /\ Append(u, c) \in Seq(Int)
    BY <2>1, EndsOn, MoreText DEF v
  <2>4. d \in Seq(Decimal) /\ e \in Seq(Int) /\ Decimal \in SUBSET Int
    BY <2>1, Marks DEF Leads
  <2>5. CASE e = <<>> /\ c \in Decimal
    <3>1. Leads(Append(d, c), <<>>, Append(u, c), Decimal)
      BY <2>1, <2>4, <2>5, LeadsOn, Zenon
    <3>2. PortScan(r, s, v[2], state, Append(d, c), <<>>)
      BY <2>1, <2>2, <2>4, <2>5, PortOn DEF r
    <3>3. Found(r, s, v, state)
      BY <1>3, <2>2, <2>3, <3>1, <3>2
    <3> QED BY <3>3 DEF v, r
  <2>6. CASE ~ (e = <<>> /\ c \in Decimal)
    <3>1. Leads(d, Append(e, c), Append(u, c), Decimal)
      BY <2>1, <2>4, <2>6, LeadsOn, Zenon
    <3>2. PortScan(r, s, v[2], state, d, Append(e, c))
      BY <2>1, <2>2, <2>4, <2>6, PortOn DEF r
    <3>3. Found(r, s, v, state)
      BY <1>3, <2>2, <2>3, <3>1, <3>2
    <3> QED BY <3>3 DEF v, r
  <2> QED BY <2>5, <2>6
<1>6. t = <<>> \/ Len(t) = 1 \/ Len(t) > 1
  <2>1. Len(t) = 0 => t = <<>>
    OBVIOUS
  <2>2. ASSUME NEW n \in Nat PROVE n = 0 \/ n = 1 \/ n > 1
    OBVIOUS
  <2>3. Len(t) \in Nat
    BY <1>1
  <2> QED BY <2>1, <2>2, <2>3, Zenon
<1> QED BY <1>2, <1>4, <1>5, <1>6

LEMMA TailInvariance == Spec => [](TypeOK /\ TailInv)
<1>1. Init => TailInv
  <2> SUFFICES ASSUME Init PROVE TailInv
    OBVIOUS
  <2>1. text = <<>> /\ tail = <<>> /\ p = NewParser
    BY DEF Init
  <2>2. Whole = Append(<<>>, Open) /\ Len(<<>>) = 0
    BY <2>1, Marks DEF Whole
  <2>3. ScanOf(Whole) = AddrRead(NewAddrParser, Open)
    <3>1. <<>> \in Seq(Int)
      OBVIOUS
    <3> QED BY <2>2, <3>1, ScanSteps, Marks
  <2>4. AddrRead(NewAddrParser, Open) = [state |-> "ipp", ip |-> <<>>, accum |-> 0]
    BY DEF AddrRead, NewAddrParser
  <2>5. p = Parsed(text)
    BY <2>1, ParsedSteps
  <2>6. Inside(ScanOf(Whole), text, p.state)
    BY <2>1, <2>3, <2>4 DEF Inside
  <2>7. Found(ScanOf(Whole), text, tail, p.state)
    BY <2>1, <2>2, <2>6 DEF Found
  <2> QED BY <2>5, <2>7 DEF TailInv
<1>2. TypeOK /\ TailInv /\ [Next]_vars => TailInv'
  <2> SUFFICES ASSUME TypeOK, TailInv, [Next]_vars PROVE TailInv'
    OBVIOUS
  <2>1. text \in Seq(Int) /\ tail \in Seq(Int) /\ p \in Checked /\ p = Parsed(text)
    BY DEF TypeOK, TailInv, Checked, InBounds
  <2>2. Whole \in Seq(Int) /\ ScanOf(Whole) \in Scans
    BY WholeSteps, ScanSteps
  <2>3. Found(ScanOf(Whole), text, tail, p.state)
    BY DEF TailInv
  <2>4. ASSUME NEW c \in Letters, ReadAddress(c) PROVE TailInv'
    <3>1. c \in Int
      BY Marks
    <3>2. text' = Append(text, c) /\ tail = <<>> /\ tail' = <<>> /\ p' = Read(p, c) /\ p.state # "error"
      BY <2>4 DEF ReadAddress
    <3>3. ScanOf(Whole)' = AddrRead(ScanOf(Whole), c)
      <4>1. Whole' = Append(Whole, c)
        BY <2>4, <3>1, WholeSteps
      <4>2. ScanOf(Append(Whole, c)) = AddrRead(ScanOf(Whole), c)
        BY <2>2, <3>1, ScanSteps
      <4> QED BY <4>1, <4>2
    <3>4. p' = Parsed(text')
      BY <2>1, <3>1, <3>2, ParsedSteps
    <3>5. Inside(ScanOf(Whole), text, p.state)
      BY <2>3, <3>2 DEF Found
    <3>6. Inside(AddrRead(ScanOf(Whole), c), Append(text, c), Read(p, c).state)
      BY <2>1, <2>2, <3>2, <3>5, InsideOn
    <3>7. Len(<<>>) = 0
      OBVIOUS
    <3>8. Found(ScanOf(Whole)', text', tail', p'.state)
      BY <3>2, <3>3, <3>6, <3>7 DEF Found
    <3> QED BY <3>4, <3>8 DEF TailInv
  <2>5. ASSUME NEW c \in {0, 1, Close, Colon, Other}, ReadTail(c) PROVE TailInv'
    <3>1. c \in Int
      BY Marks
    <3>2. text' = text /\ tail' = Append(tail, c) /\ p' = p /\ ((tail = <<>>) <=> (c = Close))
      BY <2>5 DEF ReadTail
    <3>3. ScanOf(Whole)' = AddrRead(ScanOf(Whole), c)
      <4>1. Whole' = Append(Whole, c)
        BY <2>5, <3>1, WholeSteps
      <4>2. ScanOf(Append(Whole, c)) = AddrRead(ScanOf(Whole), c)
        BY <2>2, <3>1, ScanSteps
      <4> QED BY <4>1, <4>2
    <3>4. Found(AddrRead(ScanOf(Whole), c), text, Append(tail, c), p.state)
      BY <2>1, <2>2, <2>3, <3>1, <3>2, FoundOn
    <3> QED BY <2>1, <3>2, <3>3, <3>4 DEF TailInv
  <2>6. CASE UNCHANGED <<text, tail, p>>
    BY <2>6 DEF TailInv, Whole
  <2>7. \A a : Construct(a) => UNCHANGED <<text, tail, p>>
    BY DEF Construct
  <2> QED BY <2>4, <2>5, <2>6, <2>7 DEF Next, vars, Letters
<1> QED BY <1>1, <1>2, Ip6TypeCorrect, PTL DEF Spec

\* No digits begin behind the end of a text.
LEMMA NoDigits ==
  ASSUME NEW t \in Seq(Int), Len(t) < 2, NEW base
  PROVE  DigitsFrom(t, 3, base) = <<>>
<1>1. Len(t) \in Nat /\ 3 .. Len(t) = {}
  OBVIOUS
<1>2. SelectInSubSeq(t, 3, Len(t), LAMBDA c : c \notin 0 .. base - 1) = 0
  BY <1>1 DEF SelectInSubSeq
<1>3. SubSeq(t, 3, Len(t)) = <<>>
  BY <1>1
<1> QED BY <1>2, <1>3 DEF DigitsFrom

\* addr6_t::from_str: an address in brackets, alone or with a port, is accepted
\* exactly when both parts are, and a refused one tests false, for every text
\* whose port fits a size_t and whose address is not of undefined behaviour.
THEOREM Ip6AddrHolds == Spec => []AddrIsAddressAndPort
<1>1. TypeOK /\ TailInv => AddrIsAddressAndPort
  <2> SUFFICES ASSUME TypeOK, TailInv PROVE AddrIsAddressAndPort
    OBVIOUS
  <2> DEFINE q == ScanOf(Whole)
             f == Finish(p)
             r == addr_from_str(Whole)
             z == from_str(AddrText(q))
             digits == DigitsFrom(tail, 3, DecBase)
             port == Value(digits, DecBase)
             good == /\ tail # <<>> /\ Len(text) >= 2 /\ f.success
                     /\ Len(tail) > 1 => tail[2] = Colon
                     /\ Len(tail) > 2 + Len(digits) => port # 0
                     /\ port <= PortMax
             Claim == /\ r.success <=> good
                      /\ good => r.addr = [ip |-> f.ip, port |-> port]
                      /\ ~ good => ~ AddrIsSet(r.addr)
  <2>1. text \in Seq(Int) /\ tail \in Seq(Int) /\ p \in Parsers /\ Len(text) \in Nat /\ Len(tail) \in Nat
    BY DEF TypeOK
  <2>2. from_str(text) = f
    BY DEF TailInv, from_str, Parsed
  <2>3. r = IF q.state = "error" \/ q.accum > PortMax THEN [addr |-> EmptyAddr, success |-> FALSE]
            ELSE [addr |-> [ip |-> z.ip, port |-> q.accum], success |-> z.success]
    BY DEF addr_from_str, ScanOf
  <2>4. ~ AddrIsSet(EmptyAddr)
    BY DEF AddrIsSet, EmptyAddr
  <2>5. f.success \in BOOLEAN /\ (~ f.success => f.ip = ZeroIP) /\ (p.state = "error" => ~ f.success)
    BY <2>1, RefusedIsZero
  <2>6. Found(q, text, tail, p.state)
    BY DEF TailInv
  <2>7. SUFFICES ASSUME port < Wide PROVE Claim
    BY Zenon DEF AddrIsAddressAndPort, Whole
  <2>a. z = IF q.state \in {"open", "ipp"} THEN from_str(<<>>) ELSE from_str(q.ip)
    BY DEF AddrText
  <2> HIDE DEF q, f, r, z
  <2>8. ASSUME q.state = "error" \/ q.accum > PortMax, ~ good PROVE Claim
    <3>1. r = [addr |-> EmptyAddr, success |-> FALSE]
      BY <2>3, <2>8
    <3> HIDE DEF good
    <3> QED BY <2>4, <2>8, <3>1
  <2>9. ASSUME q.state \in {"close", "portt", "end"}, q.ip = text, q.accum = port, port \in Nat,
               good <=> (f.success /\ port <= PortMax)
        PROVE  Claim
    <3>1. CASE port > PortMax
      <4>1. ~ good
        BY <2>9, <3>1, BoundAssumption
      <4> HIDE DEF good
      <4> QED BY <2>8, <2>9, <3>1, <4>1
    <3>2. CASE ~ (port > PortMax)
      <4>1. r = [addr |-> [ip |-> f.ip, port |-> port], success |-> f.success]
        BY <2>2, <2>3, <2>9, <2>a, <3>2
      <4>2. good <=> f.success
        BY <2>9, <3>2, BoundAssumption
      <4> HIDE DEF good, port
      <4>3. ~ good => ~ AddrIsSet(r.addr)
        BY <2>5, <4>1, <4>2 DEF AddrIsSet
      <4> QED BY <2>5, <4>1, <4>2, <4>3
    <3> QED BY <3>1, <3>2
  <2>10. ASSUME Len(tail) < 2 PROVE digits = <<>> /\ port = 0 /\ port <= PortMax /\ ~ (Len(tail) > 2 + Len(digits))
    <3>1. digits = <<>>
      BY <2>1, <2>10, NoDigits
    <3>2. Value(<<>>, DecBase) = 0 /\ Len(<<>>) = 0
      BY ValueSteps, BaseAssumption
    <3>3. Len(digits) = 0 /\ port = 0
      BY <3>1, <3>2
    <3> HIDE DEF digits, port
    <3> QED BY <2>1, <2>10, <3>1, <3>3, BoundAssumption
  <2>11. CASE tail = <<>>
    <3>1. ~ good
      BY <2>11
    <3>2. Inside(q, text, p.state)
      BY <2>6, <2>11 DEF Found
    <3>3. CASE q.state = "error"
      <4> HIDE DEF good
      <4> QED BY <2>8, <3>1, <3>3
    <3>4. CASE q.state # "error"
      <4>1. q.state = "ipp" /\ q.accum = 0
        BY <3>2, <3>4 DEF Inside
      <4>2. z = [ip |-> ZeroIP, success |-> FALSE]
        BY <2>a, <4>1, EmptyIsRefused
      <4>3. r = [addr |-> [ip |-> ZeroIP, port |-> 0], success |-> FALSE]
        BY <2>3, <4>1, <4>2, BoundAssumption
      <4>4. ~ AddrIsSet(r.addr)
        BY <4>3 DEF AddrIsSet
      <4> HIDE DEF good
      <4> QED BY <3>1, <4>3, <4>4
    <3> QED BY <3>3, <3>4
  <2>12. CASE Len(tail) = 1
    <3>1. Closed(q, text, p.state) /\ tail # <<>>
      BY <2>6, <2>12 DEF Found
    <3>2. port = 0 /\ port <= PortMax /\ ~ (Len(tail) > 2 + Len(digits)) /\ ~ (Len(tail) > 1)
      BY <2>10, <2>12
    <3> HIDE DEF digits, port
    <3>3. good <=> (Len(text) >= 2 /\ f.success)
      BY <3>1, <3>2
    <3>4. CASE q.state = "error"
      <4>1. ~ good
        BY <2>1, <2>5, <3>1, <3>3, <3>4 DEF Closed
      <4> HIDE DEF good
      <4> QED BY <2>8, <3>4, <4>1
    <3>5. CASE q.state # "error"
      <4>1. q.state = "close" /\ q.ip = text /\ q.accum = 0 /\ Len(text) >= 2
        BY <3>1, <3>5 DEF Closed
      <4>2. port \in Nat /\ q.accum = port /\ q.state \in {"close", "portt", "end"}
        BY <3>2, <4>1
      <4>3. good <=> (f.success /\ port <= PortMax)
        BY <3>2, <3>3, <4>1
      <4> HIDE DEF good, Claim
      <4> QED BY <2>9, <4>1, <4>2, <4>3
    <3> QED BY <3>4, <3>5
  <2>13. CASE Len(tail) > 1
    <3>1. PICK d, e, u : /\ u \in Seq(Int) /\ EndsWith(tail, 2, u) /\ Leads(d, e, u, Decimal)
                         /\ PortScan(q, text, tail[2], p.state, d, e)
      BY <2>6, <2>13 DEF Found
    <3>2. digits = d
      <4>1. DigitsFrom(tail, 2 + 1, DecBase) = d
        BY <2>1, <3>1, DigitsFromLeads, BaseAssumption DEF Decimal
      <4> QED BY <4>1
    <3>3. port \in Nat /\ port = Value(d, DecBase) /\ Value(d, DecBase) % Wide = port
      <4>1. d \in Seq(Nat)
        <5>1. Decimal \subseteq Nat /\ d \in Seq(Decimal)
          BY <3>1, Marks DEF Leads
        <5> QED BY <5>1, SeqOver
      <4>2. port \in Nat /\ port = Value(d, DecBase)
        BY <3>2, <4>1, ValueSteps, BaseAssumption
      <4> HIDE DEF port
      <4> QED BY <2>7, <4>2, WidePositive, RemainderBelow
    <3>4. (Len(tail) > 2 + Len(digits)) <=> e # <<>>
      <4>1. Len(tail) = 2 + Len(u) /\ u = d \o e /\ e \in Seq(Int) /\ d \in Seq(Int)
        <5>1. Decimal \subseteq Int /\ d \in Seq(Decimal)
          BY <3>1, Marks DEF Leads
        <5> QED BY <3>1, <5>1, SeqOver DEF Leads, EndsWith
      <4>2. Len(u) = Len(d) + Len(e) /\ Len(d) \in Nat /\ Len(e) \in Nat
        BY <4>1, ConcatAt
      <4>3. e # <<>> <=> Len(e) > 0
        BY <4>1
      <4>4. Len(digits) = Len(d)
        BY <3>2
      <4> HIDE DEF digits
      <4> QED BY <4>1, <4>2, <4>3, <4>4
    <3>5. tail # <<>>
      BY <2>13
    <3> HIDE DEF digits, port
    <3>6. good <=> /\ Len(text) >= 2 /\ f.success /\ tail[2] = Colon
                   /\ (e # <<>> => port # 0) /\ port <= PortMax
      BY <2>13, <3>4, <3>5
    <3>7. CASE q.state = "error"
      <4>1. ~ good
        BY <2>1, <2>5, <3>1, <3>3, <3>6, <3>7 DEF PortScan
      <4> HIDE DEF good
      <4> QED BY <2>8, <3>7, <4>1
    <3>8. CASE q.state # "error"
      <4>1. /\ tail[2] = Colon /\ Len(text) >= 2 /\ q.ip = text /\ q.accum = port
            /\ q.state \in {"close", "portt", "end"} /\ (e # <<>> => port # 0)
        BY <3>1, <3>3, <3>8 DEF PortScan
      <4>2. good <=> (f.success /\ port <= PortMax)
        BY <3>6, <4>1
      <4> HIDE DEF good, Claim
      <4> QED BY <2>9, <3>3, <4>1, <4>2
    <3> QED BY <3>7, <3>8
  <2>14. tail = <<>> \/ Len(tail) = 1 \/ Len(tail) > 1
    <3>1. Len(tail) = 0 => tail = <<>>
      BY <2>1
    <3>2. ASSUME NEW n \in Nat PROVE n = 0 \/ n = 1 \/ n > 1
      OBVIOUS
    <3> QED BY <2>1, <3>1, <3>2, Zenon
  <2> QED BY <2>11, <2>12, <2>13, <2>14
<1> QED BY <1>1, TailInvariance, PTL

-----------------------------------------------------------------------------
(* ip6_t::to_str, group by group *)

Printers == [text : Seq(Int), zero : {"off", "start", "found", "end"}, done : BOOLEAN]

\* One round of the loop, with its break.
PrintStep(a, embedded, r, i) == IF r.done THEN r ELSE PrintGroup(a, embedded, r, i)

\* The states of the loop that prints a, by the number of groups.
IsPrinting(r, a, reduction, embedded) ==
  /\ r \in [0 .. Groups -> Printers] /\ r[0] = NewPrinter(reduction)
  /\ \A k \in 1 .. Groups : r[k] = PrintStep(a, embedded, r[k - 1], k)

\* The digits of a group and of a byte.
LEMMA GroupText ==
  ASSUME NEW n \in Group
  PROVE  /\ DigitsOf(n, HexBase) \in Seq(Digit) \ {<<>>} /\ DigitsOf(n, HexBase) \in Seq(Int)
         /\ Value(DigitsOf(n, HexBase), HexBase) % Word = n
<1>1. n \in Nat /\ n < Word
  <2>1. PICK w \in Nat \ {0} : w = Octet * Octet
    BY WordPositive
  <2>2. w <= w * w
    BY <2>1
  <2>3. Word = w * w
    BY <2>1, WidthAssumption DEF Word
  <2>4. n \in 0 .. w - 1
    BY <2>1 DEF Group
  <2> QED BY <2>1, <2>2, <2>3, <2>4
<1>2. HexBase \in Nat /\ HexBase > 1
  BY BaseAssumption
<1>3. DigitsOf(n, HexBase) \in Seq(Digit) \ {<<>>}
  BY <1>1, <1>2, DigitsOfEquation DEF Digit
<1>4. Value(DigitsOf(n, HexBase), HexBase) = n
  BY <1>1, <1>2, DigitsValue
<1>5. n % Word = n
  BY <1>1, WordPositive, RemainderBelow
<1>6. DigitsOf(n, HexBase) \in Seq(Int)
  <2>1. Digit \subseteq Int
    BY Marks
  <2> QED BY <1>3, <2>1, SeqOver
<1> QED BY <1>3, <1>4, <1>5, <1>6

LEMMA ByteText ==
  ASSUME NEW n \in Byte
  PROVE  /\ DigitsOf(n, DecBase) \in Seq(Digit) \ {<<>>} /\ DigitsOf(n, DecBase) \in Seq(Int)
         /\ Value(DigitsOf(n, DecBase), DecBase) % Word = n
<1>1. n \in Nat /\ n < Word
  <2>1. PICK w \in Nat \ {0} : w = Octet * Octet * Octet
    BY WidthAssumption, WordPositive
  <2>2. Octet <= Octet * w
    BY <2>1, WidthAssumption
  <2>3. Word = Octet * w
    BY <2>1, WidthAssumption DEF Word
  <2> QED BY <2>2, <2>3, WidthAssumption DEF Byte
<1>2. DecBase \in Nat /\ DecBase > 1
  BY BaseAssumption
<1>3. DigitsOf(n, DecBase) \in Seq(Decimal) \ {<<>>}
  BY <1>1, <1>2, DigitsOfEquation DEF Decimal
<1>4. Value(DigitsOf(n, DecBase), DecBase) = n
  BY <1>1, <1>2, DigitsValue
<1>5. n % Word = n
  BY <1>1, WordPositive, RemainderBelow
<1>6. DigitsOf(n, DecBase) \in Seq(Int) /\ DigitsOf(n, DecBase) \in Seq(Digit)
  <2>1. Decimal \subseteq Int /\ Decimal \subseteq Digit
    BY Marks
  <2> QED BY <1>3, <2>1, SeqOver
<1> QED BY <1>3, <1>4, <1>5, <1>6

\* The octets of the last two groups.
LEMMA OctetsOf ==
  ASSUME NEW a \in IPs
  PROVE  /\ get_ip4(a) = <<get_ip4(a)[1], get_ip4(a)[2], get_ip4(a)[3], get_ip4(a)[4]>>
         /\ \A i \in 1 .. 4 : get_ip4(a)[i] \in Byte
         /\ Pair(get_ip4(a)[1], get_ip4(a)[2]) = a[Groups - 1]
         /\ Pair(get_ip4(a)[3], get_ip4(a)[4]) = a[Groups]
<1>1. ASSUME NEW n \in Group
      PROVE  n \div Octet \in Byte /\ n % Octet \in Byte /\ Pair(n \div Octet, n % Octet) = n
  <2> DEFINE x == n \div Octet
             y == n % Octet
  <2>1. n \in Nat /\ n < Octet * Octet /\ Octet \in Nat \ {0}
    <3>1. PICK w \in Nat \ {0} : w = Octet * Octet
      BY WordPositive
    <3>2. n \in 0 .. w - 1
      BY <3>1 DEF Group
    <3> QED BY <3>1, <3>2, WidthAssumption
  <2>2. x \in Nat /\ y \in Nat /\ y < Octet /\ n = Octet * x + y
    BY <2>1, DivMod
  <2> HIDE DEF x, y
  <2>3. x < Octet
    <3>1. SUFFICES ASSUME x >= Octet PROVE FALSE
      BY <2>1, <2>2
    <3>2. Octet * x >= Octet * Octet
      BY <2>1, <2>2, <3>1
    <3> QED BY <2>1, <2>2, <3>2
  <2>4. x * Octet + y = n
    BY <2>1, <2>2
  <2> QED BY <2>1, <2>2, <2>3, <2>4 DEF Byte, Pair, x, y
<1>2. a[Groups - 1] \in Group /\ a[Groups] \in Group
  BY WidthAssumption DEF IPs
<1>3. /\ get_ip4(a)[1] = a[Groups - 1] \div Octet /\ get_ip4(a)[2] = a[Groups - 1] % Octet
      /\ get_ip4(a)[3] = a[Groups] \div Octet /\ get_ip4(a)[4] = a[Groups] % Octet
      /\ get_ip4(a) = <<get_ip4(a)[1], get_ip4(a)[2], get_ip4(a)[3], get_ip4(a)[4]>>
  BY DEF get_ip4
<1>4. ASSUME NEW i \in 1 .. 4 PROVE get_ip4(a)[i] \in Byte
  <2>1. i = 1 \/ i = 2 \/ i = 3 \/ i = 4
    OBVIOUS
  <2> QED BY <1>1, <1>2, <1>3, <2>1
<1>5. Pair(get_ip4(a)[1], get_ip4(a)[2]) = a[Groups - 1] /\ Pair(get_ip4(a)[3], get_ip4(a)[4]) = a[Groups]
  BY <1>1, <1>2, <1>3
<1> QED BY <1>3, <1>4, <1>5

\* The dotted end is a text.
LEMMA QuadText == ASSUME NEW a \in IPs PROVE Quad(a) \in Seq(Int) /\ Dot \in Range(Quad(a))
<1> DEFINE n(i) == DigitsOf(get_ip4(a)[i], DecBase)
<1>1. n(1) \in Seq(Int) /\ n(2) \in Seq(Int) /\ n(3) \in Seq(Int) /\ n(4) \in Seq(Int)
  BY OctetsOf, ByteText
<1>2. Quad(a) = n(1) \o <<Dot>> \o n(2) \o <<Dot>> \o n(3) \o <<Dot>> \o n(4)
  BY DEF Quad
<1> HIDE DEF n
<1>3. ASSUME NEW w1 \in Seq(Int), NEW w2 \in Seq(Int), NEW w3 \in Seq(Int), NEW w4 \in Seq(Int), NEW c \in Int
      PROVE  /\ w1 \o <<c>> \o w2 \o <<c>> \o w3 \o <<c>> \o w4 \in Seq(Int)
             /\ c \in Range(w1 \o <<c>> \o w2 \o <<c>> \o w3 \o <<c>> \o w4)
  <2> DEFINE x == w1 \o <<c>> \o w2 \o <<c>> \o w3
  <2>1. x \in Seq(Int)
    OBVIOUS
  <2> HIDE DEF x
  <2>2. /\ x \o <<c>> \in Seq(Int) /\ Len(x \o <<c>>) = Len(x) + 1 /\ Len(x) \in Nat
        /\ (x \o <<c>>)[Len(x) + 1] = c
    BY <2>1
  <2>3. PICK y \in Seq(Int) : y = x \o <<c>>
    BY <2>2
  <2>4. y \o w4 \in Seq(Int) /\ (y \o w4)[Len(x) + 1] = c /\ Len(x) + 1 \in 1 .. Len(y \o w4)
    BY <2>2, <2>3
  <2>5. c \in Range(y \o w4)
    BY <2>4 DEF Range
  <2> QED BY <2>3, <2>4, <2>5 DEF x
<1> QED BY <1>1, <1>2, <1>3, Marks

\* What one round of the loop adds to the text, piece by piece.
OpenPart(r, zero) ==
  IF ~ (zero = "found" /\ r.zero # "found") THEN <<>>
  ELSE IF r.text = <<>> THEN <<Colon, Colon>> ELSE <<Colon>>
NumberPart(a, zero, i) ==
  IF zero = "found" THEN <<>> ELSE DigitsOf(a[i], HexBase) \o (IF i = Groups THEN <<>> ELSE <<Colon>>)
IsMapped(a, zero, i) == i = Groups - 3 /\ zero = "found" /\ a[i + 1] = Ones
MappedPart(a, zero, i) ==
  IF IsMapped(a, zero, i) THEN Append(DigitsOf(Ones, HexBase), Colon) ELSE <<>>
IsDotted(a, embedded, zero, i) == IsMapped(a, zero, i) \/ (embedded /\ i = Groups - 2)
QuadPart(a, embedded, zero, i) == IF IsDotted(a, embedded, zero, i) THEN Quad(a) ELSE <<>>

LEMMA PrintParts ==
  ASSUME NEW a, NEW embedded, NEW r, NEW i
  PROVE  LET zero == ZeroState(r.zero, a[i])
         IN  PrintGroup(a, embedded, r, i) =
               [zero |-> zero, done |-> IsDotted(a, embedded, zero, i),
                text |-> r.text \o OpenPart(r, zero) \o NumberPart(a, zero, i)
                           \o MappedPart(a, zero, i) \o QuadPart(a, embedded, zero, i)]
BY Zenon DEF PrintGroup, OpenPart, NumberPart, IsMapped, MappedPart, IsDotted, QuadPart

LEMMA PartTypes ==
  ASSUME NEW a \in IPs, NEW embedded \in BOOLEAN, NEW r \in Printers, NEW i \in 1 .. Groups, NEW zero
  PROVE  /\ OpenPart(r, zero) \in Seq(Int) /\ NumberPart(a, zero, i) \in Seq(Int)
         /\ MappedPart(a, zero, i) \in Seq(Int) /\ QuadPart(a, embedded, zero, i) \in Seq(Int)
<1>1. <<>> \in Seq(Int) /\ <<Colon>> \in Seq(Int) /\ <<Colon, Colon>> \in Seq(Int) /\ Colon \in Int
  BY DEF Colon
<1>2. a[i] \in Group
  BY DEF IPs
<1>3. Ones \in Group
  BY WordPositive DEF Ones, Group
<1>4. DigitsOf(a[i], HexBase) \in Seq(Int) /\ DigitsOf(Ones, HexBase) \in Seq(Int)
  BY <1>2, <1>3, GroupText
<1>5. ASSUME NEW w \in Seq(Int), NEW x \in Seq(Int) PROVE w \o x \in Seq(Int) /\ Append(w, Colon) \in Seq(Int)
  BY <1>1
<1>6. NumberPart(a, zero, i) \in Seq(Int)
  BY <1>1, <1>4, <1>5, Zenon DEF NumberPart
<1>7. MappedPart(a, zero, i) \in Seq(Int)
  BY <1>1, <1>4, <1>5, Zenon DEF MappedPart
<1>8. QuadPart(a, embedded, zero, i) \in Seq(Int)
  BY <1>1, QuadText, Zenon DEF QuadPart
<1>9. OpenPart(r, zero) \in Seq(Int)
  BY <1>1, Zenon DEF OpenPart
<1> QED BY <1>6, <1>7, <1>8, <1>9

LEMMA PrintType ==
  ASSUME NEW a \in IPs, NEW embedded \in BOOLEAN, NEW r \in Printers, NEW i \in 1 .. Groups
  PROVE  PrintGroup(a, embedded, r, i) \in Printers /\ PrintStep(a, embedded, r, i) \in Printers
<1> DEFINE zero == ZeroState(r.zero, a[i])
           t == r.text \o OpenPart(r, zero) \o NumberPart(a, zero, i)
                  \o MappedPart(a, zero, i) \o QuadPart(a, embedded, zero, i)
<1>1. r.text \in Seq(Int) /\ r.zero \in {"off", "start", "found", "end"}
  BY DEF Printers
<1>2. zero \in {"off", "start", "found", "end"}
  BY <1>1 DEF ZeroState
<1>3. t \in Seq(Int)
  <2> HIDE DEF zero
  <2>1. /\ OpenPart(r, zero) \in Seq(Int) /\ NumberPart(a, zero, i) \in Seq(Int)
        /\ MappedPart(a, zero, i) \in Seq(Int) /\ QuadPart(a, embedded, zero, i) \in Seq(Int)
    BY PartTypes
  <2> QED BY <1>1, <2>1
<1>4. IsDotted(a, embedded, zero, i) \in BOOLEAN
  BY DEF IsDotted, IsMapped
<1>5. PrintGroup(a, embedded, r, i) = [zero |-> zero, done |-> IsDotted(a, embedded, zero, i), text |-> t]
  BY PrintParts
<1> HIDE DEF zero, t
<1>6. PrintGroup(a, embedded, r, i) \in Printers
  BY <1>2, <1>3, <1>4, <1>5 DEF Printers
<1> QED BY <1>6 DEF PrintStep

\* to_str prints the groups one by one.
LEMMA Printing ==
  ASSUME NEW a \in IPs, NEW reduction \in BOOLEAN, NEW embedded \in BOOLEAN
  PROVE  \E r : IsPrinting(r, a, reduction, embedded) /\ to_str(a, reduction, embedded) = r[Groups].text
<1> DEFINE C == 1 .. Groups
           F == [r \in Printers |-> [i \in C |-> PrintStep(a, embedded, r, i)]]
           b == NewPrinter(reduction)
           s == [i \in 1 .. Groups |-> i]
<1>1. <<>> \in Seq(Int) /\ b \in Printers
  <2>1. <<>> \in Seq(Int)
    OBVIOUS
  <2> QED BY <2>1 DEF NewPrinter, Printers
<1>2. /\ F \in [Printers -> [C -> Printers]]
      /\ \A r \in Printers, i \in C : F[r][i] = PrintStep(a, embedded, r, i)
  <2>1. \A r \in Printers, i \in C : PrintStep(a, embedded, r, i) \in Printers
    BY PrintType
  <2> HIDE DEF Printers
  <2> QED BY <2>1
<1>3. s \in Seq(C) /\ Len(s) = Groups /\ DOMAIN s = 1 .. Len(s) /\ Len(s) \in Nat
      /\ \A k \in 1 .. Groups : s[k] = k
  BY WidthAssumption
<1> HIDE DEF F, s, C, b
<1>4. FoldsTo(FoldLeft(LAMBDA r, i : PrintStep(a, embedded, r, i), b, s), Printers, C, F, b, s)
  <2> DEFINE Entry(g, t) == IF t = {} THEN b ELSE PrintStep(a, embedded, g[t \ {Max(t)}], s[Max(t)])
             P(g) == g = [t \in SUBSET DOMAIN s |-> Entry(g, t)]
             table == CHOOSE g : P(g)
  <2>1. PICK h \in [SUBSET DOMAIN s -> Printers] : IsTable(h, F, b, s)
    BY <1>1, <1>2, <1>3, TableExists
  <2>3. ASSUME NEW t \in SUBSET DOMAIN s PROVE h[t] = Entry(h, t)
    <3>1. CASE t = {}
      BY <2>1, <3>1 DEF IsTable
    <3>2. CASE t # {}
      <4>1. Max(t) \in DOMAIN s
        BY <1>3, <3>2, MaxOf
      <4>2. s[Max(t)] \in C /\ h[t \ {Max(t)}] \in Printers
        BY <1>3, <2>1, <4>1
      <4> QED BY <1>2, <2>1, <3>2, <4>2 DEF IsTable
    <3> QED BY <3>1, <3>2
  <2>4. P(h)
    BY <2>3
  <2>5. FoldLeft(LAMBDA r, i : PrintStep(a, embedded, r, i), b, s) = table[DOMAIN s]
    BY DEF FoldLeft, MapThenFoldSet
  <2>6. P(table)
    <3> HIDE DEF P
    <3> QED BY <2>4
  <2>7. \A t \in SUBSET DOMAIN s : table[t] = Entry(table, t)
    <3> HIDE DEF table, Entry
    <3> QED BY <2>6
  <2> HIDE DEF table, P
  <2>8. table[{}] = b
    BY <2>7
  <2>9. ASSUME NEW k \in 1 .. Len(s), table[1 .. k - 1] \in Printers
        PROVE  table[1 .. k] = F[table[1 .. k - 1]][s[k]]
    <3>1. /\ 1 .. k \in SUBSET DOMAIN s /\ 1 .. k # {} /\ Max(1 .. k) = k
          /\ (1 .. k) \ {k} = 1 .. k - 1
      BY <1>3, Positions
    <3>2. table[1 .. k] = PrintStep(a, embedded, table[1 .. k - 1], s[k])
      BY <2>7, <3>1
    <3>3. s[k] \in C
      BY <1>3
    <3> QED BY <1>2, <2>9, <3>2, <3>3
  <2>10. FoldsTo(table[DOMAIN s], Printers, C, F, b, s)
    BY <1>1, <1>2, <1>3, <2>8, <2>9, TableFolds
  <2> QED BY <2>5, <2>10
<1>5. to_str(a, reduction, embedded) = FoldLeft(LAMBDA r, i : PrintStep(a, embedded, r, i), b, s).text
  BY Zenon DEF to_str, PrintStep, s, b
<1>6. PICK r \in [0 .. Len(s) -> Printers] :
        /\ IsRun(r, F, b, s)
        /\ FoldLeft(LAMBDA x, i : PrintStep(a, embedded, x, i), b, s) = r[Len(s)]
  BY <1>4, Zenon DEF FoldsTo
<1>7. ASSUME NEW k \in 1 .. Groups PROVE r[k] = PrintStep(a, embedded, r[k - 1], k)
  <2>1. r[k] = F[r[k - 1]][s[k]]
    BY <1>3, <1>6 DEF IsRun
  <2>2. k - 1 \in 0 .. Len(s) /\ s[k] = k /\ k \in C
    BY <1>3, WidthAssumption DEF C
  <2>3. r[k - 1] \in Printers
    BY <1>6, <2>2
  <2> QED BY <1>2, <2>1, <2>2, <2>3
<1>8. IsPrinting(r, a, reduction, embedded)
  BY <1>3, <1>6, <1>7 DEF IsPrinting, IsRun, b
<1>9. to_str(a, reduction, embedded) = r[Groups].text
  BY <1>3, <1>5, <1>6
<1> QED BY <1>8, <1>9

-----------------------------------------------------------------------------
(* What the object holds *)

LEMMA PairType == ASSUME NEW x \in Byte, NEW y \in Byte PROVE Pair(x, y) \in Group
<1>1. Octet \in Nat /\ x \in Nat /\ y \in Nat /\ x < Octet /\ y < Octet
  BY WidthAssumption DEF Byte
<1>2. (Octet - 1 - x) * Octet >= 0
  BY <1>1
<1>3. x * Octet + Octet <= Octet * Octet /\ x * Octet \in Nat /\ Octet * Octet \in Nat
  BY <1>1, <1>2
<1>4. ASSUME NEW m \in Nat, NEW n \in Nat, m + Octet <= n PROVE m + y \in 0 .. n - 1
  BY <1>1, <1>4
<1>5. x * Octet + y \in 0 .. Octet * Octet - 1
  BY <1>3, <1>4
<1> QED BY <1>5 DEF Pair, Group

\* The groups of an accepted text.
LEMMA AllGroupsType ==
  ASSUME NEW q, InBounds(q), ~ Refused(q)
  PROVE  AllGroups(q) \in Seq(Group) /\ Len(AllGroups(q)) > Len(q.result_hex)
<1>1. q.result_hex \in Seq(Group) /\ q.result_dec \in Seq(Byte) /\ Len(q.result_hex) \in Nat
      /\ q.accum_hex \in Nat /\ q.accum_dec \in Nat
  BY WordPositive DEF InBounds, Parsers
<1>2. CASE q.result_dec = <<>>
  <2>1. q.accum_hex \in Group
    <3>1. PICK w \in Nat \ {0} : w = Octet * Octet
      BY WordPositive
    <3>2. ~ (q.accum_hex > w - 1)
      BY <1>2, <3>1 DEF Refused, Ones
    <3>3. q.accum_hex \in 0 .. w - 1
      BY <1>1, <3>1, <3>2
    <3> QED BY <3>1, <3>3 DEF Group
  <2>2. AllGroups(q) = Append(q.result_hex, q.accum_hex)
    BY <1>2 DEF AllGroups
  <2> QED BY <1>1, <2>1, <2>2
<1>3. CASE q.result_dec # <<>>
  <2> DEFINE front == IF q.result_hex = <<>> THEN <<Ones>> ELSE q.result_hex
             x == Pair(q.result_dec[1], q.result_dec[2])
             y == Pair(q.result_dec[3], q.accum_dec)
  <2>1. Len(q.result_dec) = 3 /\ q.accum_dec < Octet
    <3>1. Len(q.result_dec) \in Nat /\ Len(q.result_dec) # 0
      BY <1>1, <1>3
    <3>2. Len(q.result_dec) = 3
      BY <3>1 DEF Refused
    <3>3. ~ (q.accum_dec >= Octet)
      BY <3>2 DEF Refused
    <3> QED BY <1>1, <3>2, <3>3, WidthAssumption
  <2>2. /\ q.result_dec[1] \in Byte /\ q.result_dec[2] \in Byte /\ q.result_dec[3] \in Byte
        /\ q.accum_dec \in Byte
    <3>1. q.accum_dec \in Byte
      BY <1>1, <2>1, WidthAssumption DEF Byte
    <3> QED BY <1>1, <2>1, <3>1
  <2>3. x \in Group /\ y \in Group /\ Ones \in Group
    BY <2>2, PairType, WordPositive DEF Ones, Group
  <2>4. AllGroups(q) = front \o <<x, y>>
    BY <1>3 DEF AllGroups
  <2> HIDE DEF x, y
  <2>5. front \in Seq(Group) /\ Len(front) >= Len(q.result_hex) /\ Len(front) \in Nat
    BY <1>1, <2>3
  <2> HIDE DEF front
  <2>6. front \o <<x, y>> \in Seq(Group) /\ Len(front \o <<x, y>>) = Len(front) + 2
    BY <2>3, <2>5
  <2> QED BY <1>1, <2>4, <2>5, <2>6
<1> QED BY <1>2, <1>3

LEMMA ExpandType ==
  ASSUME NEW g \in Seq(Group), Len(g) <= Groups, NEW sep \in Int, sep <= Len(g), sep >= NoSeparator
  PROVE  Expand(g, sep) \in IPs
<1> DEFINE at == IF sep = NoSeparator THEN 0 ELSE sep
           missing == Groups - Len(g)
<1>1. Len(g) \in Nat /\ at \in Nat /\ at <= Len(g) /\ missing \in Nat
  BY WidthAssumption DEF NoSeparator
<1>2. 0 \in Group
  BY WordPositive DEF Group
<1>3. ASSUME NEW j \in 1 .. Groups
      PROVE  (IF j <= at THEN g[j] ELSE IF j <= at + missing THEN 0 ELSE g[j - missing]) \in Group
  <2>1. CASE j <= at
    <3>1. j \in 1 .. Len(g)
      BY <1>1, <2>1
    <3> QED BY <2>1, <3>1
  <2>2. CASE ~ (j <= at) /\ j <= at + missing
    <3> HIDE DEF at, missing
    <3> QED BY <1>2, <2>2
  <2>3. CASE ~ (j <= at) /\ ~ (j <= at + missing)
    <3>1. j - missing \in 1 .. Len(g)
      <4>1. missing = Groups - Len(g) /\ Groups \in Nat
        BY WidthAssumption
      <4> HIDE DEF at, missing
      <4> QED BY <1>1, <2>3, <4>1
    <3> HIDE DEF at, missing
    <3>2. g[j - missing] \in Group
      BY <3>1
    <3> QED BY <2>3, <3>2
  <2> QED BY <2>1, <2>2, <2>3
<1>4. Expand(g, sep) = [j \in 1 .. Groups |-> IF j <= at THEN g[j]
                             ELSE IF j <= at + missing THEN 0 ELSE g[j - missing]]
  BY DEF Expand
<1> HIDE DEF at, missing
<1> QED BY <1>3, <1>4 DEF IPs

\* What from_str stores in the object are Groups groups, whatever was read.
LEMMA FinishIsAddress ==
  ASSUME NEW q, InBounds(q), ~ Undefined(q) PROVE Finish(q).ip \in IPs
<1> DEFINE e == AtEnd(q)
<1>1. InBounds(e)
  BY SingleColonType DEF AtEnd
<1>2. CASE Refused(e)
  <2>1. Finish(q).ip = ZeroIP
    BY <1>2 DEF Finish
  <2>2. 0 \in Group
    BY WordPositive DEF Group
  <2> QED BY <2>1, <2>2 DEF ZeroIP, IPs
<1>3. CASE ~ Refused(e)
  <2>1. Finish(q).ip = Expand(AllGroups(e), e.separator)
    BY <1>3 DEF Finish
  <2>2. ~ (Len(AllGroups(e)) > Groups)
    BY <1>3 DEF Undefined
  <2> HIDE DEF e
  <2>3. AllGroups(e) \in Seq(Group) /\ Len(AllGroups(e)) > Len(e.result_hex)
    BY <1>1, <1>3, AllGroupsType
  <2>4. e.separator \in Int /\ e.separator >= NoSeparator /\ e.separator <= Len(e.result_hex)
        /\ Len(e.result_hex) \in Nat
    BY <1>1, WidthAssumption DEF InBounds, Parsers, NoSeparator
  <2>5. Len(AllGroups(e)) \in Nat
    BY <2>3
  <2>6. Len(AllGroups(e)) <= Groups /\ e.separator <= Len(AllGroups(e))
    BY <2>2, <2>3, <2>4, <2>5, WidthAssumption
  <2> QED BY <2>1, <2>3, <2>4, <2>6, ExpandType
<1> QED BY <1>2, <1>3

\* The object holds an address in every state: read, constructed, or made of
\* the four octets of an IPv4 address.
THEOREM Ip6ObjectIsAddress == Spec => [](ip \in IPs)
<1>1. Init => ip \in IPs
  <2>1. 0 \in Group
    BY WordPositive DEF Group
  <2> QED BY <2>1 DEF Init, ZeroIP, IPs
<1>2. TypeOK /\ ip \in IPs /\ [Next]_vars => (ip \in IPs)'
  <2> SUFFICES ASSUME TypeOK, ip \in IPs, [Next]_vars PROVE ip' \in IPs
    OBVIOUS
  <2>1. [1 .. Groups -> Sample] \subseteq IPs
    BY SampleAssumption DEF IPs, Group
  <2>2. ASSUME NEW a \in IPs, Construct(a) PROVE ip' \in IPs
    BY <2>2 DEF Construct
  <2>3. ASSUME NEW b \in [1 .. 4 -> Byte] PROVE FromIp4(b) \in IPs
    <3>1. Pair(b[1], b[2]) \in Group /\ Pair(b[3], b[4]) \in Group
      BY PairType
    <3>2. 0 \in Group /\ Ones \in Group
      BY WordPositive DEF Group, Ones
    <3> HIDE DEF Group
    <3>3. ASSUME NEW j \in 1 .. Groups PROVE FromIp4(b)[j] \in Group
      <4>1. CASE j = Groups - 2
        BY <3>2, <4>1, WidthAssumption DEF FromIp4
      <4>2. CASE j = Groups - 1
        BY <3>1, <4>2, WidthAssumption DEF FromIp4
      <4>3. CASE j = Groups
        BY <3>1, <4>3, WidthAssumption DEF FromIp4
      <4>4. CASE j # Groups - 2 /\ j # Groups - 1 /\ j # Groups
        BY <3>2, <4>4 DEF FromIp4
      <4> QED BY <4>1, <4>2, <4>3, <4>4
    <3>4. FromIp4(b) = [j \in 1 .. Groups |-> FromIp4(b)[j]]
      BY DEF FromIp4
    <3> QED BY <3>3, <3>4 DEF IPs
  <2>4. ASSUME NEW c \in Int, ReadAddress(c) PROVE ip' \in IPs
    <3>1. InBounds(p)
      BY DEF TypeOK, InBounds
    <3>2. p' = Read(p, c) /\ ip' \in IF Undefined(p') THEN [1 .. Groups -> Sample] ELSE {Finish(p').ip}
      BY <2>4 DEF ReadAddress
    <3>3. InBounds(p')
      BY <3>1, <3>2, ReadType
    <3> QED BY <2>1, <3>2, <3>3, FinishIsAddress
  <2>5. ASSUME NEW c, ReadTail(c) PROVE ip' \in IPs
    BY <2>5 DEF ReadTail
  <2>6. CASE UNCHANGED vars
    BY <2>6 DEF vars
  <2>7. Digit \cup {Colon, Dot, Other} \subseteq Int
    BY Marks DEF Letters
  <2> QED BY <2>1, <2>2, <2>3, <2>4, <2>5, <2>6, <2>7 DEF Next
<1> QED BY <1>1, <1>2, Ip6TypeCorrect, PTL DEF Spec

-----------------------------------------------------------------------------
(* The mapped form *)

\* The first character of a text in front of another one.
LEMMA HeadOf ==
  ASSUME NEW s \in Seq(Int), NEW u \in Seq(Int), s # <<>>
  PROVE  s \o u \in Seq(Int) /\ s \o u # <<>> /\ (s \o u)[1] = s[1]
<1>1. Len(s) \in Nat /\ Len(s) > 0 /\ Len(u) \in Nat /\ s \o u \in Seq(Int) /\ Len(s \o u) = Len(s) + Len(u)
  OBVIOUS
<1>2. (s \o u)[1] = s[1]
  BY <1>1
<1>3. Len(s \o u) > 0
  BY <1>1
<1> QED BY <1>1, <1>2, <1>3

\* The pieces of a round that prints no dotted end.
LEMMA PlainPieces ==
  ASSUME NEW a \in IPs, NEW embedded \in BOOLEAN, NEW r \in Printers, NEW i \in 1 .. Groups, NEW zero,
         ~ IsDotted(a, embedded, zero, i), r.text \in Seq(Digit \cup {Colon})
  PROVE  r.text \o OpenPart(r, zero) \o NumberPart(a, zero, i) \o MappedPart(a, zero, i)
           \o QuadPart(a, embedded, zero, i) \in Seq(Digit \cup {Colon})
<1> DEFINE T == Digit \cup {Colon}
<1>1. ASSUME NEW w \in Seq(T), NEW x \in Seq(T) PROVE w \o x \in Seq(T)
  OBVIOUS
<1>2. <<>> \in Seq(T) /\ <<Colon>> \in Seq(T) /\ <<Colon, Colon>> \in Seq(T)
  <2>1. ASSUME NEW c, c \in T PROVE <<>> \in Seq(T) /\ <<c>> \in Seq(T) /\ <<c, c>> \in Seq(T)
    <3> HIDE DEF T
    <3> QED BY <2>1
  <2>2. Colon \in T
    OBVIOUS
  <2> HIDE DEF T
  <2> QED BY <2>1, <2>2
<1>3. DigitsOf(a[i], HexBase) \in Seq(T)
  <2>1. a[i] \in Group /\ Digit \subseteq T
    BY DEF IPs
  <2>2. DigitsOf(a[i], HexBase) \in Seq(Digit)
    BY <2>1, GroupText
  <2> HIDE DEF T
  <2> QED BY <2>1, <2>2, SeqOver
<1> HIDE DEF T
<1>4. OpenPart(r, zero) \in Seq(T)
  BY <1>2, Zenon DEF OpenPart
<1>5. NumberPart(a, zero, i) \in Seq(T)
  BY <1>1, <1>2, <1>3, Zenon DEF NumberPart
<1>6. MappedPart(a, zero, i) \in Seq(T) /\ QuadPart(a, embedded, zero, i) \in Seq(T)
  BY <1>2, Zenon DEF MappedPart, QuadPart, IsDotted
<1>7. r.text \in Seq(T)
  BY DEF T
<1>8. r.text \o OpenPart(r, zero) \in Seq(T)
  BY <1>1, <1>4, <1>7
<1>9. r.text \o OpenPart(r, zero) \o NumberPart(a, zero, i) \in Seq(T)
  BY <1>1, <1>5, <1>8
<1>10. r.text \o OpenPart(r, zero) \o NumberPart(a, zero, i) \o MappedPart(a, zero, i) \in Seq(T)
  BY <1>1, <1>6, <1>9
<1>11. r.text \o OpenPart(r, zero) \o NumberPart(a, zero, i) \o MappedPart(a, zero, i)
           \o QuadPart(a, embedded, zero, i) \in Seq(T)
  BY <1>1, <1>6, <1>10
<1> QED BY <1>11 DEF T

\* The text begins with a colon only when the first group is zero; the zeros in
\* front are one run; a dotted end is printed of a mapped address only.
MapInv(r, a, k) ==
  /\ r.zero # "off"
  /\ k = 0 => r.text = <<>> /\ r.zero = "start" /\ ~ r.done
  /\ k # 0 => r.text # <<>> /\ (r.text[1] = Colon => a[1] = 0)
  /\ ~ r.done => r.text \in Seq(Digit \cup {Colon})
  /\ k # 0 /\ a[1] = 0 /\ ~ r.done =>
       r.zero # "start" /\ (r.zero = "found" => \A j \in 1 .. k : a[j] = 0)
  /\ r.done /\ a[1] = 0 => is_ip4(a)

LEMMA MapStep ==
  ASSUME NEW a \in IPs, NEW r \in Printers, NEW k \in 1 .. Groups, MapInv(r, a, k - 1)
  PROVE  MapInv(PrintStep(a, FALSE, r, k), a, k)
<1>0. k \in Nat /\ k # 0 /\ k - 1 \in Nat
  OBVIOUS
<1>1. CASE r.done
  <2>1. PrintStep(a, FALSE, r, k) = r
    BY <1>1 DEF PrintStep
  <2> QED BY <1>0, <1>1, <2>1 DEF MapInv
<1>2. CASE ~ r.done
  <2> DEFINE zero == ZeroState(r.zero, a[k])
             A == OpenPart(r, zero)
             B == NumberPart(a, zero, k)
             C == MappedPart(a, zero, k)
             D == QuadPart(a, FALSE, zero, k)
             n == PrintGroup(a, FALSE, r, k)
  <2>1. n = [zero |-> zero, done |-> IsDotted(a, FALSE, zero, k), text |-> r.text \o A \o B \o C \o D]
    BY PrintParts
  <2>2. A \in Seq(Int) /\ B \in Seq(Int) /\ C \in Seq(Int) /\ D \in Seq(Int) /\ r.text \in Seq(Int)
    <3> HIDE DEF zero
    <3> QED BY PartTypes DEF Printers
  <2>3. PrintStep(a, FALSE, r, k) = n
    BY <1>2 DEF PrintStep
  <2>4. r.zero \in {"start", "found", "end"}
    BY DEF MapInv, Printers
  <2>5. /\ zero # "off"
        /\ zero = "found" <=> a[k] = 0 /\ r.zero # "end"
        /\ zero = "start" <=> a[k] # 0 /\ r.zero = "start"
    BY <2>4 DEF ZeroState
  <2>6. IsDotted(a, FALSE, zero, k) <=> IsMapped(a, zero, k)
    BY DEF IsDotted
  <2>7. ASSUME ~ IsDotted(a, FALSE, zero, k) PROVE r.text \o A \o B \o C \o D \in Seq(Digit \cup {Colon})
    <3>1. r.text \in Seq(Digit \cup {Colon})
      BY <1>2 DEF MapInv
    <3> HIDE DEF zero
    <3> QED BY <2>7, <3>1, PlainPieces
  <2>8. a[1] = 0 => zero # "start" /\ (zero = "found" => \A j \in 1 .. k : a[j] = 0)
    <3>1. CASE k = 1
      BY <2>5, <3>1
    <3>2. CASE k # 1
      <4>1. ASSUME a[1] = 0 PROVE r.zero # "start" /\ (r.zero = "found" => \A j \in 1 .. k - 1 : a[j] = 0)
        <5>1. PICK m \in Nat : m = k - 1
          BY <1>0
        <5>2. m # 0 /\ MapInv(r, a, m)
          BY <3>2, <5>1
        <5> HIDE DEF zero
        <5>3. r.zero # "start" /\ (r.zero = "found" => \A j \in 1 .. m : a[j] = 0)
          BY <1>2, <4>1, <5>2, Zenon DEF MapInv
        <5> QED BY <5>1, <5>3
      <4> HIDE DEF zero
      <4>2. ASSUME a[1] = 0, zero = "found" PROVE \A j \in 1 .. k : a[j] = 0
        BY <2>4, <2>5, <4>1, <4>2
      <4> QED BY <2>5, <4>1, <4>2
    <3> QED BY <3>1, <3>2
  <2>9. IsDotted(a, FALSE, zero, k) /\ a[1] = 0 => is_ip4(a)
    <3>1. ASSUME IsMapped(a, zero, k), a[1] = 0 PROVE is_ip4(a)
      <4>1. k = Groups - 3 /\ zero = "found" /\ a[k + 1] = Ones
        BY <3>1 DEF IsMapped
      <4>2. k + 1 = Groups - 2
        BY <4>1, WidthAssumption
      <4> HIDE DEF zero
      <4> QED BY <2>8, <3>1, <4>1, <4>2 DEF is_ip4
    <3> QED BY <2>6, <3>1
  <2> HIDE DEF zero, A, B, C, D, n
  <2>10. /\ r.text \o A \o B \o C \o D # <<>>
         /\ (r.text \o A \o B \o C \o D)[1] = Colon => a[1] = 0
    <3>1. ASSUME NEW w \in Seq(Int), w # <<>>, w[1] = Colon => a[1] = 0, r.text \o A \o B = w
          PROVE  r.text \o A \o B \o C \o D # <<>> /\ ((r.text \o A \o B \o C \o D)[1] = Colon => a[1] = 0)
      <4>1. w \o C \in Seq(Int) /\ w \o C # <<>> /\ (w \o C)[1] = w[1]
        BY <2>2, <3>1, HeadOf
      <4>2. PICK x \in Seq(Int) : x = w \o C
        BY <4>1
      <4>3. x \o D # <<>> /\ (x \o D)[1] = x[1]
        BY <2>2, <4>1, <4>2, HeadOf
      <4> QED BY <3>1, <4>1, <4>2, <4>3
    <3>2. CASE k = 1 /\ a[1] = 0
      <4>1. r.text = <<>> /\ r.zero = "start" /\ zero = "found"
        BY <2>5, <3>2 DEF MapInv
      <4>2. A = <<Colon, Colon>> /\ B = <<>>
        BY <4>1 DEF A, B, OpenPart, NumberPart
      <4>3. r.text \o A \o B = <<Colon, Colon>>
        BY <2>2, <4>1, <4>2
      <4>4. <<Colon, Colon>> \in Seq(Int) /\ <<Colon, Colon>> # <<>>
        BY DEF Colon
      <4> QED BY <3>1, <3>2, <4>3, <4>4
    <3>3. CASE k = 1 /\ a[1] # 0
      <4>1. r.text = <<>> /\ r.zero = "start" /\ zero = "start"
        BY <2>5, <3>3 DEF MapInv
      <4> DEFINE d == DigitsOf(a[k], HexBase)
                 x == IF k = Groups THEN <<>> ELSE <<Colon>>
      <4>2. A = <<>> /\ B = d \o x
        BY <4>1, Zenon DEF A, B, OpenPart, NumberPart
      <4>3. d \in Seq(Int) /\ d \in Seq(Digit) /\ d # <<>>
        BY GroupText DEF IPs
      <4>4. x \in Seq(Int)
        BY DEF Colon
      <4> HIDE DEF d, x
      <4>5. d[1] # Colon
        <5>1. Len(d) \in Nat /\ Len(d) > 0
          BY <4>3
        <5>2. d[1] \in Digit
          BY <4>3, <5>1
        <5> QED BY <5>2, Marks
      <4>6. d \o x \in Seq(Int) /\ d \o x # <<>> /\ (d \o x)[1] = d[1]
        BY <4>3, <4>4, HeadOf
      <4>7. ASSUME NEW w \in Seq(Int) PROVE <<>> \o <<>> \o w = w
        OBVIOUS
      <4>8. r.text \o A \o B = d \o x
        BY <4>1, <4>2, <4>6, <4>7
      <4> QED BY <3>1, <4>5, <4>6, <4>8
    <3>4. CASE k # 1
      <4>1. r.text # <<>> /\ (r.text[1] = Colon => a[1] = 0)
        BY <3>4 DEF MapInv
      <4>2. r.text \o A \in Seq(Int) /\ r.text \o A # <<>> /\ (r.text \o A)[1] = r.text[1]
        BY <2>2, <4>1, HeadOf
      <4>3. PICK x \in Seq(Int) : x = r.text \o A
        BY <4>2
      <4>4. x \o B \in Seq(Int) /\ x \o B # <<>> /\ (x \o B)[1] = x[1]
        BY <2>2, <4>2, <4>3, HeadOf
      <4> QED BY <3>1, <4>1, <4>2, <4>3, <4>4
    <3> QED BY <3>2, <3>3, <3>4
  <2>11. n.zero = zero /\ n.done = IsDotted(a, FALSE, zero, k) /\ n.text = r.text \o A \o B \o C \o D
    BY <2>1
  <2>12. MapInv(n, a, k)
    BY <1>0, <2>5, <2>7, <2>8, <2>9, <2>10, <2>11 DEF MapInv
  <2> QED BY <2>3, <2>12
<1> QED BY <1>1, <1>2

\* The text of a mapped address.
MappedText(a) == <<Colon, Colon>> \o DigitsOf(Ones, HexBase) \o <<Colon>> \o Quad(a)

LEMMA OnesText ==
  /\ Ones \in Group /\ DigitsOf(Ones, HexBase) \in Seq(Int) /\ DigitsOf(Ones, HexBase) \in Seq(Digit) \ {<<>>}
<1>1. Ones \in Group
  BY WordPositive DEF Ones, Group
<1> QED BY <1>1, GroupText

LEMMA MappedTextIs ==
  ASSUME NEW a \in IPs
  PROVE  /\ MappedText(a) \in Seq(Int) /\ MappedText(a)[1] = Colon
         /\ MappedText(a) \notin Seq(Digit \cup {Colon})
         /\ MappedText(a) = <<Colon, Colon>> \o <<>> \o Append(DigitsOf(Ones, HexBase), Colon) \o Quad(a)
<1>1. DigitsOf(Ones, HexBase) \in Seq(Int) /\ Quad(a) \in Seq(Int) /\ Dot \in Range(Quad(a))
  BY OnesText, QuadText
<1>2. ASSUME NEW d \in Seq(Int), NEW w \in Seq(Int), NEW c \in Int
      PROVE  /\ <<c, c>> \o d \o <<c>> \o w = <<c, c>> \o <<>> \o Append(d, c) \o w
             /\ <<c, c>> \o d \o <<c>> \o w \in Seq(Int)
             /\ (<<c, c>> \o d \o <<c>> \o w)[1] = c
             /\ \A x \in Range(w) : x \in Range(<<c, c>> \o d \o <<c>> \o w)
  <2>1. <<c, c>> \in Seq(Int) /\ <<c>> \in Seq(Int) /\ <<c, c>> # <<>> /\ <<c, c>>[1] = c
    OBVIOUS
  <2>2. <<c, c>> \o d \o <<c>> = <<c, c>> \o <<>> \o Append(d, c)
    OBVIOUS
  <2>3. <<c, c>> \o d \o <<c>> \in Seq(Int) /\ <<c, c>> \o d \o <<c>> # <<>> /\ (<<c, c>> \o d \o <<c>>)[1] = c
    <3>1. <<c, c>> \o d \in Seq(Int) /\ <<c, c>> \o d # <<>> /\ (<<c, c>> \o d)[1] = c
      BY <2>1, HeadOf
    <3>2. PICK y \in Seq(Int) : y = <<c, c>> \o d
      BY <3>1
    <3> QED BY <2>1, <3>1, <3>2, HeadOf
  <2>4. PICK y \in Seq(Int) : y = <<c, c>> \o d \o <<c>>
    BY <2>3
  <2>5. y \o w \in Seq(Int) /\ (y \o w)[1] = c
    BY <2>3, <2>4, HeadOf
  <2>6. ASSUME NEW x \in Range(w) PROVE x \in Range(y \o w)
    <3>1. PICK k \in 1 .. Len(w) : w[k] = x
      BY DEF Range
    <3>2. (y \o w)[Len(y) + k] = x /\ Len(y) + k \in 1 .. Len(y \o w) /\ y \o w \in Seq(Int)
      BY <3>1
    <3>3. PICK i : i = Len(y) + k
      OBVIOUS
    <3>4. PICK z \in Seq(Int) : z = y \o w
      BY <3>2
    <3>5. z[i] = x /\ i \in DOMAIN z
      BY <3>2, <3>3, <3>4
    <3>6. x \in Range(z)
      BY <3>5 DEF Range
    <3> QED BY <3>4, <3>6
  <2> QED BY <2>2, <2>4, <2>5, <2>6
<1>3. Colon \in Int
  BY DEF Colon
<1>4. /\ MappedText(a) \in Seq(Int) /\ MappedText(a)[1] = Colon /\ Dot \in Range(MappedText(a))
      /\ MappedText(a) = <<Colon, Colon>> \o <<>> \o Append(DigitsOf(Ones, HexBase), Colon) \o Quad(a)
  BY <1>1, <1>2, <1>3 DEF MappedText
<1>5. ASSUME MappedText(a) \in Seq(Digit \cup {Colon}) PROVE FALSE
  <2>1. PICK w : w = MappedText(a)
    OBVIOUS
  <2>2. w \in Seq(Digit \cup {Colon}) /\ Dot \in Range(w)
    BY <1>4, <1>5, <2>1
  <2>3. Range(w) \subseteq Digit \cup {Colon}
    BY <2>2 DEF Range
  <2> QED BY <2>2, <2>3, Marks
<1> QED BY <1>4, <1>5

\* Only a mapped address is printed that way,
LEMMA OnlyMapped ==
  ASSUME NEW a \in IPs, NEW r, IsPrinting(r, a, TRUE, FALSE), r[Groups].text = MappedText(a)
  PROVE  is_ip4(a)
<1> DEFINE S == {k \in 0 .. Groups : MapInv(r[k], a, k)}
<1>1. 0 \in S
  <2>1. r[0] = [text |-> <<>>, zero |-> "start", done |-> FALSE]
    BY DEF IsPrinting, NewPrinter
  <2>2. <<>> \in Seq(Digit \cup {Colon})
    OBVIOUS
  <2>3. MapInv(r[0], a, 0)
    BY <2>1, <2>2 DEF MapInv
  <2> QED BY <2>3, WidthAssumption
<1>2. ASSUME NEW k \in 1 .. Groups, k - 1 \in S PROVE k \in S
  <2>a. k - 1 \in 0 .. Groups
    BY WidthAssumption
  <2>1. r[k - 1] \in Printers /\ r[k] = PrintStep(a, FALSE, r[k - 1], k)
    BY <2>a DEF IsPrinting
  <2>2. MapInv(r[k - 1], a, k - 1)
    BY <1>2
  <2>3. MapInv(r[k], a, k)
    BY <2>1, <2>2, MapStep
  <2> QED BY <2>3, WidthAssumption
<1>3. 0 .. Groups \subseteq S
  <2> HIDE DEF S
  <2> QED BY <1>1, <1>2, RangeInduction, WidthAssumption
<1>4. MapInv(r[Groups], a, Groups) /\ Groups # 0
  BY <1>3, WidthAssumption
<1>5. r[Groups].text[1] = Colon /\ r[Groups].text \notin Seq(Digit \cup {Colon})
  BY MappedTextIs
<1> QED BY <1>4, <1>5 DEF MapInv

\* and every mapped one.
LEMMA EveryMapped ==
  ASSUME NEW a \in IPs, NEW r, IsPrinting(r, a, TRUE, FALSE), is_ip4(a)
  PROVE  r[Groups].text = MappedText(a)
<1> DEFINE Zeros(k) == r[k] = [text |-> IF k = 0 THEN <<>> ELSE <<Colon, Colon>>,
                               zero |-> IF k = 0 THEN "start" ELSE "found", done |-> FALSE]
           S == {k \in 0 .. Groups : /\ k < Groups - 3 => Zeros(k)
                                     /\ k >= Groups - 3 => r[k].done /\ r[k].text = MappedText(a)}
<1>1. 0 \in S
  <2>1. Zeros(0)
    BY DEF IsPrinting, NewPrinter
  <2> HIDE DEF Zeros
  <2> QED BY <2>1, WidthAssumption
<1>2. ASSUME NEW k \in 1 .. Groups, k - 1 \in S PROVE k \in S
  <2> DEFINE q == r[k - 1]
  <2>1. r[k] = PrintStep(a, FALSE, q, k)
    BY DEF IsPrinting
  <2>2. CASE k > Groups - 3
    <3>1. q.done /\ q.text = MappedText(a)
      BY <1>2, <2>2, WidthAssumption
    <3>2. r[k] = q
      BY <2>1, <3>1 DEF PrintStep
    <3> HIDE DEF q, Zeros
    <3> QED BY <2>2, <3>1, <3>2, WidthAssumption
  <2>3. CASE k <= Groups - 3
    <3>1. Zeros(k - 1)
      BY <1>2, <2>3, WidthAssumption
    <3>2. /\ q.done = FALSE /\ q.zero = IF k = 1 THEN "start" ELSE "found"
          /\ q.text = IF k = 1 THEN <<>> ELSE <<Colon, Colon>>
      BY <3>1
    <3> HIDE DEF q, Zeros
    <3>3. a[k] = 0 /\ (k = Groups - 3 => a[k + 1] = Ones)
      <4>1. k \in 1 .. Groups - 3
        BY <2>3, WidthAssumption
      <4>2. k = Groups - 3 => k + 1 = Groups - 2
        BY WidthAssumption
      <4> QED BY <4>1, <4>2 DEF is_ip4
    <3>4. ZeroState(q.zero, a[k]) = "found"
      BY <3>2, <3>3 DEF ZeroState
    <3>5. q.text \o OpenPart(q, "found") = <<Colon, Colon>>
      <4>1. \A w \in Seq(Int) : w \o <<>> = w /\ <<>> \o w = w
        OBVIOUS
      <4>2. <<Colon, Colon>> \in Seq(Int)
        BY DEF Colon
      <4> QED BY <3>2, <4>1, <4>2 DEF OpenPart
    <3>6. NumberPart(a, "found", k) = <<>>
      BY DEF NumberPart
    <3>7. IsMapped(a, "found", k) <=> k = Groups - 3
      BY <3>3 DEF IsMapped
    <3>8. r[k] = PrintGroup(a, FALSE, q, k)
      BY <2>1, <3>2 DEF PrintStep
    <3>9. PrintGroup(a, FALSE, q, k) =
            [zero |-> "found", done |-> IsDotted(a, FALSE, "found", k),
             text |-> q.text \o OpenPart(q, "found") \o NumberPart(a, "found", k)
                        \o MappedPart(a, "found", k) \o QuadPart(a, FALSE, "found", k)]
      BY <3>4, PrintParts
    <3>10. r[k] = [zero |-> "found", done |-> IsDotted(a, FALSE, "found", k),
                   text |-> <<Colon, Colon>> \o <<>> \o MappedPart(a, "found", k) \o QuadPart(a, FALSE, "found", k)]
      BY <3>5, <3>6, <3>8, <3>9
    <3>11. CASE k = Groups - 3
      <4>1. IsMapped(a, "found", k) /\ IsDotted(a, FALSE, "found", k)
        BY <3>7, <3>11 DEF IsDotted
      <4>2. r[k].done /\ r[k].text = MappedText(a)
        <5>1. MappedPart(a, "found", k) = Append(DigitsOf(Ones, HexBase), Colon) /\ QuadPart(a, FALSE, "found", k) = Quad(a)
          BY <4>1, Zenon DEF MappedPart, QuadPart
        <5>2. r[k].done = IsDotted(a, FALSE, "found", k)
          BY <3>10
        <5>3. r[k].text = <<Colon, Colon>> \o <<>> \o MappedPart(a, "found", k) \o QuadPart(a, FALSE, "found", k)
          <6>1. PICK x : x = <<Colon, Colon>> \o <<>> \o MappedPart(a, "found", k) \o QuadPart(a, FALSE, "found", k)
            OBVIOUS
          <6>2. r[k] = [zero |-> "found", done |-> IsDotted(a, FALSE, "found", k), text |-> x]
            BY <3>10, <6>1
          <6>3. r[k].text = x
            BY <6>2
          <6> QED BY <6>1, <6>3, Zenon
        <5> QED BY <4>1, <5>1, <5>2, <5>3, MappedTextIs
      <4> QED BY <3>11, <4>2, WidthAssumption
    <3>12. CASE k # Groups - 3
      <4>1. ~ IsMapped(a, "found", k) /\ ~ IsDotted(a, FALSE, "found", k)
        BY <3>7, <3>12 DEF IsDotted
      <4>2. MappedPart(a, "found", k) = <<>> /\ QuadPart(a, FALSE, "found", k) = <<>>
        BY <4>1 DEF MappedPart, QuadPart
      <4>3. <<Colon, Colon>> \o <<>> \o <<>> \o <<>> = <<Colon, Colon>>
        BY DEF Colon
      <4>4. r[k] = [zero |-> "found", done |-> FALSE, text |-> <<Colon, Colon>>]
        <5>1. IsDotted(a, FALSE, "found", k) = FALSE
          BY <4>1 DEF IsDotted, IsMapped
        <5> QED BY <3>10, <4>2, <4>3, <5>1
      <4>5. Zeros(k)
        <5>1. k # 0
          OBVIOUS
        <5> QED BY <4>4, <5>1 DEF Zeros
      <4> QED BY <2>3, <3>12, <4>5, WidthAssumption
    <3> QED BY <3>11, <3>12
  <2> QED BY <2>2, <2>3, WidthAssumption
<1>3. 0 .. Groups \subseteq S
  <2> HIDE DEF S
  <2> QED BY <1>1, <1>2, RangeInduction, WidthAssumption
<1>4. Groups \in S /\ Groups >= Groups - 3
  BY <1>3, WidthAssumption
<1> HIDE DEF Zeros
<1> QED BY <1>4

\* Among all addresses exactly those that hold an IPv4 address are printed as
\* "::ffff:x.x.x.x", whatever the object has been through.
THEOREM MappedIsDottedHolds == Spec => []MappedIsDotted
<1>1. ip \in IPs => MappedIsDotted
  <2> SUFFICES ASSUME ip \in IPs PROVE MappedIsDotted
    OBVIOUS
  <2>1. PICK r : IsPrinting(r, ip, TRUE, FALSE) /\ to_str(ip, TRUE, FALSE) = r[Groups].text
    BY Printing
  <2>2. is_ip4(ip) => r[Groups].text = MappedText(ip)
    BY <2>1, EveryMapped
  <2>3. r[Groups].text = MappedText(ip) => is_ip4(ip)
    BY <2>1, OnlyMapped
  <2> QED BY <2>1, <2>2, <2>3 DEF MappedIsDotted, MappedText
<1> QED BY <1>1, Ip6ObjectIsAddress, PTL

-----------------------------------------------------------------------------
(* What to_str writes is read back *)

\* Digits are read as a number, behind a group that ends or one that begins.
LEMMA DigitsParsed ==
  ASSUME NEW s \in Seq(Int), NEW d \in Seq(Digit) \ {<<>>}, NEW b, b = AtEnd(Parsed(s)), b \in Checked,
         b.state # "error", ~ b.pending, b.accum_hex = 0, b.accum_dec = 0
  PROVE  /\ s \o d \in Seq(Int)
         /\ Parsed(s \o d) = [b EXCEPT !.state = "proc", !.accum_hex = Value(d, HexBase) % Word,
                                       !.accum_dec = Value(d, DecBase) % Word]
<1> DEFINE e(k) == SubSeq(d, 1, k)
           At(w) == [b EXCEPT !.state = "proc", !.accum_hex = Value(w, HexBase) % Word,
                              !.accum_dec = Value(w, DecBase) % Word]
           Good(k) == k # 0 => Parsed(s \o e(k)) = At(e(k))
           S == {k \in 0 .. Len(d) : Good(k)}
<1>0. Digit \subseteq Nat /\ Digit \subseteq Int /\ Digit \in SUBSET Nat
  BY Marks
<1>1. Len(d) \in Nat /\ Len(d) # 0 /\ d \in Seq(Int) /\ \A k \in 1 .. Len(d) : d[k] \in Digit
  <2>1. d \in Seq(Int)
    BY <1>0, SeqOver
  <2> QED BY <2>1
<1>2. ASSUME NEW w \in Seq(Digit) PROVE w \in Seq(Nat) /\ w \in Seq(Int)
  BY <1>0, SeqOver
<1>3. ASSUME NEW q, q.state # "error", NEW c \in Digit
      PROVE  Settled(q, c) = [q EXCEPT !.state = "proc", !.accum_hex = (q.accum_hex * HexBase + c) % Word,
                                       !.accum_dec = (q.accum_dec * DecBase + c) % Word]
  <2>1. c # Colon /\ c # Dot
    BY Marks
  <2> QED BY <1>3, <2>1 DEF Settled, ReadDigit
<1>4. 0 \in S
  BY <1>1
<1>5. ASSUME NEW k \in 1 .. Len(d), k - 1 \in S PROVE k \in S
  <2> DEFINE w == e(k - 1)
             c == d[k]
  <2>1. k \in 0 .. Len(d) /\ k - 1 \in 0 .. Len(d) /\ c \in Digit /\ w \in Seq(Digit) /\ e(k) = Append(w, c)
    BY <1>1
  <2>2. w \in Seq(Int) /\ w \in Seq(Nat) /\ c \in Int /\ c \in Nat /\ c # Colon
    BY <1>0, <1>2, <2>1, Marks
  <2>3. k = 1 => w = <<>>
    BY <1>1
  <2>4. k # 1 => Parsed(s \o w) = At(w)
    BY <1>5
  <2> HIDE DEF w, c, e
  <2>5. s \o e(k) = Append(s \o w, c) /\ s \o w \in Seq(Int)
    BY <2>1, <2>2, MoreBehind
  <2>6. Parsed(s \o e(k)) = Read(Parsed(s \o w), c)
    BY <2>2, <2>5, ParsedSteps
  <2>7. /\ Value(w, HexBase) \in Nat /\ Value(w, DecBase) \in Nat
        /\ Value(e(k), HexBase) = Value(w, HexBase) * HexBase + c
        /\ Value(e(k), DecBase) = Value(w, DecBase) * DecBase + c
    <3>1. ASSUME NEW base \in Nat
          PROVE  Value(w, base) \in Nat /\ Value(Append(w, c), base) = Value(w, base) * base + c
      BY <2>2, ValueSteps
    <3> QED BY <2>1, <3>1, BaseAssumption
  <2>8. /\ ((Value(w, HexBase) % Word) * HexBase + c) % Word = Value(e(k), HexBase) % Word
        /\ ((Value(w, DecBase) % Word) * DecBase + c) % Word = Value(e(k), DecBase) % Word
    <3>1. ((Value(w, HexBase) % Word) * HexBase + c) % Word = (Value(w, HexBase) * HexBase + c) % Word
      BY <2>2, <2>7, WordStep, BaseAssumption, Zenon
    <3>2. ((Value(w, DecBase) % Word) * DecBase + c) % Word = (Value(w, DecBase) * DecBase + c) % Word
      BY <2>2, <2>7, WordStep, BaseAssumption, Zenon
    <3> QED BY <2>7, <3>1, <3>2
  <2>9. Parsed(s \o e(k)) = At(e(k))
    <3>1. CASE k = 1
      <4>1. s \o w = s
        BY <2>3, <3>1
      <4>2. Read(Parsed(s), c) = Settled(b, c)
        BY <2>2 DEF Read, AtEnd
      <4>3. Value(w, HexBase) = 0 /\ Value(w, DecBase) = 0 /\ 0 % Word = 0
        BY <2>3, <3>1, ValueSteps, BaseAssumption, WordPositive
      <4>4. Settled(b, c) = [b EXCEPT !.state = "proc", !.accum_hex = (0 * HexBase + c) % Word,
                                      !.accum_dec = (0 * DecBase + c) % Word]
        <5>1. Settled(b, c) = [b EXCEPT !.state = "proc", !.accum_hex = (b.accum_hex * HexBase + c) % Word,
                                        !.accum_dec = (b.accum_dec * DecBase + c) % Word]
          BY <1>3, <2>1, Zenon
        <5> QED BY <5>1, Zenon
      <4> QED BY <2>6, <2>8, <4>1, <4>2, <4>3, <4>4
    <3>2. CASE k # 1
      <4>1. Parsed(s \o w) = At(w) /\ Parsed(s \o w) \in Checked
        BY <2>4, <2>5, <3>2, ParsedSteps
      <4> DEFINE q == Parsed(s \o w)
      <4>2. /\ q.state = "proc" /\ q.pending = FALSE /\ q.accum_hex = Value(w, HexBase) % Word
            /\ q.accum_dec = Value(w, DecBase) % Word /\ q.result_hex = b.result_hex
            /\ q.result_dec = b.result_dec /\ q.separator = b.separator
        BY <4>1 DEF Checked, Parsers
      <4> HIDE DEF q
      <4>3. q \in Checked /\ q = At(w)
        BY <4>1 DEF q
      <4>4. Read(q, c) = Settled(q, c)
        BY <4>2 DEF Read
      <4>5. Settled(q, c) = [q EXCEPT !.state = "proc", !.accum_hex = (q.accum_hex * HexBase + c) % Word,
                                      !.accum_dec = (q.accum_dec * DecBase + c) % Word]
        <5>1. q.state # "error"
          BY <4>2
        <5> QED BY <1>3, <2>1, <5>1, Zenon
      <4>6. Settled(q, c) = [q EXCEPT !.state = "proc", !.accum_hex = Value(e(k), HexBase) % Word,
                                      !.accum_dec = Value(e(k), DecBase) % Word]
        BY <2>8, <4>2, <4>5
      <4>7. ASSUME NEW x, NEW y
            PROVE  [q EXCEPT !.state = "proc", !.accum_hex = x, !.accum_dec = y]
                     = [b EXCEPT !.state = "proc", !.accum_hex = x, !.accum_dec = y]
        BY <4>3 DEF Checked, Parsers
      <4> QED BY <2>6, <4>4, <4>6, <4>7 DEF q
    <3> QED BY <3>1, <3>2
  <2> QED BY <2>1, <2>9
<1>6. Good(Len(d))
  <2>1. 0 .. Len(d) \subseteq S
    <3> HIDE DEF S
    <3> QED BY <1>1, <1>4, <1>5, RangeInduction
  <2> HIDE DEF Good
  <2> QED BY <1>1, <2>1
<1>7. e(Len(d)) = d
  BY <1>1
<1>8. s \o d \in Seq(Int)
  BY <1>1, MoreBehind
<1> QED BY <1>1, <1>6, <1>7, <1>8

\* Where "::" stood, as Expand takes it.
Gap(q) == IF q.separator = NoSeparator THEN 0 ELSE q.separator

\* The groups that were read are the first n of a, z of them zeros left out
\* behind the gap.
Fits(q, a, n, z) ==
  /\ z \in 0 .. n /\ Len(q.result_hex) = n - z /\ Gap(q) + z <= n
  /\ q.separator = NoSeparator => z = 0
  /\ \A j \in 1 .. n - z : q.result_hex[j] = a[IF j <= Gap(q) THEN j ELSE j + z]
  /\ \A j \in Gap(q) + 1 .. Gap(q) + z : a[j] = 0

\* The automaton is in front of group n + 1,
Ready(q, a, n, z) ==
  /\ q \in Checked /\ q.pending = FALSE /\ q.state # "error"
  /\ q.accum_hex = 0 /\ q.accum_dec = 0 /\ q.result_dec = <<>>
  /\ Fits(q, a, n, z)

\* or behind the digits of group n.
Written(q, a, n, z) ==
  /\ q \in Checked /\ q.state = "proc" /\ q.accum_hex = a[n] /\ q.result_dec = <<>>
  /\ Fits(q, a, n - 1, z)

LEMMA CheckedParts ==
  ASSUME NEW q \in Checked
  PROVE  /\ q \in Parsers /\ InBounds(q) /\ q.result_hex \in Seq(Group) /\ Len(q.result_hex) \in Nat
         /\ q.separator \in Int /\ q.separator >= NoSeparator /\ q.separator <= Len(q.result_hex)
         /\ Gap(q) \in Nat /\ Gap(q) <= Len(q.result_hex) /\ Len(q.result_hex) < Groups
BY WidthAssumption DEF Checked, InBounds, Parsers, NoSeparator, Gap

\* Only these two fields matter.
LEMMA FitsSame ==
  ASSUME NEW q, NEW r, r.result_hex = q.result_hex, r.separator = q.separator,
         NEW a, NEW n, NEW z, Fits(q, a, n, z)
  PROVE  Fits(r, a, n, z)
BY DEF Fits, Gap

\* A group is added,
LEMMA FitsPush ==
  ASSUME NEW a, NEW n \in Nat \ {0}, NEW z, NEW q, NEW r, Fits(q, a, n - 1, z),
         q.result_hex \in Seq(Group), Gap(q) \in Nat,
         r.result_hex = Append(q.result_hex, a[n]), r.separator = q.separator, a[n] \in Group
  PROVE  Fits(r, a, n, z)
<1> DEFINE h == q.result_hex
           g == Gap(q)
<1>1. /\ z \in 0 .. n - 1 /\ Len(h) = n - 1 - z /\ g + z <= n - 1 /\ (q.separator = NoSeparator => z = 0)
      /\ \A j \in 1 .. n - 1 - z : h[j] = a[IF j <= g THEN j ELSE j + z]
      /\ \A j \in g + 1 .. g + z : a[j] = 0
  BY DEF Fits
<1>2. h \in Seq(Group) /\ g \in Nat
  OBVIOUS
<1>3. Gap(r) = g
  BY DEF Gap
<1> HIDE DEF h, g
<1>4. /\ Len(Append(h, a[n])) = n - z /\ Append(h, a[n])[n - z] = a[n]
      /\ \A j \in 1 .. n - 1 - z : Append(h, a[n])[j] = h[j]
  <2>1. Len(Append(h, a[n])) = Len(h) + 1 /\ Append(h, a[n])[Len(h) + 1] = a[n]
        /\ \A j \in 1 .. Len(h) : Append(h, a[n])[j] = h[j]
    BY <1>2
  <2>2. Len(h) + 1 = n - z /\ Len(h) = n - 1 - z
    BY <1>1
  <2> QED BY <2>1, <2>2
<1>5. ASSUME NEW j \in 1 .. n - z PROVE Append(h, a[n])[j] = a[IF j <= g THEN j ELSE j + z]
  <2>1. CASE j = n - z
    <3>1. ~ (j <= g) /\ j + z = n
      BY <1>1, <1>2, <2>1
    <3> QED BY <1>4, <2>1, <3>1
  <2>2. CASE j # n - z
    <3>1. j \in 1 .. n - 1 - z
      BY <1>1, <2>2
    <3> QED BY <1>1, <1>4, <3>1
  <2> QED BY <2>1, <2>2
<1>6. z \in 0 .. n /\ g + z <= n
  BY <1>1, <1>2
<1>7. r.result_hex = Append(h, a[n])
  BY DEF h
<1> QED BY <1>1, <1>3, <1>4, <1>5, <1>6, <1>7 DEF Fits

\* the gap is put behind the last one,
LEMMA FitsMark ==
  ASSUME NEW a, NEW n \in Nat, NEW q, NEW r, Fits(q, a, n, 0), q.separator = NoSeparator,
         r.result_hex = q.result_hex, r.separator = n
  PROVE  Fits(r, a, n, 0)
<1>1. Gap(q) = 0 /\ Gap(r) = n
  BY DEF Gap, NoSeparator
<1>2. /\ Len(q.result_hex) = n
      /\ \A j \in 1 .. n : q.result_hex[j] = a[IF j <= 0 THEN j ELSE j + 0]
  BY <1>1 DEF Fits
<1>3. ASSUME NEW j \in 1 .. n PROVE r.result_hex[j] = a[IF j <= n THEN j ELSE j + 0]
  BY <1>2
<1>4. n + 1 .. n + 0 = {} /\ n - 0 = n /\ n + 0 = n /\ 0 \in 0 .. n
  OBVIOUS
<1> QED BY <1>1, <1>2, <1>3, <1>4 DEF Fits

\* and one more zero is left out there.
LEMMA FitsSkip ==
  ASSUME NEW a, NEW n \in Nat \ {0}, NEW z, NEW q \in Checked, Fits(q, a, n - 1, z),
         q.separator = n - 1 - z, a[n] = 0
  PROVE  Fits(q, a, n, z + 1) /\ z + 1 \in Nat /\ z + 1 >= 1 /\ q.separator = n - (z + 1)
<1> DEFINE h == q.result_hex
           g == Gap(q)
<1>1. /\ z \in 0 .. n - 1 /\ Len(h) = n - 1 - z
      /\ \A j \in 1 .. n - 1 - z : h[j] = a[IF j <= g THEN j ELSE j + z]
      /\ \A j \in g + 1 .. g + z : a[j] = 0
  BY DEF Fits
<1>2. q.separator # NoSeparator /\ g = n - 1 - z
  BY <1>1 DEF Gap, NoSeparator
<1> HIDE DEF h, g
<1>3. ASSUME NEW j \in 1 .. n - (z + 1) PROVE h[j] = a[IF j <= g THEN j ELSE j + (z + 1)]
  BY <1>1, <1>2
<1>4. ASSUME NEW j \in g + 1 .. g + (z + 1) PROVE a[j] = 0
  <2>1. CASE j = n
    BY <2>1
  <2>2. CASE j # n
    BY <1>1, <1>2, <2>2
  <2> QED BY <2>1, <2>2
<1>5. z + 1 \in 0 .. n /\ Len(h) = n - (z + 1) /\ g + (z + 1) <= n /\ q.separator = n - (z + 1) /\ z + 1 >= 1
  BY <1>1, <1>2
<1> QED BY <1>2, <1>3, <1>4, <1>5 DEF Fits, h, g

\* A text that ends with group n and perhaps a colon, or with the gap.
Ends(t, a, n, z, pending, separator) ==
  /\ t \in Seq(Int) /\ Written(Parsed(t), a, n, z)
  /\ Parsed(t).pending = pending /\ Parsed(t).separator = separator
Opens(t, a, n) == t \in Seq(Int) /\ Ready(Parsed(t), a, n, 0) /\ Parsed(t).separator = n

\* A group that was printed is read.
LEMMA NumberParsed ==
  ASSUME NEW a \in IPs, NEW n \in 1 .. Groups, NEW z, NEW s \in Seq(Int), NEW b, b = AtEnd(Parsed(s)),
         Ready(b, a, n - 1, z)
  PROVE  Ends(s \o DigitsOf(a[n], HexBase), a, n, z, FALSE, b.separator)
<1> DEFINE d == DigitsOf(a[n], HexBase)
           q == Parsed(s \o d)
<1>1. d \in Seq(Digit) \ {<<>>} /\ Value(d, HexBase) % Word = a[n]
  BY GroupText DEF IPs
<1> HIDE DEF d
<1>2. /\ b \in Checked /\ b.state # "error" /\ ~ b.pending /\ b.accum_hex = 0 /\ b.accum_dec = 0
      /\ b.pending = FALSE /\ b.result_dec = <<>> /\ Fits(b, a, n - 1, z)
  BY DEF Ready
<1>3. /\ s \o d \in Seq(Int)
      /\ q = [b EXCEPT !.state = "proc", !.accum_hex = Value(d, HexBase) % Word,
                       !.accum_dec = Value(d, DecBase) % Word]
  BY <1>1, <1>2, DigitsParsed
<1>4. q \in Checked
  BY <1>3, ParsedSteps
<1> HIDE DEF q
<1>5. /\ q.state = "proc" /\ q.accum_hex = a[n] /\ q.result_dec = <<>> /\ q.pending = FALSE
      /\ q.result_hex = b.result_hex /\ q.separator = b.separator
  BY <1>1, <1>2, <1>3 DEF Checked, Parsers
<1>6. Fits(q, a, n - 1, z)
  BY <1>2, <1>5, FitsSame
<1>7. Written(q, a, n, z)
  BY <1>4, <1>5, <1>6 DEF Written
<1> QED BY <1>3, <1>5, <1>7 DEF Ends, q, d

\* A colon behind it waits for the next character,
LEMMA ColonParsed ==
  ASSUME NEW a, NEW n, NEW z, NEW s \in Seq(Int), Written(Parsed(s), a, n, z), Parsed(s).pending = FALSE
  PROVE  Ends(s \o <<Colon>>, a, n, z, TRUE, Parsed(s).separator)
<1> DEFINE q == Parsed(s)
           r == Parsed(Append(s, Colon))
<1>1. Colon \in Int /\ Append(s, Colon) \in Seq(Int) /\ s \o <<Colon>> = Append(s, Colon)
  BY DEF Colon
<1>2. q \in Checked /\ q.state = "proc" /\ q.pending = FALSE
  BY DEF Written
<1>3. r = Read(q, Colon) /\ r \in Checked
  BY <1>1, ParsedSteps
<1> HIDE DEF q, r
<1>4. Read(q, Colon) = [q EXCEPT !.pending = TRUE]
  BY <1>2 DEF Read, Settled
<1>5. /\ r.state = q.state /\ r.accum_hex = q.accum_hex /\ r.result_dec = q.result_dec /\ r.pending = TRUE
      /\ r.result_hex = q.result_hex /\ r.separator = q.separator
  BY <1>2, <1>3, <1>4 DEF Checked, Parsers
<1>6. Fits(r, a, n - 1, z)
  BY <1>5, FitsSame DEF Written, q
<1>7. Written(r, a, n, z)
  BY <1>3, <1>5, <1>6 DEF Written, q
<1> QED BY <1>1, <1>5, <1>7 DEF Ends, q, r

\* which makes it a group
LEMMA WrittenEnds ==
  ASSUME NEW a \in IPs, NEW n \in 1 .. Groups - 1, NEW z, NEW q, Written(q, a, n, z), q.pending = TRUE
  PROVE  /\ AtEnd(q) = PushGroup(q) /\ GroupEnds(q) /\ Ready(AtEnd(q), a, n, z)
         /\ AtEnd(q).separator = q.separator
<1>1. /\ q \in Checked /\ q.state = "proc" /\ q.accum_hex = a[n] /\ q.result_dec = <<>>
      /\ Fits(q, a, n - 1, z) /\ InBounds(q) /\ q \in Parsers
  BY CheckedParts DEF Written
<1>2. a[n] \in Group /\ n \in Nat \ {0} /\ n < Groups /\ n \in Nat
  BY WidthAssumption DEF IPs
<1>3. GroupEnds(q)
  <2>1. a[n] <= Ones
    <3>1. PICK w \in Nat \ {0} : w = Octet * Octet
      BY WordPositive
    <3>2. a[n] \in 0 .. w - 1
      BY <1>2, <3>1 DEF Group
    <3>3. Ones = w - 1
      BY <3>1 DEF Ones
    <3> QED BY <3>1, <3>2, <3>3
  <2>2. Len(q.result_hex) < Groups - 1
    BY <1>1, <1>2, WidthAssumption DEF Fits
  <2> QED BY <1>1, <2>1, <2>2 DEF GroupEnds
<1> DEFINE r == PushGroup(q)
<1>4. AtEnd(q) = r
  BY <1>1, <1>3 DEF AtEnd, SingleColon
<1>5. InBounds(r) /\ r \in Checked
  BY <1>1, <1>3, PushGroupType DEF Checked, InBounds
<1>6. r = [q EXCEPT !.result_hex = Append(q.result_hex, q.accum_hex), !.accum_hex = 0, !.accum_dec = 0,
                    !.pending = FALSE]
  BY DEF PushGroup
<1> HIDE DEF r
<1>7. /\ r.state = "proc" /\ r.accum_hex = 0 /\ r.accum_dec = 0 /\ r.pending = FALSE /\ r.result_dec = <<>>
      /\ r.separator = q.separator /\ r.result_hex = Append(q.result_hex, a[n])
  BY <1>1, <1>6 DEF Parsers
<1>8. Fits(r, a, n, z)
  BY <1>1, <1>2, <1>7, CheckedParts, FitsPush
<1>9. Ready(r, a, n, z)
  BY <1>5, <1>7, <1>8 DEF Ready
<1> QED BY <1>3, <1>4, <1>7, <1>9 DEF r

\* or, with a second one, the place of the gap.
LEMMA GapParsed ==
  ASSUME NEW a \in IPs, NEW n \in 1 .. Groups - 1, NEW z, NEW s \in Seq(Int), Written(Parsed(s), a, n, z),
         Parsed(s).pending = TRUE, Parsed(s).separator = NoSeparator
  PROVE  Opens(s \o <<Colon>>, a, n)
<1> DEFINE q == Parsed(s)
           r == Parsed(Append(s, Colon))
           x == PushGroup(q)
<1>1. Colon \in Int /\ Append(s, Colon) \in Seq(Int) /\ s \o <<Colon>> = Append(s, Colon)
  BY DEF Colon
<1>2. q \in Checked /\ q.state = "proc"
  BY DEF Written
<1>3. r = Read(q, Colon) /\ r \in Checked
  BY <1>1, ParsedSteps
<1>4. GroupEnds(q) /\ Ready(x, a, n, z) /\ x.separator = NoSeparator
  BY WrittenEnds
<1>5. z = 0
  BY <1>4 DEF Ready, Fits
<1> HIDE DEF x
<1>6. Read(q, Colon) = [x EXCEPT !.separator = Len(x.result_hex)]
  BY <1>2, <1>4 DEF Read, DoubleColon, x
<1> HIDE DEF q, r
<1>7. Len(x.result_hex) = n /\ n \in Nat
  <2>1. Len(x.result_hex) = n - z
    BY <1>4 DEF Ready, Fits
  <2> QED BY <1>5, <2>1
<1>8. /\ r.state = x.state /\ r.accum_hex = x.accum_hex /\ r.accum_dec = x.accum_dec /\ r.pending = x.pending
      /\ r.result_dec = x.result_dec /\ r.separator = n /\ r.result_hex = x.result_hex
  BY <1>3, <1>4, <1>6, <1>7 DEF Ready, Checked, Parsers
<1>9. Fits(r, a, n, 0)
  BY <1>4, <1>5, <1>7, <1>8, FitsMark DEF Ready
<1>10. Ready(r, a, n, 0)
  BY <1>3, <1>4, <1>8, <1>9 DEF Ready
<1> QED BY <1>1, <1>8, <1>10 DEF Opens, r

LEMMA PendingAgain ==
  ASSUME NEW x \in Parsers, x.pending = FALSE
  PROVE  LET q == [x EXCEPT !.pending = TRUE]
         IN  /\ [q EXCEPT !.pending = FALSE] = x /\ q.pending = TRUE /\ q.separator = x.separator
             /\ q.state = x.state /\ q.result_dec = x.result_dec /\ q.result_hex = x.result_hex
             /\ q.accum_hex = x.accum_hex
BY DEF Parsers

LEMMA FreshParsed ==
  ASSUME NEW a
  PROVE  /\ Ready(Parsed(<<>>), a, 0, 0) /\ Parsed(<<>>).separator = NoSeparator
         /\ Ready(Parsed(<<Colon, Colon>>), a, 0, 0) /\ Parsed(<<Colon, Colon>>).separator = 0
<1>0. Colon \in Int /\ <<>> \in Seq(Int) /\ <<Colon>> \in Seq(Int)
  BY DEF Colon
<1>1. Parsed(<<>>) = NewParser /\ NewParser \in Checked
  BY ParsedSteps, NewParserType DEF Checked
<1>2. Fits(NewParser, a, 0, 0)
  BY DEF Fits, Gap, NewParser, NoSeparator
<1>3. Ready(NewParser, a, 0, 0) /\ NewParser.separator = NoSeparator
  BY <1>1, <1>2 DEF Ready, NewParser
<1> DEFINE q == [NewParser EXCEPT !.pending = TRUE]
           r == [NewParser EXCEPT !.separator = 0]
<1>4. Parsed(<<Colon>>) = q
  <2>1. <<Colon>> = Append(<<>>, Colon)
    BY <1>0
  <2>2. Read(NewParser, Colon) = q
    BY DEF Read, Settled, NewParser
  <2> QED BY <1>0, <1>1, <2>1, <2>2, ParsedSteps
<1>5. Parsed(<<Colon, Colon>>) = r /\ r \in Checked
  <2>1. <<Colon, Colon>> = Append(<<Colon>>, Colon)
    BY <1>0
  <2>2. GroupEnds(q)
    BY WordPositive, WidthAssumption DEF GroupEnds, NewParser, Ones
  <2>3. DoubleColon(q) = r
    <3>1. q.separator = NoSeparator /\ q.state = "start" /\ [q EXCEPT !.pending = FALSE] = NewParser
      <4>1. NewParser.separator = NoSeparator /\ NewParser.state = "start" /\ NewParser.pending = FALSE
        BY DEF NewParser
      <4>2. NewParser \in Parsers
        BY NewParserType
      <4> QED BY <4>1, <4>2, PendingAgain, Zenon
    <3>2. Len(NewParser.result_hex) = 0
      BY DEF NewParser
    <3> HIDE DEF q
    <3> QED BY <2>2, <3>1, <3>2 DEF DoubleColon
  <2>4. Read(q, Colon) = r
    BY <2>3 DEF Read, NewParser
  <2> HIDE DEF q, r
  <2>5. Parsed(<<Colon, Colon>>) = r
    BY <1>0, <1>4, <2>1, <2>4, ParsedSteps
  <2>6. <<Colon, Colon>> \in Seq(Int)
    BY <1>0
  <2> QED BY <2>5, <2>6, ParsedSteps
<1>6. r.result_hex = NewParser.result_hex /\ r.separator = 0
  BY DEF NewParser
<1>7. Fits(r, a, 0, 0)
  <2> HIDE DEF r
  <2> QED BY <1>2, <1>3, <1>6, FitsMark
<1>8. Ready(r, a, 0, 0)
  BY <1>5, <1>7 DEF Ready, NewParser
<1> QED BY <1>1, <1>3, <1>5, <1>6, <1>8

\* All groups are there: the zeros go into the gap.
LEMMA FitsAll ==
  ASSUME NEW a \in IPs, NEW z, NEW q, Fits(q, a, Groups, z), Gap(q) \in Nat
  PROVE  Expand(q.result_hex, q.separator) = a
<1> DEFINE g == q.result_hex
           at == Gap(q)
           missing == Groups - Len(g)
<1>1. /\ z \in 0 .. Groups /\ Len(g) = Groups - z /\ at + z <= Groups /\ at \in Nat
      /\ \A j \in 1 .. Groups - z : g[j] = a[IF j <= at THEN j ELSE j + z]
      /\ \A j \in at + 1 .. at + z : a[j] = 0
  BY DEF Fits
<1>2. Expand(g, q.separator) = [j \in 1 .. Groups |-> IF j <= at THEN g[j]
                                  ELSE IF j <= at + missing THEN 0 ELSE g[j - missing]]
  BY DEF Expand, Gap
<1>3. missing = z
  BY <1>1, WidthAssumption
<1> HIDE DEF g, at, missing
<1>4. ASSUME NEW j \in 1 .. Groups
      PROVE  (IF j <= at THEN g[j] ELSE IF j <= at + z THEN 0 ELSE g[j - z]) = a[j]
  <2>1. CASE j <= at
    <3>1. j \in 1 .. Groups - z
      BY <1>1, <2>1, WidthAssumption
    <3> QED BY <1>1, <2>1, <3>1
  <2>2. CASE ~ (j <= at) /\ j <= at + z
    <3>1. j \in at + 1 .. at + z
      BY <1>1, <2>2
    <3> QED BY <1>1, <2>2, <3>1
  <2>3. CASE ~ (j <= at) /\ ~ (j <= at + z)
    <3>1. j - z \in 1 .. Groups - z /\ ~ (j - z <= at) /\ j - z + z = j
      BY <1>1, <2>3, WidthAssumption
    <3>2. g[j - z] = a[j - z + z]
      BY <1>1, <3>1
    <3> QED BY <2>3, <3>1, <3>2
  <2> QED BY <2>1, <2>2, <2>3
<1>5. a = [j \in 1 .. Groups |-> a[j]]
  BY DEF IPs
<1>6. Expand(g, q.separator) = [j \in 1 .. Groups |-> a[j]]
  BY <1>2, <1>3, <1>4
<1> QED BY <1>5, <1>6 DEF g

\* A text that ends with a group,
LEMMA FinishWritten ==
  ASSUME NEW a \in IPs, NEW z, NEW q, Written(q, a, Groups, z), q.pending = FALSE
  PROVE  Finish(q) = [ip |-> a, success |-> TRUE]
<1>1. /\ q \in Checked /\ q.state = "proc" /\ q.accum_hex = a[Groups] /\ q.result_dec = <<>>
      /\ Fits(q, a, Groups - 1, z)
  BY DEF Written
<1>2. a[Groups] \in Group /\ Groups \in Nat \ {0}
  BY WidthAssumption DEF IPs
<1>3. ~ (a[Groups] > Ones)
  <2>1. PICK w \in Nat \ {0} : w = Octet * Octet
    BY WordPositive
  <2>2. a[Groups] \in 0 .. w - 1
    BY <1>2, <2>1 DEF Group
  <2>3. Ones = w - 1
    BY <2>1 DEF Ones
  <2> QED BY <2>1, <2>2, <2>3
<1>4. AtEnd(q) = q
  BY DEF AtEnd
<1>5. ~ Refused(q)
  BY <1>1, <1>3 DEF Refused
<1> DEFINE x == [result_hex |-> Append(q.result_hex, a[Groups]), separator |-> q.separator]
<1>6. AllGroups(q) = x.result_hex /\ x.separator = q.separator /\ x.result_hex = Append(q.result_hex, a[Groups])
  BY <1>1 DEF AllGroups
<1>7. q.result_hex \in Seq(Group) /\ Gap(q) \in Nat /\ Gap(x) = Gap(q)
  BY <1>1, CheckedParts DEF Gap
<1> HIDE DEF x
<1>8. Fits(x, a, Groups, z)
  BY <1>1, <1>2, <1>6, <1>7, FitsPush
<1>9. Expand(x.result_hex, x.separator) = a
  BY <1>7, <1>8, FitsAll
<1> QED BY <1>4, <1>5, <1>6, <1>9 DEF Finish

\* with the gap
LEMMA FinishGap ==
  ASSUME NEW a \in IPs, NEW z \in Nat \ {0}, NEW q, Ready(q, a, Groups, z), q.separator = Groups - z
  PROVE  Finish(q) = [ip |-> a, success |-> TRUE]
<1>1. /\ q \in Checked /\ q.pending = FALSE /\ q.state # "error" /\ q.accum_hex = 0 /\ q.result_dec = <<>>
      /\ Fits(q, a, Groups, z)
  BY DEF Ready
<1>2. q.result_hex \in Seq(Group) /\ Gap(q) \in Nat
  BY <1>1, CheckedParts
<1>3. /\ z \in 1 .. Groups /\ q.separator # NoSeparator /\ Gap(q) = Groups - z
      /\ Len(q.result_hex) = Groups - z
  BY <1>1, WidthAssumption DEF Fits, Gap, NoSeparator
<1>4. a[Groups] = 0 /\ Fits(q, a, Groups - 1, z - 1)
  <2> DEFINE g == Gap(q)
  <2>1. /\ \A j \in 1 .. Groups - z : q.result_hex[j] = a[IF j <= g THEN j ELSE j + z]
        /\ \A j \in g + 1 .. g + z : a[j] = 0
    BY <1>1 DEF Fits
  <2>2. g = Groups - z /\ Groups \in Nat
    BY <1>3, WidthAssumption
  <2> HIDE DEF g
  <2>3. Groups \in g + 1 .. g + z
    BY <1>3, <2>2
  <2>4. ASSUME NEW j \in 1 .. Groups - 1 - (z - 1)
        PROVE  q.result_hex[j] = a[IF j <= g THEN j ELSE j + (z - 1)]
    <3>1. j \in 1 .. Groups - z /\ j <= g
      BY <1>3, <2>2
    <3> QED BY <2>1, <3>1
  <2>5. ASSUME NEW j \in g + 1 .. g + (z - 1) PROVE a[j] = 0
    <3>1. j \in g + 1 .. g + z
      BY <1>3, <2>2
    <3> QED BY <2>1, <3>1
  <2>6. z - 1 \in 0 .. Groups - 1 /\ Groups - z = Groups - 1 - (z - 1) /\ g + (z - 1) <= Groups - 1
    BY <1>3, <2>2
  <2>7. Fits(q, a, Groups - 1, z - 1)
    BY <1>3, <2>4, <2>5, <2>6 DEF Fits, g
  <2> QED BY <2>1, <2>3, <2>7
<1>5. AtEnd(q) = q
  BY <1>1 DEF AtEnd
<1>6. ~ Refused(q)
  <2>1. Ones >= 0 /\ ~ (0 > Ones)
    BY WordPositive DEF Ones
  <2> QED BY <1>1, <1>3, <2>1 DEF Refused
<1> DEFINE x == [result_hex |-> Append(q.result_hex, a[Groups]), separator |-> q.separator]
<1>7. AllGroups(q) = x.result_hex /\ x.separator = q.separator /\ x.result_hex = Append(q.result_hex, a[Groups])
  BY <1>1, <1>4 DEF AllGroups
<1>8. Gap(x) = Gap(q)
  BY DEF Gap
<1>9. a[Groups] \in Group /\ Groups \in Nat \ {0}
  BY WidthAssumption DEF IPs
<1> HIDE DEF x
<1>10. Fits(x, a, Groups, z - 1)
  BY <1>2, <1>4, <1>7, <1>9, FitsPush
<1>11. Expand(x.result_hex, x.separator) = a
  BY <1>2, <1>8, <1>10, FitsAll
<1> QED BY <1>5, <1>6, <1>7, <1>11 DEF Finish

DigitsRead(b, d, t) ==
  /\ t \in Seq(Int)
  /\ Parsed(t) = [b EXCEPT !.state = "proc", !.accum_hex = Value(d, HexBase) % Word,
                            !.accum_dec = Value(d, DecBase) % Word]

LEMMA DigitsReadBehind ==
  ASSUME NEW s \in Seq(Int), NEW d \in Seq(Digit) \ {<<>>}, NEW b, b = AtEnd(Parsed(s)), b \in Checked,
         b.state # "error", ~ b.pending, b.accum_hex = 0, b.accum_dec = 0
  PROVE  DigitsRead(b, d, s \o d)
BY DigitsParsed DEF DigitsRead

\* A byte of the dotted end and the dot behind it.
OctetRead(b, n, t, y) ==
  /\ t \in Seq(Int) /\ y \in Checked /\ y = AtEnd(Parsed(t)) /\ y.state = "proc" /\ y.pending = FALSE
  /\ y.accum_hex = 0 /\ y.accum_dec = 0 /\ y.result_dec = Append(b.result_dec, n)
  /\ y.result_hex = b.result_hex /\ y.separator = b.separator

LEMMA OctetParsed ==
  ASSUME NEW s \in Seq(Int), NEW b, b = AtEnd(Parsed(s)), b \in Checked, b.state # "error",
         b.pending = FALSE, b.accum_hex = 0, b.accum_dec = 0, Len(b.result_dec) < 3, NEW n \in Byte,
         NEW t, t = s \o DigitsOf(n, DecBase) \o <<Dot>>, NEW y, y = Parsed(t)
  PROVE  OctetRead(b, n, t, y)
<1> DEFINE d == DigitsOf(n, DecBase)
           u == s \o d
           x == Parsed(u)
           q == Parsed(Append(u, Dot))
<1>1. d \in Seq(Digit) \ {<<>>} /\ Value(d, DecBase) % Word = n
  BY ByteText
<1> HIDE DEF d
<1>2. /\ u \in Seq(Int)
      /\ x = [b EXCEPT !.state = "proc", !.accum_hex = Value(d, HexBase) % Word,
                       !.accum_dec = Value(d, DecBase) % Word]
  BY <1>1, DigitsParsed
<1> HIDE DEF u
<1>3. u \o <<Dot>> = Append(u, Dot) /\ Append(u, Dot) \in Seq(Int) /\ Dot \in Int
  BY <1>2, Marks
<1>4. q = Read(x, Dot) /\ q \in Checked /\ x \in Checked
  BY <1>2, <1>3, ParsedSteps
<1> HIDE DEF x, q
<1>5. /\ x.state = "proc" /\ x.pending = FALSE /\ x.accum_dec = n /\ x.result_dec = b.result_dec
      /\ x.result_hex = b.result_hex /\ x.separator = b.separator
  BY <1>1, <1>2 DEF Checked, Parsers
<1>6. Read(x, Dot) = ReadDot(x)
  BY <1>5, Marks DEF Read, Settled
<1>7. n < Octet
  BY WidthAssumption DEF Byte
<1>8. ReadDot(x) = [x EXCEPT !.result_dec = Append(x.result_dec, n), !.accum_dec = 0, !.accum_hex = 0]
  BY <1>5, <1>7 DEF ReadDot
<1>9. /\ q.state = "proc" /\ q.pending = FALSE /\ q.accum_hex = 0 /\ q.accum_dec = 0
      /\ q.result_dec = Append(b.result_dec, n) /\ q.result_hex = b.result_hex /\ q.separator = b.separator
  BY <1>4, <1>5, <1>6, <1>8 DEF Checked, Parsers
<1>10. AtEnd(q) = q
  BY <1>9 DEF AtEnd
<1>11. t = Append(u, Dot)
  BY <1>3 DEF d, u
<1>12. y = q
  BY <1>11 DEF q
<1> QED BY <1>3, <1>4, <1>9, <1>10, <1>11, <1>12 DEF OctetRead

\* or with the dotted form of its last two groups, is read as the address it was
\* printed from.
Joined(s, x, y) == x \o y \in Seq(Int) /\ s \o (x \o y) = (s \o x) \o y

LEMMA Joins ==
  ASSUME NEW s \in Seq(Int), NEW x \in Seq(Int), NEW y \in Seq(Int)
  PROVE  Joined(s, x, y)
<1>1. x \o y \in Seq(Int)
  OBVIOUS
<1>2. (s \o x) \o y = s \o (x \o y)
  BY ConcatAssociative
<1> QED BY <1>1, <1>2 DEF Joined

JoinedAll(s, u, w1, w2, w3, w4) ==
  s \o (w1 \o u \o w2 \o u \o w3 \o u \o w4) = s \o w1 \o u \o w2 \o u \o w3 \o u \o w4

LEMMA JoinsAll ==
  ASSUME NEW s \in Seq(Int), NEW u \in Seq(Int), NEW w1 \in Seq(Int), NEW w2 \in Seq(Int),
         NEW w3 \in Seq(Int), NEW w4 \in Seq(Int)
  PROVE  JoinedAll(s, u, w1, w2, w3, w4)
<1>1. Joined(s, w1, u)
  BY Joins
<1>2. PICK v1 \in Seq(Int) : v1 = w1 \o u /\ s \o v1 = s \o w1 \o u
  BY <1>1 DEF Joined
<1>3. Joined(s, v1, w2)
  BY Joins
<1>4. PICK v2 \in Seq(Int) : v2 = v1 \o w2 /\ s \o v2 = s \o v1 \o w2
  BY <1>3 DEF Joined
<1>5. Joined(s, v2, u)
  BY Joins
<1>6. PICK v3 \in Seq(Int) : v3 = v2 \o u /\ s \o v3 = s \o v2 \o u
  BY <1>5 DEF Joined
<1>7. Joined(s, v3, w3)
  BY Joins
<1>8. PICK v4 \in Seq(Int) : v4 = v3 \o w3 /\ s \o v4 = s \o v3 \o w3
  BY <1>7 DEF Joined
<1>9. Joined(s, v4, u)
  BY Joins
<1>10. PICK v5 \in Seq(Int) : v5 = v4 \o u /\ s \o v5 = s \o v4 \o u
  BY <1>9 DEF Joined
<1>11. Joined(s, v5, w4)
  BY Joins
<1>12. s \o (v5 \o w4) = s \o v5 \o w4
  BY <1>11 DEF Joined
<1> QED BY <1>2, <1>4, <1>6, <1>8, <1>10, <1>12 DEF JoinedAll

Three(h, x, y, w) == h = <<x, y, w>>

LEMMA ThreeOctets ==
  ASSUME NEW h0, NEW h1, NEW h2, NEW h3, NEW x \in Int, NEW y \in Int, NEW w \in Int,
         h0 = <<>>, h1 = Append(h0, x), h2 = Append(h1, y), h3 = Append(h2, w)
  PROVE  Three(h3, x, y, w)
<1>1. h1 = <<x>> /\ h1 \in Seq(Int) /\ h1[1] = x /\ Len(h1) = 1
  OBVIOUS
<1>2. h2 \in Seq(Int) /\ Len(h2) = 2 /\ h2[1] = x /\ h2[2] = y
  BY <1>1
<1>3. h3 \in Seq(Int) /\ Len(h3) = 3 /\ h3[1] = x /\ h3[2] = y /\ h3[3] = w
  BY <1>2
<1>4. h3 = [j \in 1 .. 3 |-> h3[j]]
  BY <1>3
<1>5. <<x, y, w>> = [j \in 1 .. 3 |-> <<x, y, w>>[j]]
  OBVIOUS
<1>6. ASSUME NEW j \in 1 .. 3 PROVE h3[j] = <<x, y, w>>[j]
  <2>1. j = 1 \/ j = 2 \/ j = 3
    OBVIOUS
  <2> QED BY <1>3, <2>1
<1>7. h3 = <<x, y, w>>
  BY <1>4, <1>5, <1>6, Zenon
<1> QED BY <1>7 DEF Three

LEMMA AppendTwo ==
  ASSUME NEW h \in Seq(Group), NEW x \in Group, NEW y \in Group
  PROVE  h \o <<x, y>> = Append(Append(h, x), y)
OBVIOUS

LEMMA FinishQuad ==
  ASSUME NEW a \in IPs, NEW z, NEW s \in Seq(Int), NEW b, b = AtEnd(Parsed(s)),
         Ready(b, a, Groups - 2, z), b.result_hex # <<>>
  PROVE  s \o Quad(a) \in Seq(Int) /\ Finish(Parsed(s \o Quad(a))) = [ip |-> a, success |-> TRUE]
<1> DEFINE o == get_ip4(a)
<1>1. /\ o[1] \in Byte /\ o[2] \in Byte /\ o[3] \in Byte /\ o[4] \in Byte
      /\ Pair(o[1], o[2]) = a[Groups - 1] /\ Pair(o[3], o[4]) = a[Groups]
  BY OctetsOf
<1>2. PICK d1 \in Seq(Int), d2 \in Seq(Int), d3 \in Seq(Int), d4 \in Seq(Digit) \ {<<>>} :
        /\ d1 = DigitsOf(o[1], DecBase) /\ d2 = DigitsOf(o[2], DecBase) /\ d3 = DigitsOf(o[3], DecBase)
        /\ d4 = DigitsOf(o[4], DecBase) /\ d4 \in Seq(Int) /\ Value(d4, DecBase) % Word = o[4]
  BY <1>1, ByteText
<1>3. PICK t1, t2, t3, t4 : /\ t1 = s \o d1 \o <<Dot>> /\ t2 = t1 \o d2 \o <<Dot>>
                            /\ t3 = t2 \o d3 \o <<Dot>> /\ t4 = t3 \o d4
  OBVIOUS
<1>4. s \o Quad(a) = t4
  <2>1. Quad(a) = d1 \o <<Dot>> \o d2 \o <<Dot>> \o d3 \o <<Dot>> \o d4
    BY <1>2 DEF Quad
  <2>2. <<Dot>> \in Seq(Int)
    BY Marks
  <2>3. PICK u \in Seq(Int) : u = <<Dot>>
    BY <2>2
  <2>4. JoinedAll(s, u, d1, d2, d3, d4)
    BY <1>2, JoinsAll
  <2> QED BY <1>3, <2>1, <2>3, <2>4 DEF JoinedAll
<1> HIDE DEF o
<1>5. /\ b \in Checked /\ b.state # "error" /\ b.pending = FALSE /\ b.accum_hex = 0 /\ b.accum_dec = 0
      /\ b.result_dec = <<>> /\ Fits(b, a, Groups - 2, z)
  BY DEF Ready
<1>6. PICK q1, q2, q3, q : q1 = Parsed(t1) /\ q2 = Parsed(t2) /\ q3 = Parsed(t3) /\ q = Parsed(t4)
  OBVIOUS
<1>7. /\ t1 \in Seq(Int) /\ q1 \in Checked /\ q1 = AtEnd(Parsed(t1)) /\ q1.state = "proc" /\ q1.pending = FALSE
      /\ q1.accum_hex = 0 /\ q1.accum_dec = 0 /\ q1.result_dec = Append(b.result_dec, o[1])
      /\ q1.result_hex = b.result_hex /\ q1.separator = b.separator
  <2>1. Len(b.result_dec) < 3
    BY <1>5
  <2>2. t1 = s \o DigitsOf(o[1], DecBase) \o <<Dot>>
    BY <1>2, <1>3, Zenon
  <2>4. OctetRead(b, o[1], t1, q1)
    BY <1>1, <1>5, <1>6, <2>1, <2>2, OctetParsed
  <2> QED BY <2>4 DEF OctetRead
<1>8. /\ t2 \in Seq(Int) /\ q2 \in Checked /\ q2 = AtEnd(Parsed(t2)) /\ q2.state = "proc" /\ q2.pending = FALSE
      /\ q2.accum_hex = 0 /\ q2.accum_dec = 0 /\ q2.result_dec = Append(q1.result_dec, o[2])
      /\ q2.result_hex = q1.result_hex /\ q2.separator = q1.separator
  <2>1. Len(q1.result_dec) < 3
    BY <1>1, <1>5, <1>7
  <2>2. t2 = t1 \o DigitsOf(o[2], DecBase) \o <<Dot>>
    BY <1>2, <1>3, Zenon
  <2>3. q1.state # "error"
    BY <1>7
  <2>4. OctetRead(q1, o[2], t2, q2)
    BY <1>1, <1>6, <1>7, <2>1, <2>2, <2>3, OctetParsed
  <2> QED BY <2>4 DEF OctetRead
<1>9. /\ t3 \in Seq(Int) /\ q3 \in Checked /\ q3 = AtEnd(Parsed(t3)) /\ q3.state = "proc" /\ q3.pending = FALSE
      /\ q3.accum_hex = 0 /\ q3.accum_dec = 0 /\ q3.result_dec = Append(q2.result_dec, o[3])
      /\ q3.result_hex = q2.result_hex /\ q3.separator = q2.separator
  <2>1. Len(q2.result_dec) < 3
    BY <1>1, <1>5, <1>7, <1>8
  <2>2. t3 = t2 \o DigitsOf(o[3], DecBase) \o <<Dot>>
    BY <1>2, <1>3, Zenon
  <2>3. q2.state # "error"
    BY <1>8
  <2>4. OctetRead(q2, o[3], t3, q3)
    BY <1>1, <1>6, <1>8, <2>1, <2>2, <2>3, OctetParsed
  <2> QED BY <2>4 DEF OctetRead
<1>10. /\ t4 \in Seq(Int)
       /\ q = [q3 EXCEPT !.state = "proc", !.accum_hex = Value(d4, HexBase) % Word,
                         !.accum_dec = Value(d4, DecBase) % Word]
  <2>1. q3.state # "error" /\ ~ q3.pending
    BY <1>9
  <2>2. DigitsRead(q3, d4, t3 \o d4)
    BY <1>9, <2>1, DigitsReadBehind
  <2> QED BY <1>3, <1>6, <2>2 DEF DigitsRead
<1>11. /\ q.state = "proc" /\ q.pending = FALSE /\ q.accum_dec = o[4] /\ q.result_hex = b.result_hex
       /\ q.separator = b.separator /\ q.result_dec = <<o[1], o[2], o[3]>>
  <2>1. o[1] \in Int /\ o[2] \in Int /\ o[3] \in Int
    BY <1>1, WidthAssumption DEF Byte
  <2>2. q3.result_dec = <<o[1], o[2], o[3]>>
    <3>1. Three(q3.result_dec, o[1], o[2], o[3])
      <4>1. /\ b.result_dec = <<>> /\ q1.result_dec = Append(b.result_dec, o[1])
            /\ q2.result_dec = Append(q1.result_dec, o[2]) /\ q3.result_dec = Append(q2.result_dec, o[3])
        BY <1>5, <1>7, <1>8, <1>9
      <4> QED BY <2>1, <4>1, ThreeOctets, Zenon
    <3> QED BY <3>1 DEF Three
  <2>3. /\ q.state = "proc" /\ q.pending = q3.pending /\ q.accum_dec = Value(d4, DecBase) % Word
        /\ q.result_hex = q3.result_hex /\ q.separator = q3.separator /\ q.result_dec = q3.result_dec
    BY <1>9, <1>10 DEF Checked, Parsers
  <2> QED BY <1>2, <1>7, <1>8, <1>9, <2>2, <2>3
<1>12. AtEnd(q) = q
  BY <1>11 DEF AtEnd
<1>13. ~ Refused(q)
  <2>1. Len(q.result_dec) = 3 /\ q.result_dec # <<>>
    BY <1>11
  <2>2. ~ (o[4] >= Octet)
    BY <1>1, WidthAssumption DEF Byte
  <2> QED BY <1>11, <2>1, <2>2 DEF Refused
<1>14. AllGroups(q) = b.result_hex \o <<a[Groups - 1], a[Groups]>>
  <2>1. q.result_dec[1] = o[1] /\ q.result_dec[2] = o[2] /\ q.result_dec[3] = o[3] /\ q.result_dec # <<>>
    BY <1>11
  <2> QED BY <1>1, <1>11, <2>1 DEF AllGroups
<1> DEFINE x == [result_hex |-> Append(b.result_hex, a[Groups - 1]), separator |-> b.separator]
           y == [result_hex |-> Append(Append(b.result_hex, a[Groups - 1]), a[Groups]), separator |-> b.separator]
<1>15. /\ a[Groups - 1] \in Group /\ a[Groups] \in Group /\ Groups \in Nat \ {0} /\ Groups - 1 \in Nat \ {0}
       /\ Groups - 1 - 1 = Groups - 2
  BY WidthAssumption DEF IPs
<1>16. b.result_hex \in Seq(Group) /\ Gap(b) \in Nat
  BY <1>5, CheckedParts
<1>17. /\ x.result_hex = Append(b.result_hex, a[Groups - 1]) /\ x.separator = b.separator /\ Gap(x) = Gap(b)
       /\ y.result_hex = Append(x.result_hex, a[Groups]) /\ y.separator = x.separator /\ Gap(y) = Gap(b)
       /\ x.result_hex \in Seq(Group)
  <2>1. Append(b.result_hex, a[Groups - 1]) \in Seq(Group)
    BY <1>15, <1>16
  <2> QED BY <2>1 DEF Gap
<1>18. AllGroups(q) = y.result_hex
  BY <1>14, <1>15, <1>16, AppendTwo
<1> HIDE DEF x, y
<1>19. Fits(x, a, Groups - 1, z)
  BY <1>5, <1>15, <1>16, <1>17, FitsPush
<1>20. Fits(y, a, Groups, z)
  <2>1. Gap(x) \in Nat
    BY <1>16, <1>17
  <2> QED BY <1>15, <1>17, <1>19, <2>1, FitsPush
<1>21. Expand(y.result_hex, y.separator) = a
  BY <1>16, <1>17, <1>20, FitsAll
<1>22. y.separator = q.separator
  BY <1>11, <1>17
<1>23. Finish(q) = [ip |-> a, success |-> TRUE]
  BY <1>12, <1>13, <1>18, <1>21, <1>22 DEF Finish
<1> QED BY <1>4, <1>10, <1>6, <1>23

\* What the text printed for the first k groups is to the automaton: z zeros
\* are left out in a gap that is still open, or group k is the last it has seen.
InGap(t, a, k, z) == z \in Nat \ {0} /\ Ready(Parsed(t), a, k, z) /\ Parsed(t).separator = k - z
BehindGroup(t, a, k, z) ==
  /\ Written(Parsed(t), a, k, z)
  /\ (k < Groups => Parsed(t).pending = TRUE) /\ (k = Groups => Parsed(t).pending = FALSE)
Core(t, zero, a, k) ==
  /\ t \in Seq(Int)
  /\ k = 0 => t = <<>> /\ zero \in {"off", "start"}
  /\ k # 0 => t # <<>>
  /\ zero \in {"off", "start"} => Parsed(t).separator = NoSeparator
  /\ zero = "found" => \E z : InGap(t, a, k, z)
  /\ k # 0 /\ zero # "found" => \E z : BehindGroup(t, a, k, z)

\* With the end of the text, or another group, behind it, it has k groups.
Stands(t, a, k, z) ==
  Ready(AtEnd(Parsed(t)), a, k, z) /\ AtEnd(Parsed(t)).separator = Parsed(t).separator

LEMMA FrontOf ==
  ASSUME NEW a \in IPs, NEW k \in 0 .. Groups - 1, NEW t, NEW zero, Core(t, zero, a, k)
  PROVE  \E z : Stands(t, a, k, z)
<1>0. Groups \in Nat /\ k \in Nat
  BY WidthAssumption
<1>1. ASSUME NEW z, Ready(Parsed(t), a, k, z) PROVE Stands(t, a, k, z)
  <2>1. AtEnd(Parsed(t)) = Parsed(t)
    BY <1>1 DEF AtEnd, Ready
  <2> QED BY <1>1, <2>1 DEF Stands
<1>2. CASE k = 0
  <2>1. t = <<>>
    BY <1>2 DEF Core
  <2>2. Ready(Parsed(t), a, k, 0)
    BY <1>2, <2>1, FreshParsed
  <2> QED BY <1>1, <2>2
<1>3. CASE zero = "found"
  <2>1. PICK z : InGap(t, a, k, z)
    BY <1>3 DEF Core
  <2> QED BY <1>1, <2>1 DEF InGap
<1>4. CASE k # 0 /\ zero # "found"
  <2>1. PICK z : BehindGroup(t, a, k, z)
    BY <1>4 DEF Core
  <2>2. Written(Parsed(t), a, k, z) /\ Parsed(t).pending = TRUE /\ k \in 1 .. Groups - 1
    BY <1>0, <1>4, <2>1 DEF BehindGroup
  <2>3. Stands(t, a, k, z)
    BY <2>2, WrittenEnds DEF Stands
  <2> QED BY <2>3
<1> QED BY <1>2, <1>3, <1>4

LEMMA NotEmpty ==
  ASSUME NEW s \in Seq(Int), NEW d \in Seq(Int), d # <<>>
  PROVE  s \o d \in Seq(Int) /\ s \o d # <<>>
<1>1. Len(d) # 0 /\ Len(s) \in Nat /\ Len(d) \in Nat
  OBVIOUS
<1>2. s \o d \in Seq(Int) /\ Len(s \o d) = Len(s) + Len(d)
  OBVIOUS
<1>3. Len(s \o d) # 0
  BY <1>1, <1>2
<1> QED BY <1>2, <1>3

\* The loop leaves another zero out,
LEMMA CoreSkips ==
  ASSUME NEW a, NEW k \in Nat \ {0}, NEW t \in Seq(Int), t # <<>>, NEW z, Ready(Parsed(t), a, k - 1, z),
         Parsed(t).separator = k - 1 - z, a[k] = 0
  PROVE  Core(t, "found", a, k)
<1> DEFINE q == Parsed(t)
<1>1. q \in Checked /\ Fits(q, a, k - 1, z) /\ q.separator = k - 1 - z
  BY DEF Ready
<1> HIDE DEF q
<1>2. Fits(q, a, k, z + 1) /\ z + 1 \in Nat /\ z + 1 >= 1 /\ q.separator = k - (z + 1)
  BY <1>1, FitsSkip
<1>3. Ready(q, a, k, z + 1)
  BY <1>2 DEF Ready, q
<1>4. InGap(t, a, k, z + 1)
  BY <1>2, <1>3 DEF InGap, q
<1> QED BY <1>4 DEF Core

\* the first of them behind the colons it prints,
LEMMA CoreOpens ==
  ASSUME NEW a \in IPs, NEW k \in 1 .. Groups, NEW t, Core(t, "start", a, k - 1), a[k] = 0
  PROVE  /\ k = 1 => t = <<>> /\ Core(<<Colon, Colon>>, "found", a, k)
         /\ k # 1 => t # <<>> /\ Core(t \o <<Colon>>, "found", a, k)
<1>0. Groups \in Nat /\ k \in Nat \ {0}
  BY WidthAssumption
<1>1. ASSUME k = 1 PROVE t = <<>> /\ Core(<<Colon, Colon>>, "found", a, k)
  <2>1. t = <<>>
    BY <1>1 DEF Core
  <2>2. <<Colon, Colon>> \in Seq(Int) /\ <<Colon, Colon>> # <<>>
    BY DEF Colon
  <2>3. Ready(Parsed(<<Colon, Colon>>), a, k - 1, 0) /\ Parsed(<<Colon, Colon>>).separator = k - 1 - 0
    BY <1>1, FreshParsed
  <2>4. PICK x \in Seq(Int) : x = <<Colon, Colon>>
    BY <2>2
  <2>5. Core(x, "found", a, k)
    BY <1>0, <2>2, <2>3, <2>4, CoreSkips
  <2> QED BY <2>1, <2>4, <2>5
<1>2. ASSUME k # 1 PROVE t # <<>> /\ Core(t \o <<Colon>>, "found", a, k)
  <2>1. PICK m \in 1 .. Groups - 1 : m = k - 1
    BY <1>0, <1>2
  <2>2. Core(t, "start", a, m) /\ m # 0 /\ m < Groups
    BY <1>0, <2>1
  <2>3. t \in Seq(Int) /\ t # <<>> /\ Parsed(t).separator = NoSeparator
    BY <2>2 DEF Core
  <2>4. PICK z : BehindGroup(t, a, m, z)
    BY <2>2 DEF Core
  <2>5. Written(Parsed(t), a, m, z) /\ Parsed(t).pending = TRUE
    BY <2>2, <2>4 DEF BehindGroup
  <2>6. Opens(t \o <<Colon>>, a, m)
    BY <2>3, <2>5, GapParsed
  <2>7. PICK x \in Seq(Int) : x = t \o <<Colon>> /\ x # <<>>
    <3>1. <<Colon>> \in Seq(Int) /\ <<Colon>> # <<>>
      BY DEF Colon
    <3> QED BY <2>3, <3>1, NotEmpty
  <2>8. Ready(Parsed(x), a, k - 1, 0) /\ Parsed(x).separator = k - 1 - 0
    BY <2>1, <2>6, <2>7 DEF Opens
  <2>9. Core(x, "found", a, k)
    BY <1>0, <2>7, <2>8, CoreSkips
  <2> QED BY <2>3, <2>7, <2>9
<1> QED BY <1>1, <1>2

\* or it prints a group.
LEMMA CoreNumber ==
  ASSUME NEW a \in IPs, NEW k \in 1 .. Groups, NEW t, NEW old, NEW zero, Core(t, old, a, k - 1),
         zero # "found", zero \in {"off", "start"} => old \in {"off", "start"}
  PROVE  Core(t \o NumberPart(a, zero, k), zero, a, k)
<1>0. Groups \in Nat /\ k \in Nat \ {0} /\ k - 1 \in 0 .. Groups - 1 /\ t \in Seq(Int) /\ a[k] \in Group
  BY WidthAssumption DEF Core, IPs
<1> DEFINE d == DigitsOf(a[k], HexBase)
           b == AtEnd(Parsed(t))
<1>1. d \in Seq(Int) /\ d # <<>>
  BY <1>0, GroupText
<1>2. PICK z : Stands(t, a, k - 1, z)
  BY <1>0, FrontOf
<1>3. Ready(b, a, k - 1, z) /\ b.separator = Parsed(t).separator
  BY <1>2 DEF Stands
<1>4. Ends(t \o d, a, k, z, FALSE, Parsed(t).separator)
  <2>1. Ends(t \o d, a, k, z, FALSE, b.separator)
    BY <1>0, <1>3, NumberParsed
  <2> QED BY <1>3, <2>1
<1>5. zero \in {"off", "start"} => Parsed(t).separator = NoSeparator
  BY DEF Core
<1> HIDE DEF d, b
<1>6. PICK x \in Seq(Int) : x = t \o d /\ x # <<>>
  BY <1>0, <1>1, NotEmpty
<1>7. CASE k = Groups
  <2>1. NumberPart(a, zero, k) = d
    <3>1. NumberPart(a, zero, k) = d \o <<>>
      BY <1>7, Zenon DEF NumberPart, d
    <3> QED BY <1>1, <3>1
  <2>2. BehindGroup(x, a, k, z) /\ Parsed(x).separator = Parsed(t).separator
    BY <1>4, <1>6, <1>7 DEF Ends, BehindGroup
  <2>3. Core(x, zero, a, k)
    BY <1>0, <1>5, <1>6, <2>2 DEF Core
  <2> QED BY <1>6, <2>1, <2>3
<1>8. CASE k # Groups
  <2>1. NumberPart(a, zero, k) = d \o <<Colon>>
    BY <1>8, Zenon DEF NumberPart, d
  <2>2. Written(Parsed(x), a, k, z) /\ Parsed(x).pending = FALSE /\ Parsed(x).separator = Parsed(t).separator
    BY <1>4, <1>6 DEF Ends
  <2>3. Ends(x \o <<Colon>>, a, k, z, TRUE, Parsed(x).separator)
    BY <2>2, ColonParsed
  <2>4. <<Colon>> \in Seq(Int) /\ <<Colon>> # <<>>
    BY DEF Colon
  <2>5. PICK y \in Seq(Int) : y = x \o <<Colon>> /\ y # <<>>
    BY <2>4, NotEmpty
  <2>6. t \o (d \o <<Colon>>) = y
    <3>1. Joined(t, d, <<Colon>>)
      BY <1>0, <1>1, <2>4, Joins
    <3> QED BY <1>6, <2>5, <3>1 DEF Joined
  <2>7. BehindGroup(y, a, k, z) /\ Parsed(y).separator = Parsed(t).separator
    BY <1>0, <1>8, <2>2, <2>3, <2>5 DEF Ends, BehindGroup
  <2>8. Core(y, zero, a, k)
    BY <1>0, <1>5, <2>5, <2>7 DEF Core
  <2> QED BY <2>1, <2>6, <2>8
<1> QED BY <1>7, <1>8

\* Together, what it prints in front of a dotted end.
LEMMA CoreStep ==
  ASSUME NEW a \in IPs, NEW k \in 1 .. Groups, NEW r \in Printers, NEW zero, zero = ZeroState(r.zero, a[k]),
         Core(r.text, r.zero, a, k - 1)
  PROVE  Core(r.text \o OpenPart(r, zero) \o NumberPart(a, zero, k), zero, a, k)
<1>1. r.text \in Seq(Int) /\ r.zero \in {"off", "start", "found", "end"} /\ Colon \in Int
  BY DEF Printers, Colon
<1>2. ASSUME NEW w \in Seq(Int) PROVE w \o <<>> = w
  OBVIOUS
<1>3. CASE zero # "found"
  <2>1. zero \in {"off", "start"} => r.zero \in {"off", "start"}
    BY <1>1 DEF ZeroState
  <2>2. OpenPart(r, zero) = <<>>
    BY <1>3 DEF OpenPart
  <2>3. Core(r.text \o NumberPart(a, zero, k), zero, a, k)
    BY <1>3, <2>1, CoreNumber
  <2> QED BY <1>1, <1>2, <2>2, <2>3
<1>4. CASE zero = "found" /\ r.zero = "found"
  <2>1. a[k] = 0
    BY <1>4 DEF ZeroState
  <2>2. OpenPart(r, zero) = <<>> /\ NumberPart(a, zero, k) = <<>>
    BY <1>4 DEF OpenPart, NumberPart
  <2>3. PICK m \in Nat : m = k - 1
    OBVIOUS
  <2>4. Core(r.text, "found", a, m)
    BY <1>4, <2>3
  <2>5. m # 0 /\ r.text # <<>>
    BY <2>4 DEF Core
  <2>6. PICK z : InGap(r.text, a, m, z)
    BY <2>4 DEF Core
  <2>7. Ready(Parsed(r.text), a, k - 1, z) /\ Parsed(r.text).separator = k - 1 - z /\ k \in Nat \ {0}
    BY <2>3, <2>6 DEF InGap
  <2>8. Core(r.text, "found", a, k)
    BY <1>1, <2>1, <2>5, <2>7, CoreSkips
  <2> QED BY <1>1, <1>2, <1>4, <2>2, <2>8
<1>5. CASE zero = "found" /\ r.zero # "found"
  <2>1. a[k] = 0 /\ r.zero = "start"
    BY <1>5 DEF ZeroState
  <2>2. OpenPart(r, zero) = (IF r.text = <<>> THEN <<Colon, Colon>> ELSE <<Colon>>) /\ NumberPart(a, zero, k) = <<>>
    BY <1>5 DEF OpenPart, NumberPart
  <2>3. /\ k = 1 => r.text = <<>> /\ Core(<<Colon, Colon>>, "found", a, k)
        /\ k # 1 => r.text # <<>> /\ Core(r.text \o <<Colon>>, "found", a, k)
    BY <2>1, CoreOpens
  <2>4. CASE k = 1
    <3>1. r.text \o OpenPart(r, zero) \o NumberPart(a, zero, k) = <<Colon, Colon>>
      <4>1. <<>> \o <<Colon, Colon>> \o <<>> = <<Colon, Colon>>
        BY <1>1
      <4> QED BY <2>2, <2>3, <2>4, <4>1, Zenon
    <3> QED BY <1>5, <2>3, <2>4, <3>1
  <2>5. CASE k # 1
    <3>1. r.text \o OpenPart(r, zero) \o NumberPart(a, zero, k) = r.text \o <<Colon>>
      <4>1. r.text \o <<Colon>> \in Seq(Int)
        BY <1>1
      <4>2. r.text \o <<Colon>> \o <<>> = r.text \o <<Colon>>
        BY <1>2, <4>1, Zenon
      <4> QED BY <2>2, <2>3, <2>5, <4>2, Zenon
    <3> QED BY <1>5, <2>3, <2>5, <3>1
  <2> QED BY <2>4, <2>5
<1> QED BY <1>3, <1>4, <1>5

\* The text with which the loop stops is read back, and until then the text is
\* as above.
ReadBack(t, a) == Finish(Parsed(t)) = [ip |-> a, success |-> TRUE]
BackInv(r, a, k, reduction) ==
  /\ ~ reduction => r.zero = "off"
  /\ ~ r.done => Core(r.text, r.zero, a, k)
  /\ r.done => r.text \in Seq(Int) /\ ReadBack(r.text, a)

\* The dotted end of a mapped address,
LEMMA MappedBack ==
  ASSUME NEW a \in IPs, NEW w, Core(w, "found", a, Groups - 3), a[Groups - 2] = Ones
  PROVE  LET t == w \o Append(DigitsOf(Ones, HexBase), Colon) \o Quad(a) IN t \in Seq(Int) /\ ReadBack(t, a)
<1> DEFINE d == DigitsOf(Ones, HexBase)
<1>1. d \in Seq(Int) /\ <<Colon>> \in Seq(Int) /\ w \in Seq(Int) /\ Colon \in Int
  BY OnesText DEF Core, Colon
<1>2. PICK n \in 1 .. Groups - 1 : n = Groups - 2 /\ n \in 1 .. Groups
  BY WidthAssumption
<1>3. Groups - 3 = n - 1 /\ a[n] = Ones /\ n \in Nat
  BY <1>2, WidthAssumption
<1>4. PICK z : InGap(w, a, n - 1, z)
  BY <1>3 DEF Core
<1>5. Ready(Parsed(w), a, n - 1, z)
  BY <1>4 DEF InGap
<1>6. AtEnd(Parsed(w)) = Parsed(w)
  BY <1>5 DEF AtEnd, Ready
<1>7. Ends(w \o d, a, n, z, FALSE, Parsed(w).separator)
  <2>1. PICK b : b = AtEnd(Parsed(w))
    OBVIOUS
  <2>2. Ready(b, a, n - 1, z)
    BY <1>5, <1>6, <2>1
  <2>3. Ends(w \o DigitsOf(a[n], HexBase), a, n, z, FALSE, b.separator)
    BY <1>1, <1>2, <2>1, <2>2, NumberParsed
  <2> QED BY <1>3, <1>6, <2>1, <2>3
<1> HIDE DEF d
<1>8. PICK x \in Seq(Int) : x = w \o d
  BY <1>7 DEF Ends
<1>9. Ends(x \o <<Colon>>, a, n, z, TRUE, Parsed(x).separator)
  <2>1. Written(Parsed(x), a, n, z) /\ Parsed(x).pending = FALSE
    BY <1>7, <1>8 DEF Ends
  <2> QED BY <2>1, ColonParsed
<1>10. PICK y \in Seq(Int) : y = x \o <<Colon>>
  BY <1>9 DEF Ends
<1>11. Written(Parsed(y), a, n, z) /\ Parsed(y).pending = TRUE
  BY <1>9, <1>10 DEF Ends
<1>12. PICK b : b = AtEnd(Parsed(y))
  OBVIOUS
<1>13. Ready(b, a, Groups - 2, z)
  BY <1>2, <1>11, <1>12, WrittenEnds
<1>14. b.result_hex # <<>>
  <2>1. z \in 0 .. n - 1
    BY <1>11 DEF Written, Fits
  <2>2. Len(b.result_hex) = n - z
    BY <1>2, <1>13 DEF Ready, Fits
  <2>3. Len(b.result_hex) # 0
    BY <1>3, <2>1, <2>2
  <2> QED BY <2>3
<1>15. y \o Quad(a) \in Seq(Int) /\ ReadBack(y \o Quad(a), a)
  BY <1>12, <1>13, <1>14, FinishQuad DEF ReadBack
<1>16. w \o Append(d, Colon) = y
  <2>1. Joined(w, d, <<Colon>>)
    BY <1>1, Joins
  <2>2. Append(d, Colon) = d \o <<Colon>>
    BY <1>1
  <2> QED BY <1>8, <1>10, <2>1, <2>2 DEF Joined
<1> QED BY <1>15, <1>16 DEF d

\* and the one that was asked for.
LEMMA EmbeddedBack ==
  ASSUME NEW a \in IPs, NEW w, NEW zero, Core(w, zero, a, Groups - 2),
         zero \notin {"off", "start"} => \E j \in 1 .. Groups - 2 : a[j] # 0
  PROVE  w \o Quad(a) \in Seq(Int) /\ ReadBack(w \o Quad(a), a)
<1>1. PICK n \in 0 .. Groups - 1 : n = Groups - 2 /\ n \in Nat \ {0}
  BY WidthAssumption
<1>2. w \in Seq(Int)
  BY DEF Core
<1>3. PICK z : Stands(w, a, n, z)
  BY <1>1, FrontOf
<1>4. PICK b : b = AtEnd(Parsed(w))
  OBVIOUS
<1>5. Ready(b, a, n, z) /\ b.separator = Parsed(w).separator
  BY <1>3, <1>4 DEF Stands
<1>6. ASSUME b.result_hex = <<>> PROVE FALSE
  <2> DEFINE g == Gap(b)
  <2>1. /\ z \in 0 .. n /\ Len(b.result_hex) = n - z /\ g + z <= n /\ (b.separator = NoSeparator => z = 0)
    BY <1>5 DEF Ready, Fits
  <2>b. \A j \in g + 1 .. g + z : a[j] = 0
    BY <1>5 DEF Ready, Fits
  <2>2. g \in Nat
    BY <1>5, CheckedParts DEF Ready
  <2> HIDE DEF g
  <2>3. Len(b.result_hex) = 0
    BY <1>6
  <2>4. z = n /\ g = 0 /\ b.separator # NoSeparator
    <3>1. PICK l : l = Len(b.result_hex)
      OBVIOUS
    <3>2. l = 0 /\ l = n - z /\ z \in 0 .. n /\ g + z <= n
      BY <2>1, <2>3, <3>1
    <3>3. z = n /\ g = 0
      BY <1>1, <2>2, <3>2
    <3> QED BY <1>1, <2>1, <3>3
  <2>5. zero \notin {"off", "start"}
    BY <1>5, <2>4 DEF Core
  <2>6. PICK j \in 1 .. n : a[j] # 0
    BY <1>1, <2>5
  <2>7. j \in g + 1 .. g + z
    BY <1>1, <2>4
  <2> QED BY <2>b, <2>6, <2>7
<1> QED BY <1>1, <1>2, <1>4, <1>5, <1>6, FinishQuad DEF ReadBack

LEMMA BackStep ==
  ASSUME NEW a \in IPs, NEW r \in Printers, NEW k \in 1 .. Groups, NEW reduction \in BOOLEAN, NEW embedded \in BOOLEAN,
         reduction /\ embedded => \E j \in 1 .. Groups - 2 : a[j] # 0, BackInv(r, a, k - 1, reduction)
  PROVE  BackInv(PrintStep(a, embedded, r, k), a, k, reduction)
<1>1. CASE r.done
  <2>1. PrintStep(a, embedded, r, k) = r
    BY <1>1 DEF PrintStep
  <2> QED BY <1>1, <2>1 DEF BackInv
<1>2. CASE ~ r.done
  <2> DEFINE zero == ZeroState(r.zero, a[k])
             w == r.text \o OpenPart(r, zero) \o NumberPart(a, zero, k)
             C == MappedPart(a, zero, k)
             D == QuadPart(a, embedded, zero, k)
             n == PrintGroup(a, embedded, r, k)
  <2>1. n = [zero |-> zero, done |-> IsDotted(a, embedded, zero, k), text |-> w \o C \o D]
    BY PrintParts
  <2>2. PrintStep(a, embedded, r, k) = n
    BY <1>2 DEF PrintStep
  <2>3. Core(w, zero, a, k)
    BY <1>2, CoreStep DEF BackInv
  <2>4. ~ reduction => zero = "off"
    BY DEF BackInv, ZeroState
  <2> HIDE DEF zero, w, n
  <2>5. n.zero = zero /\ n.done = IsDotted(a, embedded, zero, k) /\ n.text = w \o C \o D /\ w \in Seq(Int)
    <3> HIDE DEF C, D
    <3> QED BY <2>1, <2>3 DEF Core
  <2>d. n.done <=> IsDotted(a, embedded, zero, k)
    BY <2>5, Zenon
  <2>6. CASE ~ IsDotted(a, embedded, zero, k)
    <3>1. C = <<>> /\ D = <<>>
      BY <2>6, Zenon DEF MappedPart, QuadPart, IsDotted
    <3>2. n.text = w
      BY <2>5, <3>1
    <3> HIDE DEF C, D
    <3>3. ~ n.done /\ n.zero = zero
      BY <2>5, <2>6, <2>d, Zenon
    <3> QED BY <2>2, <2>3, <2>4, <3>2, <3>3 DEF BackInv
  <2>7. CASE IsMapped(a, zero, k)
    <3>1. IsDotted(a, embedded, zero, k) /\ k = Groups - 3 /\ zero = "found" /\ a[k + 1] = Ones
      BY <2>7 DEF IsDotted, IsMapped
    <3>2. C = Append(DigitsOf(Ones, HexBase), Colon) /\ D = Quad(a)
      BY <2>7, <3>1, Zenon DEF MappedPart, QuadPart
    <3>3. k + 1 = Groups - 2
      BY <3>1, WidthAssumption
    <3>4. n.text \in Seq(Int) /\ ReadBack(n.text, a)
      BY <2>3, <2>5, <3>1, <3>2, <3>3, MappedBack
    <3> HIDE DEF C, D
    <3>5. n.done /\ n.zero = zero
      BY <2>5, <2>d, <3>1, Zenon
    <3> QED BY <2>2, <2>4, <3>4, <3>5 DEF BackInv
  <2>8. CASE IsDotted(a, embedded, zero, k) /\ ~ IsMapped(a, zero, k)
    <3>1. embedded /\ k = Groups - 2
      BY <2>8 DEF IsDotted
    <3>2. C = <<>> /\ D = Quad(a)
      BY <2>8, Zenon DEF MappedPart, QuadPart
    <3>3. zero \notin {"off", "start"} => \E j \in 1 .. Groups - 2 : a[j] # 0
      BY <2>4, <3>1
    <3>4. w \o Quad(a) \in Seq(Int) /\ ReadBack(w \o Quad(a), a)
      BY <2>3, <3>1, <3>3, EmbeddedBack
    <3>5. n.text = w \o Quad(a)
      <4>1. w \o <<>> = w
        BY <2>5
      <4> QED BY <2>5, <3>2, <4>1
    <3> HIDE DEF C, D
    <3>6. n.done /\ n.zero = zero
      BY <2>5, <2>8, <2>d, Zenon
    <3> QED BY <2>2, <2>4, <3>4, <3>5, <3>6 DEF BackInv
  <2> QED BY <2>2, <2>6, <2>7, <2>8
<1> QED BY <1>1, <1>2

\* to_str, whole.
LEMMA PrintedReadBack ==
  ASSUME NEW a \in IPs, NEW reduction \in BOOLEAN, NEW embedded \in BOOLEAN,
         reduction /\ embedded => \E j \in 1 .. Groups - 2 : a[j] # 0
  PROVE  from_str(to_str(a, reduction, embedded)) = [ip |-> a, success |-> TRUE]
<1>1. PICK r : IsPrinting(r, a, reduction, embedded) /\ to_str(a, reduction, embedded) = r[Groups].text
  BY Printing
<1> DEFINE S == {k \in 0 .. Groups : BackInv(r[k], a, k, reduction)}
<1>2. 0 \in S
  <2>1. r[0].text = <<>> /\ r[0].done = FALSE /\ r[0].zero = IF reduction THEN "start" ELSE "off"
    BY <1>1 DEF IsPrinting, NewPrinter
  <2>2. <<>> \in Seq(Int)
    OBVIOUS
  <2>3. Core(r[0].text, r[0].zero, a, 0)
    BY <2>1, <2>2, FreshParsed DEF Core
  <2>4. BackInv(r[0], a, 0, reduction)
    BY <2>1, <2>3 DEF BackInv
  <2> QED BY <2>4, WidthAssumption
<1>3. ASSUME NEW k \in 1 .. Groups, k - 1 \in S PROVE k \in S
  <2>a. k - 1 \in 0 .. Groups
    BY WidthAssumption
  <2>1. r[k - 1] \in Printers /\ r[k] = PrintStep(a, embedded, r[k - 1], k)
    BY <1>1, <2>a DEF IsPrinting
  <2>2. BackInv(r[k - 1], a, k - 1, reduction)
    BY <1>3
  <2>3. BackInv(r[k], a, k, reduction)
    BY <2>1, <2>2, BackStep
  <2> QED BY <2>3, WidthAssumption
<1>4. 0 .. Groups \subseteq S
  <2> HIDE DEF S
  <2> QED BY <1>2, <1>3, RangeInduction, WidthAssumption
<1>5. BackInv(r[Groups], a, Groups, reduction)
  BY <1>4, WidthAssumption
<1> DEFINE t == r[Groups].text
<1>6. t \in Seq(Int) /\ ReadBack(t, a)
  <2>1. CASE r[Groups].done
    BY <1>5, <2>1 DEF BackInv
  <2>2. CASE ~ r[Groups].done
    <3>1. PICK zero : Core(t, zero, a, Groups)
      BY <1>5, <2>2 DEF BackInv
    <3> HIDE DEF t
    <3>2. t \in Seq(Int)
      BY <3>1 DEF Core
    <3>3. CASE zero = "found"
      <4>1. PICK z : InGap(t, a, Groups, z)
        BY <3>1, <3>3 DEF Core
      <4>2. Finish(Parsed(t)) = [ip |-> a, success |-> TRUE]
        BY <4>1, FinishGap DEF InGap
      <4> QED BY <3>2, <4>2 DEF ReadBack
    <3>4. CASE zero # "found"
      <4>1. PICK z : BehindGroup(t, a, Groups, z)
        BY <3>1, <3>4, WidthAssumption DEF Core
      <4>2. Finish(Parsed(t)) = [ip |-> a, success |-> TRUE]
        BY <4>1, FinishWritten DEF BehindGroup
      <4> QED BY <3>2, <4>2 DEF ReadBack
    <3> QED BY <3>3, <3>4
  <2> QED BY <2>1, <2>2
<1>7. from_str(t) = Finish(Parsed(t))
  BY DEF from_str, Parsed
<1> QED BY <1>1, <1>6, <1>7 DEF ReadBack

\* Whatever the object has been through, to_str with any options gives a text
\* that from_str reads back as the same address, except the one the property
\* names: both options, and zeros in all groups in front of the dotted end.
THEOREM Ip6RoundTripHolds == Spec => []RoundTrip
<1>1. ip \in IPs => RoundTrip
  BY PrintedReadBack DEF RoundTrip
<1> QED BY <1>1, Ip6ObjectIsAddress, PTL

-----------------------------------------------------------------------------
(* A text as items between colons *)

\* A number in the smaller base is not the larger one.
LEMMA SmallerBase ==
  ASSUME NEW d \in Seq(Digit)
  PROVE  /\ Value(d, DecBase) \in Nat /\ Value(d, HexBase) \in Nat
         /\ Value(d, DecBase) <= Value(d, HexBase)
<1>0. d \in Seq(Nat) /\ DecBase \in Nat /\ HexBase \in Nat /\ DecBase <= HexBase /\ Len(d) \in Nat
  <2>1. Digit \subseteq Nat
    BY Marks
  <2>2. d \in Seq(Nat)
    BY <2>1, SeqOver
  <2> QED BY <2>2, BaseAssumption
<1> DEFINE e(k) == SubSeq(d, 1, k)
           S == {k \in 0 .. Len(d) : Value(e(k), DecBase) <= Value(e(k), HexBase)}
<1>1. ASSUME NEW k \in 0 .. Len(d) PROVE e(k) \in Seq(Nat)
  BY <1>0
<1>2. 0 \in S
  <2>1. e(0) = <<>>
    BY <1>0
  <2>2. Value(<<>>, DecBase) = 0 /\ Value(<<>>, HexBase) = 0
    BY <1>0, ValueSteps
  <2>3. Value(e(0), DecBase) <= Value(e(0), HexBase)
    <3>1. Value(e(0), DecBase) = 0 /\ Value(e(0), HexBase) = 0
      BY <2>1, <2>2, Zenon
    <3> HIDE DEF e
    <3> QED BY <3>1
  <2> HIDE DEF e
  <2> QED BY <1>0, <2>3
<1>3. ASSUME NEW k \in 1 .. Len(d), k - 1 \in S PROVE k \in S
  <2>1. PICK m \in 0 .. Len(d) : m = k - 1
    BY <1>0
  <2>2. e(k) = Append(e(m), d[k]) /\ d[k] \in Nat
    BY <1>0, <2>1
  <2>3. PICK w \in Seq(Nat) : w = e(m)
    BY <1>1
  <2>4. PICK c \in Nat : c = d[k]
    BY <2>2
  <2>5. /\ Value(Append(w, c), DecBase) = Value(w, DecBase) * DecBase + c /\ Value(w, DecBase) \in Nat
        /\ Value(Append(w, c), HexBase) = Value(w, HexBase) * HexBase + c /\ Value(w, HexBase) \in Nat
    BY <1>0, ValueSteps
  <2>6. Value(w, DecBase) <= Value(w, HexBase)
    BY <1>3, <2>1, <2>3
  <2>7. ASSUME NEW x \in Nat, NEW y \in Nat, x <= y PROVE x * DecBase + c <= y * HexBase + c
    <3>1. x * DecBase <= y * DecBase
      BY <1>0, <2>7
    <3>2. y * DecBase <= y * HexBase
      BY <1>0
    <3>3. PICK i \in Nat, j \in Nat, n \in Nat : i = x * DecBase /\ j = y * HexBase /\ n = y * DecBase
      BY <1>0
    <3> QED BY <3>1, <3>2, <3>3
  <2>8. Value(Append(w, c), DecBase) <= Value(Append(w, c), HexBase)
    BY <2>5, <2>6, <2>7
  <2>9. Value(e(k), DecBase) <= Value(e(k), HexBase)
    BY <2>2, <2>3, <2>4, <2>8
  <2> HIDE DEF e
  <2> QED BY <1>0, <2>9
<1>4. 0 .. Len(d) \subseteq S
  <2> HIDE DEF S
  <2> QED BY <1>0, <1>2, <1>3, RangeInduction
<1>5. e(Len(d)) = d
  BY <1>0
<1>6. Value(d, DecBase) \in Nat /\ Value(d, HexBase) \in Nat
  BY <1>0, ValueSteps
<1>7. Len(d) \in S
  BY <1>0, <1>4
<1> QED BY <1>5, <1>6, <1>7

\* The elements of a longer sequence.
LEMMA AppendAt ==
  ASSUME NEW S, NEW s \in Seq(S), NEW e \in S
  PROVE  /\ Append(s, e) \in Seq(S) /\ Append(s, e) # <<>> /\ Len(s) \in Nat /\ Len(Append(s, e)) = Len(s) + 1
         /\ Append(s, e)[Len(s) + 1] = e /\ \A i \in 1 .. Len(s) : Append(s, e)[i] = s[i]
OBVIOUS

\* The last item, whose dots the automaton has seen.
LastRead(q, l, ns) ==
  /\ l \in Seq(Digit \cup {Dot}) /\ ns = SplitAt(l, Dot) /\ ns \in Seq(Seq(Digit)) \ {<<>>}
  /\ Len(q.result_dec) = Len(ns) - 1
  /\ \A i \in 1 .. Len(ns) - 1 : q.result_dec[i] = Value(ns[i], DecBase) % Word
  /\ q.accum_hex = Value(ns[Len(ns)], HexBase) % Word
  /\ q.accum_dec = Value(ns[Len(ns)], DecBase) % Word
  /\ Dot \in Range(l) <=> Len(ns) > 1
  /\ Len(ns) = 1 => ns = <<l>>

\* Items that became groups.
Pushed(h, m, ps, k) ==
  \A i \in 1 .. k : /\ ps[i] \in Seq(Digit) /\ SplitAt(ps[i], Dot) = <<ps[i]>>
                    /\ h[m + i] = Value(ps[i], HexBase) % Word

\* An item begins,
LEMMA LastBegins ==
  ASSUME NEW q, q.result_dec = <<>>, q.accum_hex = 0, q.accum_dec = 0
  PROVE  LastRead(q, <<>>, << <<>> >>)
<1>1. <<>> \in Seq(Int) /\ <<>> \in Seq(Digit) /\ <<>> \in Seq(Digit \cup {Dot})
  OBVIOUS
<1>2. SplitAt(<<>>, Dot) = << <<>> >>
  BY SplitSteps, Zenon
<1>3. Value(<<>>, DecBase) = 0 /\ Value(<<>>, HexBase) = 0 /\ 0 % Word = 0
  BY ValueSteps, BaseAssumption, WordPositive, RemainderBelow
<1>4. PICK ns : ns = << <<>> >>
  OBVIOUS
<1>5. ns \in Seq(Seq(Digit)) \ {<<>>} /\ Len(ns) = 1 /\ ns[1] = <<>>
  BY <1>1, <1>4
<1>6. Dot \notin Range(<<>>)
  BY DEF Range
<1>7. LastRead(q, <<>>, ns)
  BY <1>1, <1>2, <1>3, <1>4, <1>5, <1>6 DEF LastRead
<1> QED BY <1>4, <1>7

\* a digit is added to its last number,
LEMMA LastDigit ==
  ASSUME NEW q \in Checked, q.state # "error", NEW l, NEW ns, LastRead(q, l, ns), NEW c \in Digit
  PROVE  LastRead(ReadDigit(q, c), Append(l, c), [ns EXCEPT ![Len(ns)] = Append(@, c)])
<1> DEFINE r == ReadDigit(q, c)
           k == Len(ns)
           w == ns[k]
           ms == [ns EXCEPT ![k] = Append(@, c)]
<1>1. /\ l \in Seq(Digit \cup {Dot}) /\ ns = SplitAt(l, Dot) /\ ns \in Seq(Seq(Digit)) \ {<<>>}
      /\ Len(q.result_dec) = k - 1 /\ (\A i \in 1 .. k - 1 : q.result_dec[i] = Value(ns[i], DecBase) % Word)
      /\ q.accum_hex = Value(w, HexBase) % Word /\ q.accum_dec = Value(w, DecBase) % Word
      /\ (Dot \in Range(l) <=> k > 1) /\ (k = 1 => ns = <<l>>)
  BY DEF LastRead
<1>2. k \in Nat \ {0} /\ w \in Seq(Digit)
  BY <1>1
<1>3. c \in Int /\ c \in Nat /\ c # Dot /\ Digit \subseteq Nat /\ Digit \cup {Dot} \subseteq Int
  BY Marks
<1>4. l \in Seq(Int) /\ w \in Seq(Nat)
  BY <1>1, <1>2, <1>3, SeqOver
<1>5. SplitAt(Append(l, c), Dot) = ms
  <2>1. SplitAt(Append(l, c), Dot) = WithLast(SplitAt(l, Dot), c, Dot)
    BY <1>3, <1>4, SplitSteps, Zenon
  <2> QED BY <1>1, <1>3, <2>1 DEF WithLast
<1>6. /\ r.result_dec = q.result_dec /\ r.accum_hex = (q.accum_hex * HexBase + c) % Word
      /\ r.accum_dec = (q.accum_dec * DecBase + c) % Word
  BY DEF ReadDigit, Checked, Parsers
<1> HIDE DEF r, w
<1>7. ms \in Seq(Seq(Digit)) \ {<<>>} /\ Len(ms) = k /\ ms[k] = Append(w, c) /\ \A i \in 1 .. k - 1 : ms[i] = ns[i]
  <2>1. Append(w, c) \in Seq(Digit)
    BY <1>2
  <2> QED BY <1>1, <1>2, <2>1 DEF w
<1> HIDE DEF ms, k
<1>8. r.accum_hex = Value(Append(w, c), HexBase) % Word /\ r.accum_dec = Value(Append(w, c), DecBase) % Word
  <2>1. HexBase \in Nat /\ DecBase \in Nat
    BY BaseAssumption
  <2>2. /\ Value(Append(w, c), HexBase) = Value(w, HexBase) * HexBase + c /\ Value(w, HexBase) \in Nat
        /\ Value(Append(w, c), DecBase) = Value(w, DecBase) * DecBase + c /\ Value(w, DecBase) \in Nat
    BY <1>3, <1>4, <2>1, ValueSteps
  <2>3. ASSUME NEW n \in Nat, NEW base \in Nat PROVE ((n % Word) * base + c) % Word = (n * base + c) % Word
    BY <1>3, WordStep, Zenon
  <2> QED BY <1>1, <1>6, <2>1, <2>2, <2>3
<1>9. Append(l, c) \in Seq(Digit \cup {Dot}) /\ (Dot \in Range(Append(l, c)) <=> Dot \in Range(l))
  <2>1. Append(l, c) \in Seq(Digit \cup {Dot}) /\ Len(Append(l, c)) = Len(l) + 1 /\ Append(l, c)[Len(l) + 1] = c
        /\ Len(l) \in Nat /\ \A i \in 1 .. Len(l) : Append(l, c)[i] = l[i]
    BY <1>1
  <2>2. PICK u \in Seq(Digit \cup {Dot}) : u = Append(l, c)
    BY <2>1
  <2>3. Dot \in Range(u) => Dot \in Range(l)
    BY <1>1, <1>3, <2>1, <2>2 DEF Range
  <2>4. Dot \in Range(l) => Dot \in Range(u)
    <3>1. ASSUME NEW i \in 1 .. Len(l), l[i] = Dot PROVE Dot \in Range(u)
      <4>1. i \in 1 .. Len(u) /\ u[i] = Dot
        BY <2>1, <2>2, <3>1
      <4> QED BY <2>2, <4>1 DEF Range
    <3> QED BY <1>1, <3>1 DEF Range
  <2> QED BY <2>1, <2>2, <2>3, <2>4
<1>10. k = 1 => ms = <<Append(l, c)>>
  BY <1>1, <1>7 DEF w, k, ms
<1>11. LastRead(r, Append(l, c), ms)
  BY <1>1, <1>2, <1>5, <1>6, <1>7, <1>8, <1>9, <1>10 DEF LastRead
<1> QED BY <1>11 DEF r, ms, k

\* a dot ends it,
LEMMA LastDot ==
  ASSUME NEW q \in Checked, ReadDot(q).state # "error", NEW l, NEW ns, LastRead(q, l, ns)
  PROVE  LastRead(ReadDot(q), Append(l, Dot), Append(ns, <<>>))
<1> DEFINE r == ReadDot(q)
           k == Len(ns)
           w == ns[k]
           ms == Append(ns, <<>>)
<1>1. /\ l \in Seq(Digit \cup {Dot}) /\ ns = SplitAt(l, Dot) /\ ns \in Seq(Seq(Digit)) \ {<<>>}
      /\ Len(q.result_dec) = k - 1 /\ (\A i \in 1 .. k - 1 : q.result_dec[i] = Value(ns[i], DecBase) % Word)
      /\ q.accum_hex = Value(w, HexBase) % Word /\ q.accum_dec = Value(w, DecBase) % Word
      /\ (Dot \in Range(l) <=> k > 1) /\ (k = 1 => ns = <<l>>)
  BY DEF LastRead
<1>2. k \in Nat \ {0} /\ w \in Seq(Digit)
  BY <1>1
<1>3. Dot \in Int /\ Digit \cup {Dot} \subseteq Int
  BY Marks
<1>4. l \in Seq(Int)
  BY <1>1, <1>3, SeqOver
<1>5. SplitAt(Append(l, Dot), Dot) = ms
  <2>1. SplitAt(Append(l, Dot), Dot) = WithLast(SplitAt(l, Dot), Dot, Dot)
    BY <1>3, <1>4, SplitSteps, Zenon
  <2> QED BY <1>1, <2>1 DEF WithLast
<1>6. q \in Parsers
  BY DEF Checked
<1>7. q.state = "proc" /\ q.accum_dec < Octet /\ Len(q.result_dec) < 3
  BY <1>6, ErrorIsError DEF ReadDot
<1>8. r = [q EXCEPT !.result_dec = Append(q.result_dec, q.accum_dec), !.accum_dec = 0, !.accum_hex = 0]
  BY <1>7 DEF ReadDot
<1> HIDE DEF r
<1>9. r.result_dec = Append(q.result_dec, q.accum_dec) /\ r.accum_hex = 0 /\ r.accum_dec = 0
  BY <1>6, <1>8 DEF Parsers
<1>10. q.result_dec \in Seq(Byte) /\ q.accum_dec \in Byte
  BY <1>6, <1>7, WidthAssumption, WordPositive DEF Parsers, Byte
<1> HIDE DEF w
<1>11. ms \in Seq(Seq(Digit)) \ {<<>>} /\ Len(ms) = k + 1 /\ ms[k + 1] = <<>> /\ \A i \in 1 .. k : ms[i] = ns[i]
  <2>1. <<>> \in Seq(Digit)
    OBVIOUS
  <2>2. PICK S : S = Seq(Digit)
    OBVIOUS
  <2>3. ns \in Seq(S) /\ <<>> \in S
    BY <1>1, <2>1, <2>2
  <2>4. /\ ms \in Seq(S) /\ ms # <<>> /\ Len(ns) \in Nat /\ Len(ms) = Len(ns) + 1
        /\ ms[Len(ns) + 1] = <<>> /\ \A i \in 1 .. Len(ns) : ms[i] = ns[i]
    BY <2>3, AppendAt
  <2> QED BY <2>2, <2>4
<1> HIDE DEF ms, k
<1>12. Len(r.result_dec) = k /\ r.result_dec[k] = q.accum_dec /\ \A i \in 1 .. k - 1 : r.result_dec[i] = q.result_dec[i]
  BY <1>1, <1>2, <1>9, <1>10
<1>13. ASSUME NEW i \in 1 .. k PROVE r.result_dec[i] = Value(ms[i], DecBase) % Word
  <2>1. CASE i = k
    BY <1>1, <1>11, <1>12, <2>1 DEF w, k
  <2>2. CASE i # k
    <3>1. i \in 1 .. k - 1
      BY <1>2, <2>2
    <3> QED BY <1>1, <1>11, <1>12, <3>1
  <2> QED BY <2>1, <2>2
<1>14. Append(l, Dot) \in Seq(Digit \cup {Dot}) /\ Dot \in Range(Append(l, Dot))
  <2>1. PICK u \in Seq(Digit \cup {Dot}) : u = Append(l, Dot) /\ Len(u) = Len(l) + 1 /\ u[Len(l) + 1] = Dot /\ Len(l) \in Nat
    BY <1>1, AppendAt
  <2>2. Dot \in Range(u)
    BY <2>1 DEF Range
  <2> QED BY <2>1, <2>2
<1>15. Value(<<>>, DecBase) = 0 /\ Value(<<>>, HexBase) = 0 /\ 0 % Word = 0
  BY ValueSteps, BaseAssumption, WordPositive, RemainderBelow
<1>16. k + 1 - 1 = k /\ k + 1 > 1 /\ k + 1 # 1
  BY <1>2
<1>17. LastRead(r, Append(l, Dot), ms)
  <2>1. Len(ms) - 1 = k /\ Len(ms) > 1 /\ Len(ms) # 1 /\ ms[Len(ms)] = <<>>
    BY <1>2, <1>11, <1>16
  <2>2. \A i \in 1 .. Len(ms) - 1 : r.result_dec[i] = Value(ms[i], DecBase) % Word
    BY <1>13, <2>1
  <2>3. r.accum_hex = Value(ms[Len(ms)], HexBase) % Word /\ r.accum_dec = Value(ms[Len(ms)], DecBase) % Word
    BY <1>9, <1>15, <2>1
  <2>4. ms \in Seq(Seq(Digit)) \ {<<>>} /\ Len(r.result_dec) = Len(ms) - 1
    BY <1>11, <1>12, <2>1
  <2> QED BY <1>5, <1>14, <2>1, <2>2, <2>3, <2>4 DEF LastRead
<1> QED BY <1>17 DEF r, ms

\* What the automaton keeps of a text: fs are the items in front of the gap,
\* ps the items behind it, or all items when there is none.
Holding(q, fs, ps, gap) ==
  /\ q \in Checked /\ q.state # "error"
  /\ fs \in Seq(Seq(Int)) /\ ps \in Seq(Seq(Int)) \ {<<>>}
  /\ gap => q.separator = Len(fs)
  /\ ~ gap => q.separator = NoSeparator /\ fs = <<>>
  /\ Len(q.result_hex) = Len(fs) + Len(ps) - 1
  /\ Pushed(q.result_hex, 0, fs, Len(fs))
  /\ Pushed(q.result_hex, Len(fs), ps, Len(ps) - 1)
  /\ \E ns : LastRead(q, ps[Len(ps)], ns)

\* The items are as long as they are.
LEMMA HoldingParts ==
  ASSUME NEW q, NEW fs, NEW ps, NEW gap, Holding(q, fs, ps, gap)
  PROVE  /\ Len(fs) \in Nat /\ Len(ps) \in Nat \ {0} /\ q \in Checked /\ q.state # "error"
         /\ Len(q.result_hex) = Len(fs) + Len(ps) - 1 /\ Len(q.result_hex) \in Nat
         /\ ps[Len(ps)] \in Seq(Int)
BY CheckedParts DEF Holding

\* With the last item changed, nothing else is.
LEMMA HoldingLast ==
  ASSUME NEW q, NEW fs, NEW ps, NEW gap, Holding(q, fs, ps, gap),
         NEW r \in Checked, r.state # "error", r.result_hex = q.result_hex, r.separator = q.separator,
         NEW l \in Seq(Int), NEW ms, LastRead(r, l, ms)
  PROVE  Holding(r, fs, [ps EXCEPT ![Len(ps)] = l], gap)
<1> DEFINE k == Len(ps)
           qs == [ps EXCEPT ![k] = l]
<1>1. k \in Nat \ {0} /\ ps \in Seq(Seq(Int))
  BY HoldingParts DEF Holding
<1>2. qs \in Seq(Seq(Int)) \ {<<>>} /\ Len(qs) = k /\ qs[k] = l /\ \A i \in 1 .. k - 1 : qs[i] = ps[i]
  BY <1>1
<1> HIDE DEF qs, k
<1>3. Pushed(r.result_hex, Len(fs), qs, k - 1)
  BY <1>2 DEF Holding, Pushed, k
<1>4. Holding(r, fs, qs, gap)
  BY <1>2, <1>3 DEF Holding, k
<1> QED BY <1>4 DEF qs, k

\* A number in front of a colon becomes a group and a new item begins.
LEMMA HoldingPush ==
  ASSUME NEW q, NEW fs, NEW ps, NEW gap, Holding(q, fs, ps, gap), GroupEnds(q)
  PROVE  /\ Holding(PushGroup(q), fs, Append(ps, <<>>), gap) /\ PushGroup(q).state = q.state
         /\ PushGroup(q).separator = q.separator
         /\ Pushed(PushGroup(q).result_hex, Len(fs), ps, Len(ps))
<1> DEFINE k == Len(ps)
           m == Len(fs)
           r == PushGroup(q)
           h == q.result_hex
           qs == Append(ps, <<>>)
<1>1. k \in Nat \ {0} /\ m \in Nat /\ q \in Checked /\ q.state # "error" /\ Len(h) = m + k - 1 /\ Len(h) \in Nat
  BY HoldingParts
<1>2. InBounds(q) /\ q \in Parsers /\ h \in Seq(Group)
  BY <1>1, CheckedParts
<1>3. r \in Checked
  BY <1>2, PushGroupType DEF Checked, InBounds
<1>4. q.result_dec = <<>> /\ q.accum_hex <= Ones /\ q.accum_hex \in Group
  <2>1. q.result_dec = <<>> /\ q.accum_hex <= Ones /\ q.accum_hex \in Nat
    BY <1>2, WordPositive DEF GroupEnds, Parsers
  <2>2. PICK w \in Nat \ {0} : w = Octet * Octet
    BY WordPositive
  <2> QED BY <2>1, <2>2 DEF Group, Ones
<1>5. r = [q EXCEPT !.result_hex = Append(q.result_hex, q.accum_hex), !.accum_hex = 0, !.accum_dec = 0,
                    !.pending = FALSE]
  BY DEF PushGroup
<1> HIDE DEF r
<1>6. /\ r.state = q.state /\ r.separator = q.separator /\ r.result_hex = Append(h, q.accum_hex)
      /\ r.accum_hex = 0 /\ r.accum_dec = 0 /\ r.result_dec = q.result_dec
  BY <1>2, <1>5 DEF Parsers
<1>7. qs \in Seq(Seq(Int)) \ {<<>>} /\ Len(qs) = k + 1 /\ qs[k + 1] = <<>> /\ \A i \in 1 .. k : qs[i] = ps[i]
  <2>1. PICK S : S = Seq(Int)
    OBVIOUS
  <2>2. ps \in Seq(S) /\ <<>> \in S
    BY <2>1 DEF Holding
  <2>3. /\ qs \in Seq(S) /\ qs # <<>> /\ Len(qs) = Len(ps) + 1
        /\ qs[Len(ps) + 1] = <<>> /\ \A i \in 1 .. Len(ps) : qs[i] = ps[i]
    BY <2>2, AppendAt
  <2> QED BY <2>1, <2>3
<1>8. Len(r.result_hex) = m + k /\ r.result_hex[m + k] = q.accum_hex /\ \A i \in 1 .. m + k - 1 : r.result_hex[i] = h[i]
  BY <1>1, <1>2, <1>4, <1>6
<1>9. PICK ns : LastRead(q, ps[k], ns)
  BY DEF Holding
<1>10. ps[k] \in Seq(Digit) /\ SplitAt(ps[k], Dot) = <<ps[k]>> /\ q.accum_hex = Value(ps[k], HexBase) % Word
  <2>1. Len(ns) = 1 /\ ns = <<ps[k]>> /\ ns \in Seq(Seq(Digit)) /\ ns = SplitAt(ps[k], Dot)
    BY <1>4, <1>9 DEF LastRead
  <2>2. ns[1] = ps[k] /\ ns[1] \in Seq(Digit)
    BY <2>1
  <2>3. q.accum_hex = Value(ns[Len(ns)], HexBase) % Word
    BY <1>9 DEF LastRead
  <2> QED BY <2>1, <2>2, <2>3
<1> HIDE DEF k, m, h, qs
<1>11. Pushed(h, 0, fs, m) /\ Pushed(h, m, ps, k - 1)
  BY DEF Holding, h, m, k
<1>12. Pushed(r.result_hex, 0, fs, m)
  <2>1. ASSUME NEW i \in 1 .. m PROVE r.result_hex[0 + i] = h[0 + i]
    <3>1. 0 + i \in 1 .. m + k - 1
      BY <1>1
    <3> QED BY <1>8, <3>1
  <2> QED BY <1>11, <2>1 DEF Pushed
<1>13. ASSUME NEW i \in 1 .. k
       PROVE  /\ ps[i] \in Seq(Digit) /\ SplitAt(ps[i], Dot) = <<ps[i]>>
              /\ r.result_hex[m + i] = Value(ps[i], HexBase) % Word
  <2>1. CASE i = k
    BY <1>8, <1>10, <2>1
  <2>2. CASE i # k
    <3>1. i \in 1 .. k - 1 /\ m + i \in 1 .. m + k - 1
      BY <1>1, <2>2
    <3> QED BY <1>8, <1>11, <3>1 DEF Pushed
  <2> QED BY <2>1, <2>2
<1>14. Pushed(r.result_hex, m, ps, k)
  BY <1>13 DEF Pushed
<1>15. Pushed(r.result_hex, m, qs, k)
  BY <1>7, <1>13 DEF Pushed
<1>16. LastRead(r, <<>>, << <<>> >>)
  BY <1>4, <1>6, LastBegins
<1>17. k + 1 - 1 = k /\ m + (k + 1) - 1 = m + k
  BY <1>1
<1>18. Holding(r, fs, qs, gap)
  BY <1>1, <1>3, <1>6, <1>7, <1>8, <1>12, <1>15, <1>16, <1>17 DEF Holding, m
<1> QED BY <1>6, <1>14, <1>18 DEF r, qs, m, k

\* A text, cut at the gap if it has one: no other two colons stand together,
\* but a colon may follow the gap.
Signs == Digit \cup {Colon, Dot}
Apart(t) == \A i \in 1 .. Len(t) - 1 : ~ (t[i] = Colon /\ t[i + 1] = Colon)
Settles(t) == t # <<>> => t[Len(t)] # Colon
TextIs(s, gap, f, t) ==
  /\ f \in Seq(Signs) /\ t \in Seq(Signs)
  /\ gap => s = f \o <<Colon, Colon>> \o t
  /\ ~ gap => s = t /\ f = <<>>
  /\ Apart(f) /\ Settles(f) /\ Apart(t)
  /\ (f # <<>> => f[1] # Colon) /\ (f = <<>> /\ t # <<>> => t[1] # Colon)

LEMMA SignsAreInt == Signs \subseteq Int /\ Colon \in Signs /\ Dot \in Signs /\ Digit \subseteq Signs /\ Colon \in Int
BY BaseAssumption DEF Signs, Digit, Colon, Dot

\* No two colons follow each other: that stays so with one more character.
LEMMA ApartOn ==
  ASSUME NEW t \in Seq(Int), Apart(t), NEW c \in Int, c = Colon => Settles(t)
  PROVE  Apart(Append(t, c)) /\ (c # Colon => Settles(Append(t, c)))
<1>1. PICK u \in Seq(Int) : /\ u = Append(t, c) /\ u # <<>> /\ Len(t) \in Nat /\ Len(u) = Len(t) + 1
                            /\ u[Len(t) + 1] = c /\ \A i \in 1 .. Len(t) : u[i] = t[i]
  BY MoreText
<1>2. ASSUME NEW i \in 1 .. Len(u) - 1, u[i] = Colon, u[i + 1] = Colon PROVE FALSE
  <2>1. i \in 1 .. Len(t)
    BY <1>1
  <2>2. t[i] = Colon
    BY <1>1, <1>2, <2>1
  <2>3. CASE i = Len(t)
    <3>1. c = Colon
      BY <1>1, <1>2, <2>3
    <3>2. t # <<>>
      BY <2>1
    <3> QED BY <2>2, <2>3, <3>1, <3>2 DEF Settles
  <2>4. CASE i # Len(t)
    <3>1. i \in 1 .. Len(t) - 1 /\ i + 1 \in 1 .. Len(t)
      BY <1>1, <2>1, <2>4
    <3>2. t[i + 1] = Colon
      BY <1>1, <1>2, <3>1
    <3> QED BY <2>2, <3>1, <3>2 DEF Apart
  <2> QED BY <2>3, <2>4
<1>3. Apart(u)
  BY <1>2 DEF Apart
<1>4. c # Colon => Settles(u)
  BY <1>1 DEF Settles
<1> QED BY <1>1, <1>3, <1>4

\* It goes on behind the gap,
LEMMA TextOn ==
  ASSUME NEW s \in Seq(Int), NEW gap \in BOOLEAN, NEW f, NEW t, TextIs(s, gap, f, t), NEW c \in Signs,
         c = Colon => Settles(t) /\ ~ (f = <<>> /\ t = <<>>)
  PROVE  TextIs(Append(s, c), gap, f, Append(t, c)) /\ (c # Colon => Settles(Append(t, c)))
<1>1. /\ f \in Seq(Signs) /\ t \in Seq(Signs) /\ (gap => s = f \o <<Colon, Colon>> \o t)
      /\ (~ gap => s = t /\ f = <<>>) /\ Apart(f) /\ Settles(f) /\ Apart(t)
      /\ (f # <<>> => f[1] # Colon) /\ (f = <<>> /\ t # <<>> => t[1] # Colon)
  BY DEF TextIs
<1>2. PICK u \in Seq(Signs) : /\ u = Append(t, c) /\ u # <<>> /\ Len(t) \in Nat /\ Len(u) = Len(t) + 1
                              /\ u[Len(t) + 1] = c /\ \A i \in 1 .. Len(t) : u[i] = t[i]
  <2>1. /\ Append(t, c) \in Seq(Signs) /\ Append(t, c) # <<>> /\ Len(t) \in Nat /\ Len(Append(t, c)) = Len(t) + 1
        /\ Append(t, c)[Len(t) + 1] = c /\ \A i \in 1 .. Len(t) : Append(t, c)[i] = t[i]
    BY <1>1, AppendAt
  <2> QED BY <2>1
<1>3. Apart(u) /\ (c # Colon => Settles(u))
  <2>1. c \in Int /\ t \in Seq(Int)
    BY <1>1, SignsAreInt, SeqOver
  <2> QED BY <1>1, <1>2, <2>1, ApartOn
<1>4. f = <<>> => u[1] # Colon
  <2>1. CASE t = <<>>
    <3>1. Len(t) = 0
      BY <2>1
    <3> QED BY <1>2, <2>1, <3>1
  <2>2. CASE t # <<>>
    <3>1. 1 \in 1 .. Len(t)
      BY <1>1, <2>2
    <3> QED BY <1>1, <1>2, <2>2, <3>1
  <2> QED BY <2>1, <2>2
<1>5. gap => Append(s, c) = f \o <<Colon, Colon>> \o u
  <2>1. c \in Int /\ t \in Seq(Int) /\ f \in Seq(Int)
    BY <1>1, SignsAreInt, SeqOver
  <2>2. PICK w \in Seq(Int) : w = f \o <<Colon, Colon>>
    <3>1. <<Colon, Colon>> \in Seq(Int)
      BY SignsAreInt
    <3>2. f \o <<Colon, Colon>> \in Seq(Int)
      BY <2>1, <3>1
    <3> QED BY <3>2
  <2>3. Append(w \o t, c) = w \o Append(t, c)
    BY <2>1, <2>2, MoreBehind
  <2> QED BY <1>1, <1>2, <2>2, <2>3
<1>6. ~ gap => Append(s, c) = u
  BY <1>1, <1>2
<1>7. TextIs(Append(s, c), gap, f, u)
  BY <1>1, <1>2, <1>3, <1>4, <1>5, <1>6 DEF TextIs
<1> QED BY <1>2, <1>3, <1>7

\* or the gap is made.
LEMMA TextGap ==
  ASSUME NEW s \in Seq(Int), NEW f, NEW t, TextIs(s, FALSE, f, t), Settles(t)
  PROVE  TextIs(Append(Append(s, Colon), Colon), TRUE, t, <<>>) /\ Settles(<<>>)
<1>1. t \in Seq(Signs) /\ s = t /\ f = <<>> /\ Apart(t) /\ (t # <<>> => t[1] # Colon)
  BY DEF TextIs
<1>2. <<>> \in Seq(Signs) /\ Apart(<<>>) /\ Settles(<<>>)
  BY DEF Apart, Settles
<1>3. Append(Append(s, Colon), Colon) = s \o <<Colon, Colon>> \o <<>>
  BY SignsAreInt
<1>4. TextIs(Append(Append(s, Colon), Colon), TRUE, t, <<>>)
  BY <1>1, <1>2, <1>3 DEF TextIs
<1> QED BY <1>2, <1>4

\* The text and the automaton together.
Track(s, q, gap, f, t) ==
  /\ TextIs(s, gap, f, t) /\ Holding(q, Items(f), SplitAt(t, Colon), gap)
  /\ q.state = "start" <=> f = <<>> /\ t = <<>>

\* The automaton begins with the empty text.
LEMMA TrackBegin == Track(<<>>, NewParser, FALSE, <<>>, <<>>) /\ Settles(<<>>)
<1>1. <<>> \in Seq(Signs) /\ <<>> \in Seq(Int) /\ <<>> \in Seq(Seq(Int))
  OBVIOUS
<1>2. TextIs(<<>>, FALSE, <<>>, <<>>) /\ Settles(<<>>)
  BY <1>1 DEF TextIs, Apart, Settles
<1>3. SplitAt(<<>>, Colon) = << <<>> >> /\ Items(<<>>) = <<>>
  BY SplitSteps, Zenon DEF Items
<1>4. NewParser \in Checked
  BY ParsedSteps, <1>1
<1>5. LastRead(NewParser, <<>>, << <<>> >>)
  <2>1. NewParser.result_dec = <<>> /\ NewParser.accum_hex = 0 /\ NewParser.accum_dec = 0
    BY DEF NewParser
  <2> QED BY <2>1, LastBegins
<1>6. PICK ps : ps = << <<>> >>
  OBVIOUS
<1>7. ps \in Seq(Seq(Int)) \ {<<>>} /\ Len(ps) = 1 /\ ps[1] = <<>>
  BY <1>1, <1>6
<1>8. /\ NewParser.state = "start" /\ NewParser.separator = NoSeparator /\ Len(NewParser.result_hex) = 0
  BY DEF NewParser
<1>9. Holding(NewParser, <<>>, ps, FALSE)
  <2>1. Pushed(NewParser.result_hex, 0, <<>>, 0) /\ Pushed(NewParser.result_hex, 0, ps, 0) /\ Len(<<>>) = 0
    BY DEF Pushed
  <2>2. Len(ps) - 1 = 0 /\ 0 + Len(ps) - 1 = 0 /\ ps[Len(ps)] = <<>>
    BY <1>7
  <2>3. NewParser.state # "error"
    BY <1>8
  <2> QED BY <1>1, <1>4, <1>5, <1>7, <1>8, <2>1, <2>2, <2>3 DEF Holding
<1> QED BY <1>2, <1>3, <1>6, <1>8, <1>9 DEF Track

\* Only these fields matter.
LEMMA TrackSame ==
  ASSUME NEW s, NEW q, NEW gap, NEW f, NEW t, Track(s, q, gap, f, t), NEW r \in Checked, r.state = q.state,
         r.result_hex = q.result_hex, r.result_dec = q.result_dec, r.separator = q.separator,
         r.accum_hex = q.accum_hex, r.accum_dec = q.accum_dec
  PROVE  Track(s, r, gap, f, t)
BY DEF Track, Holding, LastRead

\* The items of a text that goes on.
LEMMA ItemsOn ==
  ASSUME NEW t \in Seq(Signs), NEW c \in Signs
  PROVE  LET ps == SplitAt(t, Colon)
         IN  /\ ps \in Seq(Seq(Int)) \ {<<>>} /\ Len(ps) \in Nat \ {0} /\ ps[Len(ps)] \in Seq(Int)
             /\ c = Colon => SplitAt(Append(t, c), Colon) = Append(ps, <<>>)
             /\ c # Colon => SplitAt(Append(t, c), Colon) = [ps EXCEPT ![Len(ps)] = Append(ps[Len(ps)], c)]
<1>1. t \in Seq(Int) /\ c \in Int
  BY SignsAreInt, SeqOver
<1>2. PICK ps : ps = SplitAt(t, Colon)
  OBVIOUS
<1>3. ps \in Seq(Seq(Int)) \ {<<>>} /\ SplitAt(Append(t, c), Colon) = WithLast(ps, c, Colon)
  BY <1>1, <1>2, SplitSteps, Zenon
<1>4. Len(ps) \in Nat \ {0} /\ ps[Len(ps)] \in Seq(Int)
  BY <1>3
<1> QED BY <1>2, <1>3, <1>4 DEF WithLast

\* A digit,
LEMMA TrackDigit ==
  ASSUME NEW s \in Seq(Int), NEW q, NEW gap \in BOOLEAN, NEW f, NEW t, Track(s, q, gap, f, t), NEW c \in Digit
  PROVE  Track(Append(s, c), ReadDigit(q, c), gap, f, Append(t, c)) /\ Settles(Append(t, c))
<1> DEFINE r == ReadDigit(q, c)
           ps == SplitAt(t, Colon)
           l == ps[Len(ps)]
<1>1. Holding(q, Items(f), ps, gap) /\ TextIs(s, gap, f, t) /\ t \in Seq(Signs)
  BY DEF Track, TextIs
<1>2. c \in Signs /\ c # Colon /\ c \in Int
  BY SignsAreInt, Marks
<1>3. TextIs(Append(s, c), gap, f, Append(t, c)) /\ Settles(Append(t, c))
  BY <1>1, <1>2, TextOn
<1>4. SplitAt(Append(t, c), Colon) = [ps EXCEPT ![Len(ps)] = Append(l, c)] /\ l \in Seq(Int)
  BY <1>1, <1>2, ItemsOn
<1> HIDE DEF ps, l
<1>5. q \in Checked /\ q.state # "error" /\ q \in Parsers /\ InBounds(q)
  BY <1>1, CheckedParts DEF Holding
<1>6. PICK ns : LastRead(q, l, ns)
  BY <1>1 DEF Holding, l
<1>7. \E ms : LastRead(r, Append(l, c), ms)
  BY <1>5, <1>6, LastDigit
<1>8. r \in Checked
  BY <1>2, <1>5, ReadDigitType DEF Checked, InBounds
<1>9. r.state = "proc" /\ r.result_hex = q.result_hex /\ r.separator = q.separator
  BY <1>5 DEF ReadDigit, Parsers
<1> HIDE DEF r
<1>10. Append(l, c) \in Seq(Int)
  BY <1>2, <1>4
<1>11. Holding(r, Items(f), [ps EXCEPT ![Len(ps)] = Append(l, c)], gap)
  <2>1. PICK ms : LastRead(r, Append(l, c), ms)
    BY <1>7
  <2>2. r.state # "error"
    BY <1>9
  <2>3. PICK u \in Seq(Int) : u = Append(l, c)
    BY <1>10
  <2> QED BY <1>1, <1>8, <1>9, <2>1, <2>2, <2>3, HoldingLast
<1>12. Append(t, c) # <<>>
  BY <1>1, <1>2, AppendAt
<1> QED BY <1>3, <1>4, <1>9, <1>11, <1>12 DEF Track, r

\* a dot,
LEMMA TrackDot ==
  ASSUME NEW s \in Seq(Int), NEW q, NEW gap \in BOOLEAN, NEW f, NEW t, Track(s, q, gap, f, t),
         ReadDot(q).state # "error"
  PROVE  Track(Append(s, Dot), ReadDot(q), gap, f, Append(t, Dot)) /\ Settles(Append(t, Dot))
<1> DEFINE r == ReadDot(q)
           ps == SplitAt(t, Colon)
           l == ps[Len(ps)]
<1>1. Holding(q, Items(f), ps, gap) /\ TextIs(s, gap, f, t) /\ t \in Seq(Signs)
  BY DEF Track, TextIs
<1>2. Dot \in Signs /\ Dot # Colon /\ Dot \in Int
  BY SignsAreInt, Marks
<1>3. TextIs(Append(s, Dot), gap, f, Append(t, Dot)) /\ Settles(Append(t, Dot))
  BY <1>1, <1>2, TextOn
<1>4. SplitAt(Append(t, Dot), Colon) = [ps EXCEPT ![Len(ps)] = Append(l, Dot)] /\ l \in Seq(Int)
  BY <1>1, <1>2, ItemsOn
<1> HIDE DEF ps, l
<1>5. q \in Checked /\ q.state # "error" /\ q \in Parsers /\ InBounds(q)
  BY <1>1, CheckedParts DEF Holding
<1>6. PICK ns : LastRead(q, l, ns)
  BY <1>1 DEF Holding, l
<1>7. \E ms : LastRead(r, Append(l, Dot), ms)
  BY <1>5, <1>6, LastDot
<1>8. r \in Checked
  BY <1>2, <1>5, ReadDotType DEF Checked, InBounds
<1>9. r.state = "proc" /\ r.result_hex = q.result_hex /\ r.separator = q.separator
  <2>1. q.state = "proc" /\ q.accum_dec < Octet /\ Len(q.result_dec) < 3
    BY <1>5, ErrorIsError DEF ReadDot
  <2> QED BY <1>5, <2>1 DEF ReadDot, Parsers
<1> HIDE DEF r
<1>10. Append(l, Dot) \in Seq(Int)
  BY <1>2, <1>4
<1>11. Holding(r, Items(f), [ps EXCEPT ![Len(ps)] = Append(l, Dot)], gap)
  <2>1. PICK ms : LastRead(r, Append(l, Dot), ms)
    BY <1>7
  <2>2. r.state # "error"
    BY <1>9
  <2>3. PICK u \in Seq(Int) : u = Append(l, Dot)
    BY <1>10
  <2> QED BY <1>1, <1>8, <1>9, <2>1, <2>2, <2>3, HoldingLast
<1>12. Append(t, Dot) # <<>>
  BY <1>1, <1>2, AppendAt
<1> QED BY <1>3, <1>4, <1>9, <1>11, <1>12 DEF Track, r

\* a colon that separates,
LEMMA TrackColon ==
  ASSUME NEW s \in Seq(Int), NEW q, NEW gap \in BOOLEAN, NEW f, NEW t, Track(s, q, gap, f, t), Settles(t),
         SingleColon(q).state # "error"
  PROVE  Track(Append(s, Colon), SingleColon(q), gap, f, Append(t, Colon)) /\ SingleColon(q).pending = FALSE
<1> DEFINE ps == SplitAt(t, Colon)
<1>1. Holding(q, Items(f), ps, gap) /\ TextIs(s, gap, f, t) /\ t \in Seq(Signs)
  BY DEF Track, TextIs
<1>2. q \in Checked /\ q \in Parsers
  BY <1>1, CheckedParts DEF Holding
<1>3. q.state = "proc" /\ GroupEnds(q) /\ SingleColon(q) = PushGroup(q)
  BY <1>2, ErrorIsError DEF SingleColon
<1>4. ~ (f = <<>> /\ t = <<>>)
  BY <1>3 DEF Track
<1>5. TextIs(Append(s, Colon), gap, f, Append(t, Colon))
  BY <1>1, <1>4, SignsAreInt, TextOn
<1>6. SplitAt(Append(t, Colon), Colon) = Append(ps, <<>>)
  BY <1>1, SignsAreInt, ItemsOn
<1> HIDE DEF ps
<1>7. Holding(PushGroup(q), Items(f), Append(ps, <<>>), gap) /\ PushGroup(q).state = q.state
  BY <1>1, <1>3, HoldingPush
<1>8. PushGroup(q).pending = FALSE
  BY <1>2 DEF PushGroup, Parsers
<1>9. Append(t, Colon) # <<>>
  BY <1>1, SignsAreInt, AppendAt
<1> QED BY <1>3, <1>5, <1>6, <1>7, <1>8, <1>9 DEF Track

\* and two that make the gap.
LEMMA TrackGap ==
  ASSUME NEW s \in Seq(Int), NEW q, NEW gap \in BOOLEAN, NEW f, NEW t, Track(s, q, gap, f, t), Settles(t),
         DoubleColon(q).state # "error"
  PROVE  Track(Append(Append(s, Colon), Colon), DoubleColon(q), TRUE, t, <<>>) /\ DoubleColon(q).pending = FALSE
<1> DEFINE ps == SplitAt(t, Colon)
           x == IF q.state = "proc" THEN PushGroup(q) ELSE [q EXCEPT !.pending = FALSE]
           r == [x EXCEPT !.separator = Len(x.result_hex)]
<1>1. Holding(q, Items(f), ps, gap) /\ TextIs(s, gap, f, t) /\ t \in Seq(Signs)
  BY DEF Track, TextIs
<1>2. q \in Checked /\ q \in Parsers /\ InBounds(q) /\ q.state # "error"
  BY <1>1, CheckedParts DEF Holding
<1>3. q.separator = NoSeparator /\ GroupEnds(q) /\ DoubleColon(q) = r
  BY <1>2, ErrorIsError DEF DoubleColon
<1>4. gap = FALSE
  <2>1. gap => q.separator = Len(Items(f)) /\ Len(Items(f)) \in Nat
    BY <1>1 DEF Holding
  <2> QED BY <1>3, <2>1 DEF NoSeparator
<1>5. TextIs(Append(Append(s, Colon), Colon), TRUE, t, <<>>)
  BY <1>1, <1>4, TextGap
<1>6. f = <<>> /\ Items(<<>>) = <<>> /\ SplitAt(<<>>, Colon) = << <<>> >>
  BY <1>1, <1>4, SplitSteps, Zenon DEF TextIs, Items
<1>7. r \in Checked
  BY <1>2, <1>3, DoubleColonType DEF Checked, InBounds
<1>8. x \in Parsers /\ x.pending = FALSE /\ x.state = q.state
  BY <1>2, PushGroupType, <1>3 DEF PushGroup, Parsers, InBounds
<1> HIDE DEF x, r
<1>9. /\ r.state = q.state /\ r.separator = Len(x.result_hex) /\ r.result_hex = x.result_hex
      /\ r.result_dec = x.result_dec /\ r.accum_hex = x.accum_hex /\ r.accum_dec = x.accum_dec /\ r.pending = FALSE
  BY <1>8 DEF r, Parsers
<1>10. << <<>> >> \in Seq(Seq(Int)) \ {<<>>} /\ Len(<< <<>> >>) = 1 /\ << <<>> >>[1] = <<>>
  <2>1. <<>> \in Seq(Int)
    OBVIOUS
  <2> QED BY <2>1
<1>11. ASSUME NEW fs \in Seq(Seq(Int)), Pushed(x.result_hex, 0, fs, Len(fs)), Len(x.result_hex) = Len(fs),
              x.result_dec = <<>>, x.accum_hex = 0, x.accum_dec = 0
       PROVE  Holding(r, fs, << <<>> >>, TRUE)
  <2>1. PICK ps1 : ps1 = << <<>> >>
    OBVIOUS
  <2>2. LastRead(r, <<>>, << <<>> >>)
    BY <1>9, <1>11, LastBegins
  <2>3. Len(fs) \in Nat /\ Len(ps1) - 1 = 0 /\ ps1[Len(ps1)] = <<>> /\ Len(fs) + Len(ps1) - 1 = Len(fs)
    BY <1>10, <2>1
  <2>4. Pushed(r.result_hex, Len(fs), ps1, 0)
    BY DEF Pushed
  <2>5. Holding(r, fs, ps1, TRUE)
    BY <1>2, <1>7, <1>9, <1>10, <1>11, <2>1, <2>2, <2>3, <2>4 DEF Holding
  <2> QED BY <2>1, <2>5
<1>12. Holding(r, Items(t), << <<>> >>, TRUE)
  <2>1. CASE q.state = "proc"
    <3>1. t # <<>> /\ Items(t) = ps
      BY <1>6, <2>1 DEF Track, Items, ps
    <3>2. x = PushGroup(q)
      BY <2>1 DEF x
    <3>3. ps \in Seq(Seq(Int))
      BY <1>1 DEF Holding
    <3>4. Holding(x, <<>>, Append(ps, <<>>), gap) /\ Pushed(x.result_hex, 0, ps, Len(ps))
      <4>1. Holding(q, <<>>, ps, gap) /\ Len(<<>>) = 0
        BY <1>1, <1>6
      <4> HIDE DEF ps
      <4> QED BY <1>3, <3>2, <4>1, HoldingPush
    <3>5. Len(x.result_hex) = Len(ps)
      <4>0. Holding(q, <<>>, ps, gap) /\ Len(<<>>) = 0
        BY <1>1, <1>6
      <4> HIDE DEF ps
      <4>9. Len(q.result_hex) = Len(<<>>) + Len(ps) - 1 /\ Len(ps) \in Nat \ {0} /\ q \in Checked
        BY <4>0, HoldingParts
      <4>8. q.result_hex \in Seq(Group)
        BY <1>2, CheckedParts
      <4>1. Len(q.result_hex) = Len(ps) - 1 /\ q.result_hex \in Seq(Group) /\ Len(ps) \in Nat
        BY <4>0, <4>8, <4>9
      <4>2. x.result_hex = Append(q.result_hex, q.accum_hex)
        BY <1>2, <3>2 DEF PushGroup, Parsers
      <4>3. Len(x.result_hex) = Len(q.result_hex) + 1
        BY <4>1, <4>2
      <4> QED BY <4>1, <4>3
    <3>6. x.result_dec = <<>> /\ x.accum_hex = 0 /\ x.accum_dec = 0
      <4>1. q.result_dec = <<>>
        BY <1>3 DEF GroupEnds
      <4> QED BY <1>2, <3>2, <4>1 DEF PushGroup, Parsers
    <3> QED BY <1>11, <3>1, <3>3, <3>4, <3>5, <3>6
  <2>2. CASE q.state # "proc"
    <3>1. t = <<>> /\ q.state = "start"
      BY <1>2, <2>2 DEF Track, Parsers
    <3>2. ps = << <<>> >> /\ Items(t) = <<>> /\ <<>> \in Seq(Seq(Int)) /\ Len(<<>>) = 0
      BY <1>6, <3>1 DEF ps
    <3>3. x = [q EXCEPT !.pending = FALSE]
      BY <2>2 DEF x
    <3>4. Len(q.result_hex) = 0 /\ q.result_dec = <<>> /\ q.accum_hex = 0 /\ q.accum_dec = 0
      <4>1. Len(q.result_hex) = 0
        BY <1>1, <1>6, <1>10, <3>2 DEF Holding
      <4>2. PICK ns : LastRead(q, <<>>, ns)
        BY <1>1, <1>10, <3>2 DEF Holding
      <4>3. ns = << <<>> >>
        <5>1. SplitAt(<<>>, Dot) = << <<>> >>
          BY SplitSteps, Zenon
        <5> QED BY <4>2, <5>1 DEF LastRead
      <4>4. q.accum_hex = Value(<<>>, HexBase) % Word /\ q.accum_dec = Value(<<>>, DecBase) % Word
        BY <1>10, <4>2, <4>3 DEF LastRead
      <4>5. Value(<<>>, DecBase) = 0 /\ Value(<<>>, HexBase) = 0 /\ 0 % Word = 0
        BY ValueSteps, BaseAssumption, WordPositive, RemainderBelow
      <4> QED BY <1>3, <4>1, <4>4, <4>5 DEF GroupEnds
    <3>5. x.result_hex = q.result_hex /\ x.result_dec = <<>> /\ x.accum_hex = 0 /\ x.accum_dec = 0
      BY <1>2, <3>3, <3>4 DEF Parsers
    <3>6. Pushed(x.result_hex, 0, <<>>, Len(<<>>))
      BY <3>2 DEF Pushed
    <3> QED BY <1>11, <3>2, <3>4, <3>5, <3>6
  <2> QED BY <2>1, <2>2
<1>13. r.state = "start" <=> t = <<>>
  BY <1>6, <1>9 DEF Track
<1> QED BY <1>3, <1>5, <1>6, <1>9, <1>12, <1>13 DEF Track

\* A character that is not a colon,
LEMMA TrackSettled ==
  ASSUME NEW s \in Seq(Int), NEW q, NEW gap \in BOOLEAN, NEW f, NEW t, Track(s, q, gap, f, t), q.pending = FALSE,
         NEW c \in Int, c # Colon, Settled(q, c).state # "error"
  PROVE  /\ Track(Append(s, c), Settled(q, c), gap, f, Append(t, c)) /\ Settles(Append(t, c))
         /\ Settled(q, c).pending = FALSE
<1>1. q \in Checked /\ q.state # "error" /\ q \in Parsers
  BY CheckedParts DEF Track, Holding
<1>2. CASE c = Dot
  <2>1. Settled(q, c) = ReadDot(q)
    BY <1>1, <1>2 DEF Settled, Dot, Colon
  <2>2. ReadDot(q).pending = FALSE
    BY <1>1 DEF ReadDot, Error, Parsers
  <2> QED BY <1>2, <2>1, <2>2, TrackDot
<1>3. CASE c # Dot
  <2>1. Settled(q, c) = ReadDigit(q, c)
    BY <1>1, <1>3 DEF Settled
  <2>2. c \in Digit
    BY <1>1, <2>1, ErrorIsError DEF ReadDigit
  <2>3. ReadDigit(q, c).pending = FALSE
    BY <1>1, <2>2 DEF ReadDigit, Parsers
  <2> QED BY <2>1, <2>2, <2>3, TrackDigit
<1> QED BY <1>2, <1>3

\* The text s behind which the automaton is q, without the colon that is not decided.
Tracked(s, q, gap, f, t, s0) ==
  /\ s0 \in Seq(Int) /\ gap \in BOOLEAN /\ s = (IF q.pending THEN Append(s0, Colon) ELSE s0)
  /\ Track(s0, q, gap, f, t) /\ Settles(t)
Follows(s, q) == q.state # "error" => \E gap, f, t, s0 : Tracked(s, q, gap, f, t, s0)

\* One more character is followed, whether it settles a colon or not.
LEMMA FollowsStep ==
  ASSUME NEW s \in Seq(Int), NEW q \in Checked, Follows(s, q), NEW c \in Int
  PROVE  Follows(Append(s, c), Read(q, c))
<1> DEFINE r == Read(q, c)
<1>0. q \in Parsers /\ InBounds(q)
  BY CheckedParts
<1>1. SUFFICES ASSUME r.state # "error"
               PROVE  \E gap, f, t, s0 : Tracked(Append(s, c), r, gap, f, t, s0)
  BY DEF Follows
<1>2. r \in Checked
  BY <1>0, ReadType DEF Checked, InBounds
<1>3. q.state # "error"
  <2> SUFFICES ASSUME q.state = "error" PROVE FALSE
    OBVIOUS
  <2>1. SingleColon(q).state = "error" /\ DoubleColon(q).state = "error"
    BY <1>0, ErrorIsError DEF SingleColon, DoubleColon, PushGroup, Parsers
  <2>2. Settled(q, c) = q /\ Settled(SingleColon(q), c) = SingleColon(q)
    BY <2>1 DEF Settled
  <2> QED BY <1>1, <2>1, <2>2 DEF Read
<1>4. PICK gap, f, t, s0 : Tracked(s, q, gap, f, t, s0)
  BY <1>3 DEF Follows
<1>5. /\ s0 \in Seq(Int) /\ gap \in BOOLEAN /\ s = (IF q.pending THEN Append(s0, Colon) ELSE s0)
      /\ Track(s0, q, gap, f, t) /\ Settles(t) /\ q.pending \in BOOLEAN
  BY <1>0, <1>4 DEF Tracked, Parsers
<1>6. CASE ~ q.pending /\ c = Colon
  <2>1. r = [q EXCEPT !.pending = TRUE]
    BY <1>3, <1>6 DEF Read, Settled
  <2> HIDE DEF r
  <2>2. /\ r.state = q.state /\ r.result_hex = q.result_hex /\ r.result_dec = q.result_dec /\ r.separator = q.separator
        /\ r.accum_hex = q.accum_hex /\ r.accum_dec = q.accum_dec /\ r.pending = TRUE
    BY <1>0, <2>1 DEF Parsers
  <2>3. Track(s0, r, gap, f, t)
    BY <1>2, <1>5, <2>2, TrackSame
  <2>4. Tracked(Append(s, c), r, gap, f, t, s0)
    BY <1>5, <1>6, <2>2, <2>3 DEF Tracked
  <2> QED BY <2>4
<1>7. CASE ~ q.pending /\ c # Colon
  <2>1. r = Settled(q, c) /\ q.pending = FALSE
    BY <1>5, <1>7 DEF Read
  <2>2. Track(Append(s0, c), r, gap, f, Append(t, c)) /\ Settles(Append(t, c)) /\ r.pending = FALSE
    <3>1. Settled(q, c).state # "error"
      BY <1>1, <2>1
    <3> HIDE DEF r
    <3> QED BY <1>5, <1>7, <2>1, <3>1, TrackSettled, Zenon
  <2> HIDE DEF r
  <2>3. Append(s0, c) \in Seq(Int)
    BY <1>5
  <2>4. Tracked(Append(s, c), r, gap, f, Append(t, c), Append(s0, c))
    BY <1>5, <1>7, <2>2, <2>3 DEF Tracked
  <2> QED BY <2>4
<1>8. CASE q.pending /\ c = Colon
  <2>1. r = DoubleColon(q)
    BY <1>8 DEF Read
  <2>2. Track(Append(Append(s0, Colon), Colon), r, TRUE, t, <<>>) /\ r.pending = FALSE
    <3>1. DoubleColon(q).state # "error"
      BY <1>1, <2>1
    <3> HIDE DEF r
    <3> QED BY <1>5, <2>1, <3>1, TrackGap, Zenon
  <2> HIDE DEF r
  <2>3. Append(Append(s0, Colon), Colon) \in Seq(Int) /\ Settles(<<>>)
    BY <1>5, SignsAreInt DEF Settles
  <2>4. Tracked(Append(s, c), r, TRUE, t, <<>>, Append(Append(s0, Colon), Colon))
    BY <1>5, <1>8, <2>2, <2>3 DEF Tracked
  <2> QED BY <2>4
<1>9. CASE q.pending /\ c # Colon
  <2> DEFINE x == SingleColon(q)
  <2>1. r = Settled(x, c)
    BY <1>9 DEF Read
  <2>2. x.state # "error"
    BY <1>1, <2>1 DEF Settled
  <2>3. Track(Append(s0, Colon), x, gap, f, Append(t, Colon)) /\ x.pending = FALSE
    BY <1>5, <2>2, TrackColon
  <2>4. PICK s1, t1 : s1 \in Seq(Int) /\ s1 = Append(s0, Colon) /\ t1 = Append(t, Colon)
    <3>1. Append(s0, Colon) \in Seq(Int)
      BY <1>5, SignsAreInt
    <3> HIDE DEF r, x
    <3> QED BY <3>1
  <2>5. Track(Append(s1, c), r, gap, f, Append(t1, c)) /\ Settles(Append(t1, c)) /\ r.pending = FALSE
    <3>1. Settled(x, c).state # "error"
      BY <1>1, <2>1
    <3>2. Track(s1, x, gap, f, t1)
      BY <2>3, <2>4
    <3> HIDE DEF x, r
    <3>3. gap \in BOOLEAN /\ c # Colon /\ s1 \in Seq(Int)
      BY <1>5, <1>9, <2>4
    <3>4. /\ Track(Append(s1, c), Settled(x, c), gap, f, Append(t1, c)) /\ Settles(Append(t1, c))
          /\ Settled(x, c).pending = FALSE
      BY <2>3, <3>1, <3>2, <3>3, TrackSettled
    <3> QED BY <2>1, <3>4
  <2> HIDE DEF r
  <2>6. Append(s1, c) \in Seq(Int)
    BY <2>4
  <2>7. Tracked(Append(s, c), r, gap, f, Append(t1, c), Append(s1, c))
    BY <1>5, <1>9, <2>4, <2>5, <2>6 DEF Tracked
  <2> QED BY <2>7
<1> QED BY <1>5, <1>6, <1>7, <1>8, <1>9

\* The automaton follows every text.
LEMMA EveryTextFollowed == ASSUME NEW s \in Seq(Int) PROVE Follows(s, Parsed(s))
<1> DEFINE e(k) == SubSeq(s, 1, k)
           S == {k \in 0 .. Len(s) : Follows(e(k), Parsed(e(k)))}
<1>0. Len(s) \in Nat
  OBVIOUS
<1>1. 0 \in S
  <2>1. e(0) = <<>> /\ Parsed(<<>>) = NewParser
    BY ParsedSteps
  <2>2. NewParser.pending = FALSE /\ NewParser.state = "start" /\ <<>> \in Seq(Int)
    BY DEF NewParser
  <2>3. Tracked(<<>>, NewParser, FALSE, <<>>, <<>>, <<>>)
    BY <2>2, TrackBegin DEF Tracked
  <2>4. Follows(<<>>, NewParser)
    BY <2>3 DEF Follows
  <2>5. Follows(e(0), Parsed(e(0)))
    BY <2>1, <2>4
  <2> HIDE DEF e
  <2> QED BY <1>0, <2>5
<1>2. ASSUME NEW k \in 1 .. Len(s), k - 1 \in S PROVE k \in S
  <2>1. PICK m \in 0 .. Len(s) : m = k - 1
    BY <1>0
  <2>2. e(k) = Append(e(m), s[k]) /\ s[k] \in Int /\ e(m) \in Seq(Int)
    BY <1>0, <2>1
  <2>3. PICK w \in Seq(Int), c \in Int : w = e(m) /\ c = s[k]
    BY <2>2
  <2>4. Parsed(w) \in Checked /\ Parsed(Append(w, c)) = Read(Parsed(w), c)
    BY ParsedSteps
  <2>5. Follows(w, Parsed(w))
    BY <1>2, <2>1, <2>3
  <2>6. Follows(Append(w, c), Parsed(Append(w, c)))
    BY <2>4, <2>5, FollowsStep
  <2>7. Follows(e(k), Parsed(e(k)))
    BY <2>2, <2>3, <2>6
  <2> HIDE DEF e
  <2> QED BY <1>0, <2>7
<1>3. 0 .. Len(s) \subseteq S
  <2> HIDE DEF S
  <2> QED BY <1>0, <1>1, <1>2, RangeInduction
<1>4. Follows(e(Len(s)), Parsed(e(Len(s))))
  BY <1>0, <1>3
<1>5. e(Len(s)) = s
  BY <1>0
<1> QED BY <1>4, <1>5

-----------------------------------------------------------------------------
(* What the reference reads of a text *)

\* Before, behind and between: the text s is cut at its gap into f and t.
Cut(s, gap, f, t) ==
  /\ f \in Seq(Int) /\ t \in Seq(Int) /\ Items(f) \in Seq(Seq(Int)) /\ Items(t) \in Seq(Seq(Int))
  /\ gap => First(s) # 0 /\ Before(s) = Items(f) /\ Behind(s) = Items(t)
  /\ ~ gap => f = <<>> /\ First(s) = 0 /\ Before(s) = Items(t) /\ Behind(s) = <<>>
  /\ Before(s) \o Behind(s) = Items(f) \o Items(t)

\* The items of a text are texts.
LEMMA ItemsType ==
  ASSUME NEW s \in Seq(Int)
  PROVE  Items(s) \in Seq(Seq(Int)) /\ (s = <<>> => Items(s) = <<>>) /\ (s # <<>> => Items(s) = SplitAt(s, Colon))
<1>1. SplitAt(s, Colon) \in Seq(Seq(Int)) \ {<<>>}
  BY SplitSteps, Zenon
<1>2. <<>> \in Seq(Seq(Int))
  OBVIOUS
<1> QED BY <1>1, <1>2 DEF Items

\* What stands behind the gap.
LEMMA BackOf ==
  ASSUME NEW s \in Seq(Int), NEW t \in Seq(Int), NEW m \in Nat, EndsWith(s, m, t)
  PROVE  SubSeq(s, m + 1, Len(s)) = t
<1>1. Len(s) = m + Len(t) /\ (\A k \in 1 .. Len(t) : s[m + k] = t[k]) /\ Len(t) \in Nat /\ Len(s) \in Nat
  BY DEF EndsWith
<1>2. PICK a \in Nat, l \in Nat : a = m + 1 /\ l = Len(s) /\ l - a + 1 = Len(t)
  <2>1. m + 1 \in Nat /\ Len(s) - (m + 1) + 1 = Len(t)
    BY <1>1
  <2> QED BY <1>1, <2>1
<1>3. PICK u : u = SubSeq(s, a, l)
  OBVIOUS
<1>4. /\ u \in Seq(Int) /\ Len(u) = (IF a <= l THEN l - a + 1 ELSE 0)
      /\ \A k \in 1 .. l - a + 1 : u[k] = s[a + k - 1]
  <2>1. \A i \in a .. l : s[i] \in Int
    BY <1>1, <1>2
  <2> QED BY <1>1, <1>2, <1>3, <2>1
<1>5. Len(u) = Len(t)
  BY <1>1, <1>2, <1>4
<1>6. ASSUME NEW k \in 1 .. Len(t) PROVE u[k] = t[k]
  <2>1. k \in 1 .. l - a + 1 /\ a + k - 1 = m + k
    BY <1>1, <1>2
  <2> QED BY <1>1, <1>4, <2>1
<1>7. u = t
  <2>1. u \in [1 .. Len(t) -> Int] /\ t \in [1 .. Len(t) -> Int]
    BY <1>4, <1>5
  <2> QED BY <1>6, <2>1
<1> QED BY <1>2, <1>3, <1>7

\* A text without two colons together,
LEMMA CutNone ==
  ASSUME NEW t \in Seq(Int), Apart(t) PROVE Cut(t, FALSE, <<>>, t) /\ Doubles(t) = {}
<1>1. Doubles(t) = {}
  BY DEF Doubles, Apart
<1>2. First(t) = 0 /\ Before(t) = Items(t) /\ Behind(t) = <<>>
  BY <1>1 DEF First, Before, Behind
<1>3. Items(<<>>) = <<>> /\ Items(<<>>) \in Seq(Seq(Int)) /\ <<>> \in Seq(Int) /\ Items(t) \in Seq(Seq(Int))
  <2>1. <<>> \in Seq(Int)
    OBVIOUS
  <2> QED BY <2>1, ItemsType
<1>4. Items(t) \o <<>> = Items(t) /\ <<>> \o Items(t) = Items(t)
  BY <1>3
<1> QED BY <1>1, <1>2, <1>3, <1>4 DEF Cut

\* and one that is cut where they stand first.
LEMMA CutAt ==
  ASSUME NEW f \in Seq(Int), NEW t \in Seq(Int), Apart(f), Settles(f), NEW s, s = f \o <<Colon, Colon>> \o t
  PROVE  /\ Cut(s, TRUE, f, t) /\ s \in Seq(Int) /\ Len(f) + 1 \in Doubles(s)
         /\ \A i \in Doubles(s) : i >= Len(f) + 1 /\ (Apart(t) => i <= Len(f) + 2)
<1> DEFINE n == Len(f)
<1>1. PICK w \in Seq(Int) : w = <<Colon, Colon>> /\ Len(w) = 2 /\ w[1] = Colon /\ w[2] = Colon
  <2>1. <<Colon, Colon>> \in Seq(Int)
    BY SignsAreInt
  <2> QED BY <2>1
<1>2. PICK v \in Seq(Int) : v = f \o w
  <2>1. f \o w \in Seq(Int)
    OBVIOUS
  <2> QED BY <2>1
<1>3. Len(v) = n + 2 /\ (\A k \in 1 .. n : v[k] = f[k]) /\ (\A k \in 1 .. 2 : v[n + k] = w[k]) /\ n \in Nat
  BY <1>1, <1>2, ConcatAt
<1>4. s = v \o t
  BY <1>1, <1>2
<1>5. /\ s \in Seq(Int) /\ Len(s) = Len(v) + Len(t) /\ (\A k \in 1 .. Len(v) : s[k] = v[k]) /\ Len(t) \in Nat
      /\ \A k \in 1 .. Len(t) : s[Len(v) + k] = t[k]
  <2>1. v \o t \in Seq(Int)
    OBVIOUS
  <2>2. /\ Len(v \o t) = Len(v) + Len(t) /\ (\A k \in 1 .. Len(v) : (v \o t)[k] = v[k]) /\ Len(t) \in Nat
        /\ \A k \in 1 .. Len(t) : (v \o t)[Len(v) + k] = t[k]
    BY ConcatAt
  <2> QED BY <1>4, <2>1, <2>2
<1> HIDE DEF n
<1>6. v[n + 1] = Colon /\ v[n + 2] = Colon
  BY <1>1, <1>3
<1>7. /\ Len(s) = n + 2 + Len(t) /\ (\A k \in 1 .. n : s[k] = f[k]) /\ s[n + 1] = Colon /\ s[n + 2] = Colon
      /\ \A k \in 1 .. Len(t) : s[n + 2 + k] = t[k]
  <2>1. \A k \in 1 .. n : s[k] = f[k]
    BY <1>3, <1>5
  <2>2. n + 1 \in 1 .. Len(v) /\ n + 2 \in 1 .. Len(v)
    BY <1>3
  <2> QED BY <1>3, <1>5, <1>6, <2>1, <2>2
<1>8. n + 1 \in Doubles(s)
  <2>1. n + 1 \in 1 .. Len(s) - 1 /\ n + 1 + 1 = n + 2
    BY <1>3, <1>5, <1>7
  <2> QED BY <1>7, <2>1 DEF Doubles
<1>9. ASSUME NEW i \in Doubles(s) PROVE i \in Nat /\ i >= n + 1
  <2>1. i \in 1 .. Len(s) - 1 /\ s[i] = Colon /\ s[i + 1] = Colon
    BY DEF Doubles
  <2>2. i \in Nat /\ i >= 1
    BY <1>3, <1>5, <1>7, <2>1
  <2> SUFFICES ASSUME i <= n PROVE FALSE
    BY <1>3, <2>2
  <2>3. i \in 1 .. n /\ f[i] = Colon
    BY <1>3, <1>7, <2>1, <2>2
  <2>4. CASE i = n
    <3>1. f # <<>> /\ f[Len(f)] = Colon
      BY <2>3, <2>4 DEF n
    <3> QED BY <3>1 DEF Settles
  <2>5. CASE i # n
    <3>1. i \in 1 .. n - 1 /\ i + 1 \in 1 .. n
      BY <1>3, <2>3, <2>5
    <3>2. f[i + 1] = Colon
      BY <1>7, <2>1, <3>1
    <3> QED BY <2>3, <3>1, <3>2 DEF Apart, n
  <2> QED BY <2>4, <2>5
<1>10. ASSUME NEW i \in Doubles(s), Apart(t) PROVE i <= n + 2
  <2>1. i \in 1 .. Len(s) - 1 /\ s[i] = Colon /\ s[i + 1] = Colon
    BY DEF Doubles
  <2> SUFFICES ASSUME ~ (i <= n + 2) PROVE FALSE
    OBVIOUS
  <2>2. PICK k \in 1 .. Len(t) - 1 : i = n + 2 + k
    <3>1. i - n - 2 \in 1 .. Len(t) - 1
      BY <1>3, <1>5, <1>7, <2>1
    <3>2. i = n + 2 + (i - n - 2)
      BY <1>3, <2>1
    <3> QED BY <3>1, <3>2
  <2>3. k \in 1 .. Len(t) /\ k + 1 \in 1 .. Len(t) /\ i + 1 = n + 2 + (k + 1)
    BY <1>3, <1>5, <2>2
  <2>4. t[k] = Colon /\ t[k + 1] = Colon
    BY <1>7, <2>1, <2>2, <2>3
  <2> QED BY <1>10, <2>2, <2>4 DEF Apart
<1>11. First(s) = n + 1
  <2>1. Doubles(s) # {}
    BY <1>8
  <2>2. First(s) = CHOOSE i \in Doubles(s) : \A j \in Doubles(s) : i <= j
    BY <2>1 DEF First
  <2>3. \A j \in Doubles(s) : n + 1 <= j
    BY <1>3, <1>9
  <2>4. First(s) \in Doubles(s) /\ \A j \in Doubles(s) : First(s) <= j
    BY <1>8, <2>2, <2>3
  <2>5. First(s) <= n + 1 /\ First(s) >= n + 1 /\ First(s) \in Nat
    BY <1>8, <1>9, <2>4
  <2> QED BY <1>3, <2>5
<1> HIDE DEF n
<1>12. SubSeq(s, 1, n) = f
  BY <1>3, <1>5, <1>7 DEF n
<1>13. SubSeq(s, n + 3, Len(s)) = t
  <2>1. PICK m \in Nat : m = n + 2 /\ Len(s) = m + Len(t) /\ m + 1 = n + 3
    BY <1>3, <1>5, <1>7
  <2>2. EndsWith(s, m, t)
    BY <1>7, <2>1 DEF EndsWith
  <2>3. SubSeq(s, m + 1, Len(s)) = t
    BY <1>5, <2>2, BackOf
  <2> QED BY <2>1, <2>3
<1>14. Before(s) = Items(f) /\ Behind(s) = Items(t) /\ First(s) # 0
  <2>1. n + 1 # 0 /\ n + 1 - 1 = n /\ n + 1 + 2 = n + 3
    BY <1>3
  <2>2. SubSeq(s, 1, First(s) - 1) = f /\ SubSeq(s, First(s) + 2, Len(s)) = t /\ First(s) # 0
    <3>1. First(s) - 1 = n /\ First(s) + 2 = n + 3 /\ First(s) # 0
      BY <1>3, <1>11
    <3> QED BY <1>12, <1>13, <3>1, Zenon
  <2> QED BY <2>2 DEF Before, Behind
<1>15. Cut(s, TRUE, f, t)
  BY <1>14, ItemsType DEF Cut
<1> QED BY <1>5, <1>8, <1>9, <1>10, <1>15 DEF n

\* The length of a concatenation, and its elements.
LEMMA JoinLen ==
  ASSUME NEW a \in Seq(Int), NEW b \in Seq(Int)
  PROVE  a \o b \in Seq(Int) /\ Len(a \o b) = Len(a) + Len(b) /\ Len(a) \in Nat /\ Len(b) \in Nat
<1>1. a \o b \in Seq(Int) /\ Len(a) \in Nat /\ Len(b) \in Nat
  OBVIOUS
<1>2. Len(a \o b) = Len(a) + Len(b)
  OBVIOUS
<1> QED BY <1>1, <1>2

LEMMA JoinAt ==
  ASSUME NEW S, NEW s \in Seq(S), NEW t \in Seq(S)
  PROVE  /\ s \o t \in Seq(S) /\ Len(s) \in Nat /\ Len(t) \in Nat /\ Len(s \o t) = Len(s) + Len(t)
         /\ \A k \in 1 .. Len(s) : (s \o t)[k] = s[k]
         /\ \A k \in 1 .. Len(t) : (s \o t)[Len(s) + k] = t[k]
OBVIOUS

\* A text that the automaton tracks is cut where it says.
LEMMA TrackCut ==
  ASSUME NEW s \in Seq(Int), NEW q, NEW gap \in BOOLEAN, NEW f, NEW t, Track(s, q, gap, f, t)
  PROVE  Cut(s, gap, f, t)
<1>1. TextIs(s, gap, f, t)
  BY DEF Track
<1>2. f \in Seq(Int) /\ t \in Seq(Int)
  BY <1>1, SignsAreInt, SeqOver DEF TextIs
<1>3. CASE gap = TRUE
  <2>1. Apart(f) /\ Settles(f) /\ s = f \o <<Colon, Colon>> \o t
    BY <1>1, <1>3 DEF TextIs
  <2> QED BY <1>2, <1>3, <2>1, CutAt
<1>4. CASE gap = FALSE
  <2>1. Apart(t) /\ s = t /\ f = <<>>
    BY <1>1, <1>4 DEF TextIs
  <2> QED BY <1>2, <1>4, <2>1, CutNone
<1> QED BY <1>3, <1>4

\* An item that is a number, and all items of a text.
Plain(w, v) == w \in Seq(Digit) /\ SplitAt(w, Dot) = <<w>> /\ v = Value(w, HexBase) % Word
ItemsRead(q, all) ==
  /\ all \in Seq(Seq(Int)) /\ Len(all) \in {Len(q.result_hex), Len(q.result_hex) + 1}
  /\ \A i \in 1 .. Len(q.result_hex) : Plain(all[i], q.result_hex[i])
  /\ Len(all) = Len(q.result_hex) + 1 => \E ns : LastRead(q, all[Len(all)], ns)
  /\ Len(all) = Len(q.result_hex) => q.result_dec = <<>> /\ q.accum_hex = 0

\* An empty last item leaves both numbers at 0.
LEMMA EmptyLast ==
  ASSUME NEW q, NEW ns, LastRead(q, <<>>, ns)
  PROVE  q.accum_hex = 0 /\ Len(q.result_dec) = 0
<1>1. ns = << <<>> >>
  <2>1. SplitAt(<<>>, Dot) = << <<>> >>
    BY SplitSteps, Zenon
  <2> QED BY <2>1 DEF LastRead
<1>2. Len(ns) = 1 /\ ns[1] = <<>>
  BY <1>1
<1>3. q.accum_hex = Value(<<>>, HexBase) % Word /\ Len(q.result_dec) = Len(ns) - 1
  BY <1>2 DEF LastRead
<1>4. Value(<<>>, HexBase) = 0 /\ 0 % Word = 0
  BY ValueSteps, BaseAssumption, WordPositive, RemainderBelow
<1> QED BY <1>2, <1>3, <1>4

\* The groups the automaton holds are the items of the reference.
LEMMA TrackItems ==
  ASSUME NEW s \in Seq(Int), NEW q, NEW gap \in BOOLEAN, NEW f, NEW t, Track(s, q, gap, f, t)
  PROVE  ItemsRead(q, Items(f) \o Items(t))
<1> DEFINE fs == Items(f)
           ps == SplitAt(t, Colon)
           h == q.result_hex
           all == Items(f) \o Items(t)
<1>1. Cut(s, gap, f, t) /\ Holding(q, fs, ps, gap)
  BY TrackCut DEF Track
<1>2. fs \in Seq(Seq(Int)) /\ t \in Seq(Int) /\ Items(t) \in Seq(Seq(Int))
  BY <1>1 DEF Cut
<1>3. /\ Pushed(h, 0, fs, Len(fs)) /\ Pushed(h, Len(fs), ps, Len(ps) - 1) /\ \E ns : LastRead(q, ps[Len(ps)], ns)
  BY <1>1 DEF Holding
<1>4. Len(fs) \in Nat /\ Len(ps) \in Nat \ {0} /\ Len(h) = Len(fs) + Len(ps) - 1 /\ q \in Checked /\ Len(h) \in Nat
  BY <1>1, HoldingParts
<1>5. ps \in Seq(Seq(Int))
  BY <1>1 DEF Holding
<1>6. all \in Seq(Seq(Int)) /\ Len(all) = Len(fs) + Len(Items(t))
      /\ (\A k \in 1 .. Len(fs) : all[k] = fs[k]) /\ \A k \in 1 .. Len(Items(t)) : all[Len(fs) + k] = Items(t)[k]
  <2>1. PICK S : S = Seq(Int)
    OBVIOUS
  <2> HIDE DEF fs
  <2>2. fs \in Seq(S) /\ Items(t) \in Seq(S)
    BY <1>2, <2>1
  <2>3. PICK x : x = Items(t)
    OBVIOUS
  <2>4. /\ fs \o x \in Seq(S) /\ Len(fs \o x) = Len(fs) + Len(x)
        /\ (\A k \in 1 .. Len(fs) : (fs \o x)[k] = fs[k]) /\ \A k \in 1 .. Len(x) : (fs \o x)[Len(fs) + k] = x[k]
    BY <2>2, <2>3, JoinAt
  <2> QED BY <2>1, <2>3, <2>4 DEF fs
<1> HIDE DEF fs, ps, h, all
<1>7. CASE t = <<>>
  <2>1. Items(t) = <<>> /\ ps = << <<>> >> /\ Len(Items(t)) = 0
    <3>1. Items(t) = <<>> /\ ps = << <<>> >>
      BY <1>7, SplitSteps, Zenon DEF Items, ps
    <3> QED BY <3>1
  <2>2. Len(ps) = 1 /\ ps[1] = <<>>
    BY <2>1
  <2>3. Len(h) = Len(fs) /\ Len(all) = Len(h) /\ Len(all) # Len(h) + 1
    BY <1>4, <1>6, <2>1, <2>2
  <2>4. q.accum_hex = 0 /\ q.result_dec = <<>>
    <3>1. q.accum_hex = 0 /\ Len(q.result_dec) = 0
      BY <1>3, <2>2, EmptyLast
    <3>2. q.result_dec \in Seq(Byte)
      BY <1>4, CheckedParts DEF Parsers
    <3> QED BY <3>1, <3>2
  <2>5. ASSUME NEW i \in 1 .. Len(h) PROVE Plain(all[i], h[i])
    <3>1. i \in 1 .. Len(fs) /\ 0 + i = i
      BY <2>3
    <3> QED BY <1>3, <1>6, <3>1 DEF Pushed, Plain
  <2> QED BY <1>6, <2>3, <2>4, <2>5 DEF ItemsRead, all, h, fs
<1>8. CASE t # <<>>
  <2>1. Items(t) = ps
    BY <1>8 DEF Items, ps
  <2>2. Len(all) = Len(h) + 1 /\ Len(all) # Len(h) /\ Len(all) = Len(fs) + Len(ps) /\ Len(ps) \in 1 .. Len(ps)
    BY <1>4, <1>6, <2>1
  <2>3. all[Len(all)] = ps[Len(ps)]
    BY <1>6, <2>1, <2>2
  <2>4. ASSUME NEW i \in 1 .. Len(h) PROVE Plain(all[i], h[i])
    <3>1. CASE i <= Len(fs)
      <4>1. i \in 1 .. Len(fs) /\ 0 + i = i
        BY <1>4, <3>1
      <4> QED BY <1>3, <1>6, <4>1 DEF Pushed, Plain
    <3>2. CASE i > Len(fs)
      <4>1. PICK k \in 1 .. Len(ps) - 1 : i = Len(fs) + k
        <5>1. i - Len(fs) \in 1 .. Len(ps) - 1 /\ i = Len(fs) + (i - Len(fs))
          BY <1>4, <3>2
        <5> QED BY <5>1
      <4>2. k \in 1 .. Len(ps)
        BY <1>4
      <4>3. all[i] = ps[k]
        BY <1>6, <2>1, <4>1, <4>2
      <4> QED BY <1>3, <4>1, <4>3 DEF Pushed, Plain
    <3> QED BY <1>4, <3>1, <3>2
  <2> QED BY <1>3, <1>6, <2>2, <2>3, <2>4 DEF ItemsRead, all, h
<1> QED BY <1>7, <1>8

\* A number that is a group.
LEMMA PlainItem ==
  ASSUME NEW w, NEW v, Plain(w, v)
  PROVE  /\ ~ IsQuad(w) /\ Value(w, HexBase) \in Nat /\ v \in Nat /\ v <= Value(w, HexBase)
         /\ Value(w, HexBase) < Word => v = Value(w, HexBase)
<1>1. w \in Seq(Digit) /\ v = Value(w, HexBase) % Word
  BY DEF Plain
<1>2. Dot \notin Range(w)
  BY <1>1, Marks DEF Range
<1>3. Value(w, HexBase) \in Nat
  BY <1>1, SmallerBase
<1>4. PICK n \in Nat, m \in Nat \ {0} : n = Value(w, HexBase) /\ m = Word
  BY <1>3, WordPositive
<1>5. n % m \in Nat /\ n % m <= n /\ (n < m => n % m = n)
  BY RemainderBelow
<1> QED BY <1>1, <1>2, <1>3, <1>4, <1>5 DEF IsQuad

\* The last item: its pieces between dots are numbers,
LEMMA LastItem ==
  ASSUME NEW q \in Checked, NEW l, NEW ns, LastRead(q, l, ns)
  PROVE  /\ ns = SplitAt(l, Dot) /\ Len(ns) \in Nat \ {0} /\ Len(q.result_dec) = Len(ns) - 1
         /\ IsQuad(l) <=> Len(ns) > 1
         /\ IsQuad(l) <=> q.result_dec # <<>>
         /\ Len(ns) = 1 => ns[1] = l
         /\ \A i \in 1 .. Len(ns) : /\ ns[i] \in Seq(Digit) /\ ns[i] \in Range(ns) /\ Value(ns[i], DecBase) \in Nat
                                    /\ Value(ns[i], HexBase) \in Nat /\ Value(ns[i], DecBase) <= Value(ns[i], HexBase)
<1>1. /\ ns = SplitAt(l, Dot) /\ ns \in Seq(Seq(Digit)) \ {<<>>} /\ Len(q.result_dec) = Len(ns) - 1
      /\ (Dot \in Range(l) <=> Len(ns) > 1) /\ (Len(ns) = 1 => ns = <<l>>)
  BY DEF LastRead
<1>2. Len(ns) \in Nat \ {0}
  BY <1>1
<1>3. q.result_dec \in Seq(Byte)
  BY CheckedParts DEF Parsers
<1>4. q.result_dec # <<>> <=> Len(ns) > 1
  BY <1>1, <1>2, <1>3
<1>5. ASSUME NEW i \in 1 .. Len(ns)
      PROVE  /\ ns[i] \in Seq(Digit) /\ ns[i] \in Range(ns) /\ Value(ns[i], DecBase) \in Nat
             /\ Value(ns[i], HexBase) \in Nat /\ Value(ns[i], DecBase) <= Value(ns[i], HexBase)
  <2>1. ns[i] \in Seq(Digit)
    BY <1>1
  <2>2. ns[i] \in Range(ns)
    BY <1>1 DEF Range
  <2> QED BY <2>1, <2>2, SmallerBase
<1>6. Len(ns) = 1 => ns[1] = l
  BY <1>1
<1> QED BY <1>1, <1>2, <1>4, <1>5, <1>6 DEF IsQuad

\* the ones the automaton keeps exactly when they do not wrap.
LEMMA LastValues ==
  ASSUME NEW q \in Checked, NEW l, NEW ns, LastRead(q, l, ns)
  PROVE  /\ \A i \in 1 .. Len(ns) - 1 : /\ q.result_dec[i] \in Byte
                                        /\ Value(ns[i], DecBase) < Word => q.result_dec[i] = Value(ns[i], DecBase)
         /\ q.accum_hex \in Nat /\ q.accum_hex <= Value(ns[Len(ns)], HexBase)
         /\ q.accum_dec \in Nat /\ q.accum_dec <= Value(ns[Len(ns)], DecBase)
         /\ Value(ns[Len(ns)], HexBase) < Word => q.accum_hex = Value(ns[Len(ns)], HexBase)
         /\ Value(ns[Len(ns)], DecBase) < Word => q.accum_dec = Value(ns[Len(ns)], DecBase)
<1>1. /\ Len(q.result_dec) = Len(ns) - 1
      /\ (\A i \in 1 .. Len(ns) - 1 : q.result_dec[i] = Value(ns[i], DecBase) % Word)
      /\ q.accum_hex = Value(ns[Len(ns)], HexBase) % Word /\ q.accum_dec = Value(ns[Len(ns)], DecBase) % Word
  BY DEF LastRead
<1>2. /\ Len(ns) \in Nat \ {0} /\ \A i \in 1 .. Len(ns) : Value(ns[i], DecBase) \in Nat /\ Value(ns[i], HexBase) \in Nat
  BY LastItem
<1>3. ASSUME NEW n \in Nat PROVE n % Word \in Nat /\ n % Word <= n /\ (n < Word => n % Word = n)
  BY WordPositive, RemainderBelow
<1>4. q.result_dec \in Seq(Byte)
  BY CheckedParts DEF Parsers
<1>5. ASSUME NEW i \in 1 .. Len(ns) - 1
      PROVE  q.result_dec[i] \in Byte /\ (Value(ns[i], DecBase) < Word => q.result_dec[i] = Value(ns[i], DecBase))
  <2>1. i \in 1 .. Len(ns) /\ i \in 1 .. Len(q.result_dec)
    BY <1>1, <1>2
  <2>2. q.result_dec[i] \in Byte
    BY <1>4, <2>1
  <2>3. PICK n \in Nat : n = Value(ns[i], DecBase)
    BY <1>2, <2>1
  <2>4. q.result_dec[i] = n % Word
    BY <1>1, <2>3
  <2> QED BY <1>3, <2>2, <2>3, <2>4
<1>6. Len(ns) \in 1 .. Len(ns)
  BY <1>2
<1> QED BY <1>1, <1>2, <1>3, <1>5, <1>6

\* The numbers of an item are in their range when the automaton accepts them
\* and they do not wrap.
LEMMA LastInRange ==
  ASSUME NEW q \in Checked, NEW l, NEW ns, LastRead(q, l, ns), ~ Refused(q),
         \A n \in Range(SplitAt(l, Dot)) : Value(n, HexBase) < Word
  PROVE  InRange(l)
<1>1. /\ ns = SplitAt(l, Dot) /\ Len(ns) \in Nat \ {0} /\ Len(q.result_dec) = Len(ns) - 1
      /\ (IsQuad(l) <=> Len(ns) > 1) /\ (IsQuad(l) <=> q.result_dec # <<>>) /\ (Len(ns) = 1 => ns[1] = l)
      /\ \A i \in 1 .. Len(ns) : /\ ns[i] \in Range(ns) /\ Value(ns[i], DecBase) \in Nat
                                 /\ Value(ns[i], HexBase) \in Nat /\ Value(ns[i], DecBase) <= Value(ns[i], HexBase)
  BY LastItem
<1>2. Word \in Nat
  BY WordPositive
<1>3. ASSUME NEW i \in 1 .. Len(ns) PROVE Value(ns[i], HexBase) < Word /\ Value(ns[i], DecBase) < Word
  <2>1. Value(ns[i], HexBase) < Word
    BY <1>1
  <2>2. PICK x \in Nat, y \in Nat : x = Value(ns[i], DecBase) /\ y = Value(ns[i], HexBase) /\ x <= y
    BY <1>1
  <2> QED BY <1>2, <2>1, <2>2
<1>4. /\ (\A i \in 1 .. Len(ns) - 1 : q.result_dec[i] \in Byte /\ q.result_dec[i] = Value(ns[i], DecBase))
      /\ q.accum_hex = Value(ns[Len(ns)], HexBase) /\ q.accum_dec = Value(ns[Len(ns)], DecBase)
      /\ q.accum_hex \in Nat /\ q.accum_dec \in Nat
  <2>1. \A i \in 1 .. Len(ns) - 1 : i \in 1 .. Len(ns)
    BY <1>1
  <2>2. Len(ns) \in 1 .. Len(ns)
    BY <1>1
  <2> QED BY <1>3, <2>1, <2>2, LastValues
<1>5. Octet \in Nat /\ Ones \in Int
  BY WidthAssumption, WordPositive DEF Ones
<1>6. /\ Len(q.result_dec) \in {0, 3} /\ (q.result_dec = <<>> => ~ (q.accum_hex > Ones))
      /\ (Len(q.result_dec) = 3 => ~ (q.accum_dec >= Octet))
  BY DEF Refused
<1>7. CASE IsQuad(l)
  <2>1. Len(ns) = 4 /\ Len(q.result_dec) = 3
    BY <1>1, <1>6, <1>7
  <2>2. ASSUME NEW i \in 1 .. 4 PROVE Value(ns[i], DecBase) < Octet
    <3>1. CASE i = 4
      BY <1>4, <1>5, <1>6, <2>1, <3>1
    <3>2. CASE i # 4
      <4>1. i \in 1 .. Len(ns) - 1
        BY <2>1, <3>2
      <4>2. q.result_dec[i] \in Byte /\ q.result_dec[i] = Value(ns[i], DecBase)
        BY <1>4, <4>1
      <4> QED BY <1>5, <4>2 DEF Byte
    <3> QED BY <3>1, <3>2
  <2> QED BY <1>1, <1>7, <2>1, <2>2 DEF InRange
<1>8. CASE ~ IsQuad(l)
  <2>1. Len(ns) = 1 /\ q.result_dec = <<>> /\ ns[1] = l
    <3>1. ~ (Len(ns) > 1) /\ ~ (q.result_dec # <<>>)
      BY <1>1, <1>8
    <3>2. Len(ns) \in Nat \ {0} /\ (Len(ns) = 1 => ns[1] = l)
      BY <1>1
    <3>3. Len(ns) = 1
      <4>1. PICK k \in Nat : k = Len(ns) /\ k # 0
        BY <3>2
      <4> QED BY <3>1, <4>1
    <3> QED BY <3>1, <3>2, <3>3
  <2>2. Value(l, HexBase) <= Ones
    BY <1>4, <1>5, <1>6, <2>1
  <2> QED BY <1>8, <2>2 DEF InRange
<1> QED BY <1>7, <1>8

\* The automaton at the end of a text it does not refuse.
LEMMA EndTracked ==
  ASSUME NEW s \in Seq(Int), NEW e, e = AtEnd(Parsed(s)), e.state # "error"
  PROVE  \E gap, f, t : gap \in BOOLEAN /\ Track(s, e, gap, f, t)
<1> DEFINE q == Parsed(s)
<1>1. q \in Checked /\ q \in Parsers
  BY ParsedSteps, CheckedParts
<1>2. q.state # "error"
  BY <1>1, ErrorIsError
<1>3. PICK gap, f, t, s0 : Tracked(s, q, gap, f, t, s0)
  BY <1>2, EveryTextFollowed DEF Follows
<1> HIDE DEF q
<1>4. /\ s0 \in Seq(Int) /\ gap \in BOOLEAN /\ s = (IF q.pending THEN Append(s0, Colon) ELSE s0)
      /\ Track(s0, q, gap, f, t) /\ Settles(t)
  BY <1>3 DEF Tracked
<1>5. CASE q.pending
  <2>1. e = SingleColon(q) /\ s = Append(s0, Colon)
    BY <1>4, <1>5 DEF AtEnd, q
  <2>2. SingleColon(q).state # "error"
    BY <2>1
  <2>3. Track(Append(s0, Colon), SingleColon(q), gap, f, Append(t, Colon))
    BY <1>4, <2>2, TrackColon
  <2> QED BY <1>4, <2>1, <2>3
<1>6. CASE ~ q.pending
  <2>1. e = q /\ s = s0
    BY <1>4, <1>6 DEF AtEnd, q
  <2> QED BY <1>4, <2>1
<1> QED BY <1>5, <1>6

\* Texts that may stand in front of a group that is not there.
LEMMA TrackShape ==
  ASSUME NEW s \in Seq(Int), NEW e, NEW gap \in BOOLEAN, NEW f, NEW t, Track(s, e, gap, f, t), ~ Refused(e)
  PROVE  /\ s # <<>> /\ Other \notin Range(s) /\ (s[1] = Colon => 1 \in Doubles(s))
         /\ \A i, j \in Doubles(s) : ~ (i + 1 < j)
<1>1. TextIs(s, gap, f, t) /\ Holding(e, Items(f), SplitAt(t, Colon), gap) /\ (e.state = "start" <=> f = <<>> /\ t = <<>>)
  BY DEF Track
<1>2. /\ f \in Seq(Signs) /\ t \in Seq(Signs) /\ (gap => s = f \o <<Colon, Colon>> \o t)
      /\ (~ gap => s = t /\ f = <<>>) /\ Apart(f) /\ Settles(f) /\ Apart(t)
      /\ (f # <<>> => f[1] # Colon) /\ (f = <<>> /\ t # <<>> => t[1] # Colon)
  BY <1>1 DEF TextIs
<1>3. Other \notin Signs /\ f \in Seq(Int) /\ t \in Seq(Int)
  BY <1>2, Marks, SignsAreInt, SeqOver DEF Signs
<1>4. CASE gap = TRUE
  <2>1. s = f \o <<Colon, Colon>> \o t
    BY <1>2, <1>4
  <2>2. Len(f) + 1 \in Doubles(s) /\ \A i \in Doubles(s) : i >= Len(f) + 1 /\ (Apart(t) => i <= Len(f) + 2)
    BY <1>2, <1>3, <2>1, CutAt
  <2>3. s # <<>> /\ \A i \in Doubles(s) : i \in Int
    <3>1. Doubles(s) # {} /\ Doubles(s) \subseteq 1 .. Len(s) - 1
      BY <2>2 DEF Doubles
    <3>2. Len(s) - 1 >= 1 /\ Len(s) \in Nat
      BY <3>1
    <3> QED BY <3>1, <3>2
  <2>4. ASSUME NEW i \in Doubles(s), NEW j \in Doubles(s) PROVE ~ (i + 1 < j)
    <3>1. i \in Int /\ j \in Int /\ i >= Len(f) + 1 /\ j <= Len(f) + 2 /\ Len(f) \in Nat
      BY <1>2, <2>2, <2>3
    <3> QED BY <3>1
  <2>5. PICK w \in Seq(Signs) : w = f \o <<Colon, Colon>>
    <3>1. <<Colon, Colon>> \in Seq(Signs)
      BY SignsAreInt
    <3>2. f \o <<Colon, Colon>> \in Seq(Signs)
      BY <1>2, <3>1, JoinAt
    <3> QED BY <3>2
  <2>6. s \in Seq(Signs)
    BY <1>2, <2>1, <2>5, JoinAt
  <2>7. s[1] = Colon => 1 \in Doubles(s)
    <3>1. CASE f = <<>>
      <4>1. Len(f) = 0
        BY <3>1
      <4> QED BY <2>2, <4>1
    <3>2. CASE f # <<>>
      <4>1. PICK u \in Seq(Int) : u = <<Colon, Colon>> \o t
        <5>1. <<Colon, Colon>> \in Seq(Int)
          BY SignsAreInt
        <5>2. <<Colon, Colon>> \o t \in Seq(Int)
          BY <1>3, <5>1
        <5> QED BY <5>2
      <4>2. s = f \o u
        BY <1>3, <2>1, <4>1, SignsAreInt
      <4>3. s[1] = f[1]
        BY <1>3, <3>2, <4>2, HeadOf
      <4> QED BY <1>2, <3>2, <4>3
    <3> QED BY <3>1, <3>2
  <2>8. Other \notin Range(s)
    BY <1>3, <2>6 DEF Range
  <2> QED BY <2>3, <2>4, <2>7, <2>8
<1>5. CASE gap = FALSE
  <2>1. s = t /\ f = <<>> /\ Doubles(s) = {}
    BY <1>2, <1>3, <1>5, CutNone
  <2>2. e.separator = NoSeparator
    BY <1>1, <1>5 DEF Holding
  <2>3. s # <<>>
    BY <1>1, <2>1, <2>2 DEF Refused
  <2>4. Other \notin Range(s)
    BY <1>2, <1>3, <2>1 DEF Range
  <2> QED BY <1>2, <2>1, <2>3, <2>4
<1> QED BY <1>4, <1>5

\* Which items are dotted, and what they weigh.
LEMMA ItemsFine ==
  ASSUME NEW q \in Checked, NEW all, ItemsRead(q, all)
  PROVE  /\ Len(all) \in Nat /\ \A i \in 1 .. Len(q.result_hex) : ~ IsQuad(all[i])
         /\ OnlyLast(all)
         /\ q.result_dec = <<>> => Weight(all) = Len(all) /\ \A i \in DOMAIN all : ~ IsQuad(all[i])
         /\ q.result_dec # <<>> => /\ Weight(all) = Len(all) + 1 /\ Len(all) = Len(q.result_hex) + 1
                                   /\ IsQuad(all[Len(all)])
<1> DEFINE n == Len(q.result_hex)
           Q == {i \in DOMAIN all : IsQuad(all[i])}
<1>1. /\ all \in Seq(Seq(Int)) /\ Len(all) \in {n, n + 1} /\ (\A i \in 1 .. n : Plain(all[i], q.result_hex[i]))
      /\ (Len(all) = n + 1 => \E ns : LastRead(q, all[Len(all)], ns)) /\ (Len(all) = n => q.result_dec = <<>>)
  BY DEF ItemsRead
<1>2. n \in Nat
  BY CheckedParts
<1>3. Len(all) \in Nat /\ DOMAIN all = 1 .. Len(all)
  BY <1>1
<1> HIDE DEF n
<1>4. \A i \in 1 .. n : ~ IsQuad(all[i])
  BY <1>1, PlainItem
<1>5. ASSUME NEW i \in DOMAIN all, IsQuad(all[i]) PROVE i = Len(all) /\ Len(all) = n + 1
  <2>1. i \in 1 .. Len(all) /\ i \notin 1 .. n
    BY <1>3, <1>4, <1>5
  <2>2. Len(all) = n \/ Len(all) = n + 1
    BY <1>1
  <2>3. PICK k \in Nat : k = Len(all)
    BY <1>3
  <2>4. i \in 1 .. k /\ (k = n \/ k = n + 1)
    BY <2>1, <2>2, <2>3
  <2>5. i = k /\ k = n + 1
    BY <1>2, <2>1, <2>4
  <2> QED BY <2>3, <2>5
<1>6. OnlyLast(all)
  BY <1>5 DEF OnlyLast
<1>7. CASE q.result_dec = <<>>
  <2>1. ASSUME NEW i \in DOMAIN all, IsQuad(all[i]) PROVE FALSE
    <3>1. i = Len(all) /\ Len(all) = n + 1
      BY <1>5, <2>1
    <3>2. PICK ns : LastRead(q, all[i], ns)
      BY <1>1, <3>1
    <3> QED BY <1>7, <2>1, <3>2, LastItem
  <2>2. Q = {}
    BY <2>1
  <2>3. Cardinality(Q) = 0
    BY <2>2, FS_EmptySet, Zenon
  <2>4. Weight(all) = Len(all)
    BY <1>3, <2>3 DEF Weight
  <2> QED BY <1>3, <1>4, <1>6, <1>7, <2>1, <2>4 DEF n
<1>8. CASE q.result_dec # <<>>
  <2>0. Len(all) = n + 1
    BY <1>1, <1>8
  <2>1. Len(all) = n + 1 /\ Len(all) \in DOMAIN all
    BY <1>2, <1>3, <2>0
  <2>2. IsQuad(all[Len(all)])
    BY <1>1, <1>8, <2>1, LastItem
  <2>3. Q = {Len(all)}
    BY <1>5, <2>1, <2>2
  <2>4. Cardinality(Q) = 1
    BY <2>3, FS_Singleton, Zenon
  <2>5. Weight(all) = Len(all) + 1
    BY <1>3, <2>4 DEF Weight
  <2> QED BY <1>3, <1>4, <1>6, <1>8, <2>1, <2>2, <2>5 DEF n
<1> QED BY <1>7, <1>8

\* No more groups than there are.
LEMMA WeightFits ==
  ASSUME NEW q \in Checked, NEW all, ItemsRead(q, all), ~ Refused(q), Len(AllGroups(q)) <= Groups
  PROVE  Weight(all) <= Groups
<1>1. q.result_hex \in Seq(Group) /\ Len(q.result_hex) \in Nat /\ q \in Parsers
  BY CheckedParts
<1>2. Groups \in Nat /\ Groups >= 4
  BY WidthAssumption
<1>3. Len(all) \in {Len(q.result_hex), Len(q.result_hex) + 1} /\ Len(all) \in Nat
  BY ItemsFine DEF ItemsRead
<1>4. CASE q.result_dec = <<>>
  <2>1. AllGroups(q) = Append(q.result_hex, q.accum_hex)
    BY <1>4 DEF AllGroups
  <2>2. Len(AllGroups(q)) = Len(q.result_hex) + 1
    BY <1>1, <2>1
  <2>3. Weight(all) = Len(all)
    BY <1>4, ItemsFine
  <2> QED BY <1>1, <1>2, <1>3, <2>2, <2>3
<1>5. CASE q.result_dec # <<>>
  <2>1. Weight(all) = Len(all) + 1 /\ Len(all) = Len(q.result_hex) + 1
    BY <1>5, ItemsFine
  <2>2. CASE q.result_hex = <<>>
    <3>1. Len(q.result_hex) = 0
      BY <2>2
    <3> QED BY <1>2, <2>1, <3>1
  <2>3. CASE q.result_hex # <<>>
    <3>1. AllGroups(q) = q.result_hex \o <<Pair(q.result_dec[1], q.result_dec[2]), Pair(q.result_dec[3], q.accum_dec)>>
      BY <1>5, <2>3 DEF AllGroups
    <3>2. PICK x, y : AllGroups(q) = q.result_hex \o <<x, y>>
      BY <3>1
    <3>3. Len(AllGroups(q)) = Len(q.result_hex) + 2
      BY <1>1, <3>2
    <3> QED BY <1>1, <1>2, <2>1, <3>3
  <2> QED BY <2>2, <2>3
<1> QED BY <1>4, <1>5

\* A text the automaton accepts is none of the malformed ones.
LEMMA AcceptedIsFine ==
  ASSUME NEW s \in Seq(Int), NEW e, e = AtEnd(Parsed(s)), ~ Refused(e), Len(AllGroups(e)) <= Groups, Unwrapped(s)
  PROVE  ~ Malformed(s)
<1>1. e.state # "error"
  BY DEF Refused
<1>2. PICK gap, f, t : gap \in BOOLEAN /\ Track(s, e, gap, f, t)
  BY <1>1, EndTracked
<1>3. /\ s # <<>> /\ Other \notin Range(s) /\ (s[1] = Colon => 1 \in Doubles(s))
      /\ \A i, j \in Doubles(s) : ~ (i + 1 < j)
  BY <1>2, TrackShape
<1>4. e \in Checked
  BY <1>2 DEF Track, Holding
<1>5. PICK all : all = Before(s) \o Behind(s)
  OBVIOUS
<1>6. Cut(s, gap, f, t) /\ all = Items(f) \o Items(t)
  BY <1>2, <1>5, TrackCut DEF Cut
<1>7. ItemsRead(e, all)
  BY <1>2, <1>6, TrackItems
<1>8. OnlyLast(all) /\ (\A i \in 1 .. Len(e.result_hex) : ~ IsQuad(all[i])) /\ Weight(all) <= Groups
  BY <1>4, <1>7, ItemsFine, WeightFits
<1>9. /\ all \in Seq(Seq(Int)) /\ Len(all) \in {Len(e.result_hex), Len(e.result_hex) + 1}
      /\ (\A i \in 1 .. Len(e.result_hex) : Plain(all[i], e.result_hex[i]))
      /\ (Len(all) = Len(e.result_hex) + 1 => \E ns : LastRead(e, all[Len(all)], ns))
  BY <1>7 DEF ItemsRead
<1>10. e.result_hex \in Seq(Group) /\ Len(e.result_hex) \in Nat
  BY <1>4, CheckedParts
<1>11. ASSUME NEW item \in Range(all), NEW n \in Range(SplitAt(item, Dot)), Other \notin Range(item)
       PROVE  Value(n, HexBase) < Word
  BY <1>5, <1>11 DEF Unwrapped
<1>12. ASSUME NEW i \in DOMAIN all PROVE InRange(all[i])
  <2>1. all[i] \in Range(all) /\ i \in 1 .. Len(all) /\ Len(all) \in Nat
    BY <1>9 DEF Range
  <2>2. CASE i \in 1 .. Len(e.result_hex)
    <3>1. PICK w, v : w = all[i] /\ v = e.result_hex[i]
      OBVIOUS
    <3>2. Plain(w, v) /\ v \in Group /\ w \in Seq(Digit) /\ SplitAt(w, Dot) = <<w>>
      BY <1>9, <1>10, <2>2, <3>1 DEF Plain
    <3>3. /\ ~ IsQuad(w) /\ Value(w, HexBase) \in Nat /\ v \in Nat
          /\ Value(w, HexBase) < Word => v = Value(w, HexBase)
      BY <3>2, PlainItem
    <3>4. Other \notin Range(w)
      BY <3>2, Marks DEF Range
    <3>5. w \in Range(SplitAt(w, Dot))
      <4>1. w \in Range(<<w>>)
        BY DEF Range
      <4> QED BY <3>2, <4>1
    <3>6. v = Value(w, HexBase)
      BY <1>11, <2>1, <3>1, <3>3, <3>4, <3>5
    <3>7. v <= Ones
      BY <3>2, WordPositive DEF Group, Ones
    <3> QED BY <3>1, <3>3, <3>6, <3>7 DEF InRange
  <2>3. CASE i \notin 1 .. Len(e.result_hex)
    <3>1. Len(all) = Len(e.result_hex) + 1 /\ i = Len(all)
      <4>1. Len(all) = Len(e.result_hex) \/ Len(all) = Len(e.result_hex) + 1
        BY <1>9
      <4> QED BY <1>10, <2>1, <2>3, <4>1
    <3>2. PICK ns : LastRead(e, all[i], ns)
      BY <1>9, <3>1
    <3>3. PICK l : l = all[i]
      OBVIOUS
    <3>4. Other \notin Range(l)
      BY <3>2, <3>3, Marks DEF LastRead, Range
    <3>5. \A n \in Range(SplitAt(l, Dot)) : Value(n, HexBase) < Word
      BY <1>11, <2>1, <3>3, <3>4
    <3>6. InRange(l)
      BY <1>4, <3>2, <3>3, <3>5, LastInRange
    <3> QED BY <3>3, <3>6
  <2> QED BY <2>2, <2>3
<1>13. First(s) # 0 => \A item \in Range(Before(s)) : ~ IsQuad(item)
  <2> SUFFICES ASSUME First(s) # 0, NEW item \in Range(Before(s)) PROVE ~ IsQuad(item)
    OBVIOUS
  <2>1. gap = TRUE /\ Before(s) = Items(f) /\ Items(f) \in Seq(Seq(Int)) /\ Items(t) \in Seq(Seq(Int))
    BY <1>6 DEF Cut
  <2>2. PICK S, fs, ts : S = Seq(Int) /\ fs = Items(f) /\ ts = Items(t)
    OBVIOUS
  <2>3. fs \in Seq(S) /\ ts \in Seq(S) /\ all = fs \o ts
    BY <1>6, <2>1, <2>2
  <2>4. Len(fs) \in Nat /\ (\A k \in 1 .. Len(fs) : (fs \o ts)[k] = fs[k])
    BY <2>3, JoinAt
  <2>5. PICK k \in 1 .. Len(fs) : item = fs[k]
    BY <2>1, <2>2, <2>3 DEF Range
  <2>6. all[k] = item
    BY <2>3, <2>4, <2>5
  <2>7. Len(fs) <= Len(e.result_hex)
    <3>1. Holding(e, fs, SplitAt(t, Colon), gap)
      BY <1>2, <2>2 DEF Track
    <3>2. PICK ps : ps = SplitAt(t, Colon)
      OBVIOUS
    <3>3. Len(ps) \in Nat \ {0} /\ Len(e.result_hex) = Len(fs) + Len(ps) - 1
      BY <3>1, <3>2, HoldingParts
    <3> QED BY <2>4, <3>3
  <2>8. k \in 1 .. Len(e.result_hex)
    BY <1>10, <2>4, <2>5, <2>7
  <2> QED BY <1>8, <2>6, <2>8
<1>14. Groups \in Nat /\ Len(all) \in Nat /\ ~ (Weight(all) > Groups)
  <2>1. Len(all) \in Nat /\ (Weight(all) = Len(all) \/ Weight(all) = Len(all) + 1)
    BY <1>4, <1>7, ItemsFine
  <2> QED BY <1>8, <2>1, WidthAssumption
<1> QED BY <1>3, <1>5, <1>8, <1>12, <1>13, <1>14 DEF Malformed

\* For every base, width, number of groups and text of any length: a text with
\* a foreign character, a second "::", a single colon in front, a number out of
\* range, a misplaced or incomplete dotted part or too many groups is refused
\* and gives "::", as long as no number of it wraps in 32 bits (ip_address.h:337).
THEOREM Ip6MalformedHolds == Spec => []MalformedIsZero
<1>1. TypeOK /\ TailInv => MalformedIsZero
  <2> SUFFICES ASSUME TypeOK, TailInv, Unwrapped(text), Malformed(text), ~ Undefined(p)
               PROVE  Finish(p) = [ip |-> ZeroIP, success |-> FALSE]
    BY DEF MalformedIsZero
  <2>1. text \in Seq(Int) /\ p = Parsed(text)
    BY DEF TypeOK, TailInv
  <2>2. PICK e : e = AtEnd(p)
    OBVIOUS
  <2>3. Refused(e)
    <3> SUFFICES ASSUME ~ Refused(e) PROVE FALSE
      OBVIOUS
    <3>1. ~ (Len(AllGroups(e)) > Groups) /\ e \in Checked /\ Groups \in Nat
      <4>1. e \in Checked
        <5>1. p \in Checked
          BY <2>1, ParsedSteps
        <5>2. InBounds(e) /\ InBounds(p)
          BY <2>2, <5>1, CheckedParts, SingleColonType DEF AtEnd
        <5> QED BY <5>2 DEF Checked, InBounds
      <4> QED BY <2>2, <4>1, WidthAssumption DEF Undefined
    <3>2. AllGroups(e) \in Seq(Group)
      BY <3>1, AllGroupsType, CheckedParts
    <3>3. Len(AllGroups(e)) <= Groups
      BY <3>1, <3>2
    <3> QED BY <2>1, <2>2, <3>3, AcceptedIsFine
  <2> QED BY <2>2, <2>3 DEF Finish
<1> QED BY <1>1, TailInvariance, PTL

-----------------------------------------------------------------------------
(* No character of a valid text is refused *)

\* An item that is written ends in a digit.
LEMMA WrittenEnd ==
  /\ ~ IsWritten(<<>>)
  /\ \A w \in Seq(Int), c \in Int : IsWritten(Append(w, c)) => c \in Digit
<1>1. ~ IsWritten(<<>>)
  <2>1. SplitAt(<<>>, Dot) = << <<>> >>
    BY SplitSteps, Zenon
  <2>2. <<>> \in Range(<< <<>> >>)
    BY DEF Range
  <2> QED BY <2>1, <2>2 DEF IsWritten
<1>2. ASSUME NEW w \in Seq(Int), NEW c \in Int, IsWritten(Append(w, c)) PROVE c \in Digit
  <2>1. PICK ns : ns = SplitAt(w, Dot)
    OBVIOUS
  <2>2. ns \in Seq(Seq(Int)) \ {<<>>} /\ SplitAt(Append(w, c), Dot) = WithLast(ns, c, Dot)
    BY <2>1, SplitSteps, Zenon
  <2>3. PICK ms : ms = SplitAt(Append(w, c), Dot)
    OBVIOUS
  <2>4. \A n \in Range(ms) : n # <<>> /\ (Range(n) \subseteq Digit \/ Range(n) \subseteq Decimal)
    BY <1>2, <2>3 DEF IsWritten, Decimal
  <2>5. PICK S : S = Seq(Int)
    OBVIOUS
  <2>6. ns \in Seq(S) /\ <<>> \in S /\ Len(ns) \in Nat \ {0}
    BY <2>2, <2>5
  <2>7. CASE c = Dot
    <3>1. ms = Append(ns, <<>>)
      BY <2>2, <2>3, <2>7 DEF WithLast
    <3>2. ms \in Seq(S) /\ Len(ms) = Len(ns) + 1 /\ ms[Len(ns) + 1] = <<>>
      BY <2>6, <3>1, AppendAt
    <3>3. <<>> \in Range(ms)
      BY <2>6, <3>2 DEF Range
    <3> QED BY <2>4, <3>3
  <2>8. CASE c # Dot
    <3>1. ms = [ns EXCEPT ![Len(ns)] = Append(ns[Len(ns)], c)]
      BY <2>2, <2>3, <2>8 DEF WithLast
    <3>2. Len(ns) \in DOMAIN ns /\ DOMAIN ms = DOMAIN ns /\ ns[Len(ns)] \in Seq(Int)
      BY <2>2, <2>6, <3>1
    <3>3. PICK x \in Seq(Int) : x = ns[Len(ns)]
      BY <3>2
    <3>4. ms[Len(ns)] = Append(x, c)
      BY <3>1, <3>2, <3>3
    <3>5. Append(x, c) \in Range(ms)
      BY <3>2, <3>4 DEF Range
    <3>6. PICK y \in Seq(Int) : y = Append(x, c) /\ Len(y) = Len(x) + 1 /\ y[Len(x) + 1] = c /\ Len(x) \in Nat
      BY MoreText
    <3>7. c \in Range(y)
      BY <3>6 DEF Range
    <3> QED BY <2>4, <3>5, <3>6, <3>7, Marks
  <2> QED BY <2>7, <2>8
<1> QED BY <1>1, <1>2

\* The items of a text that is cut.
Listed(all, fs, ts) ==
  /\ all \in Seq(Seq(Int)) /\ fs \in Seq(Seq(Int)) /\ ts \in Seq(Seq(Int))
  /\ Len(fs) \in Nat /\ Len(ts) \in Nat /\ Len(all) = Len(fs) + Len(ts)
  /\ \A k \in 1 .. Len(fs) : all[k] = fs[k]
  /\ \A k \in 1 .. Len(ts) : all[Len(fs) + k] = ts[k]
LEMMA CutItems ==
  ASSUME NEW s, NEW gap, NEW f, NEW t, Cut(s, gap, f, t)
  PROVE  Listed(Before(s) \o Behind(s), Items(f), Items(t))
<1>1. PICK S, fs, ts : S = Seq(Int) /\ fs = Items(f) /\ ts = Items(t)
  OBVIOUS
<1>2. fs \in Seq(S) /\ ts \in Seq(S) /\ Before(s) \o Behind(s) = fs \o ts
  BY <1>1 DEF Cut
<1>3. /\ fs \o ts \in Seq(S) /\ Len(fs) \in Nat /\ Len(ts) \in Nat /\ Len(fs \o ts) = Len(fs) + Len(ts)
      /\ (\A k \in 1 .. Len(fs) : (fs \o ts)[k] = fs[k])
      /\ \A k \in 1 .. Len(ts) : (fs \o ts)[Len(fs) + k] = ts[k]
  BY <1>2, JoinAt
<1>4. Listed(fs \o ts, fs, ts)
  BY <1>1, <1>2, <1>3 DEF Listed
<1> QED BY <1>1, <1>2, <1>4

\* Every item of a valid text is in its range.
LEMMA ValidItems ==
  ASSUME NEW s, Valid(s), NEW all, all = Before(s) \o Behind(s), NEW i \in DOMAIN all
  PROVE  IsWritten(all[i]) /\ InRange(all[i]) /\ (IsQuad(all[i]) => i = Len(all))
BY DEF Valid, OnlyLast

Appended(u, s, e, S) == u \in Seq(S) /\ u # <<>> /\ Len(u) = Len(s) + 1 /\ u[Len(s) + 1] = e
LEMMA AppendedTo == ASSUME NEW S, NEW s \in Seq(S), NEW e \in S PROVE Appended(Append(s, e), s, e, S)
BY AppendAt DEF Appended

\* A valid text does not end in a mark.
LEMMA ValidEnd ==
  ASSUME NEW s, NEW gap, NEW f, NEW t \in Seq(Int), NEW c \in Int, Cut(s, gap, f, Append(t, c)), Valid(s)
  PROVE  c \in Digit
<1>1. PICK u \in Seq(Int) : u = Append(t, c) /\ u # <<>>
  BY MoreText
<1>2. PICK ps : ps = SplitAt(t, Colon)
  OBVIOUS
<1>3. ps \in Seq(Seq(Int)) \ {<<>>} /\ SplitAt(u, Colon) = WithLast(ps, c, Colon)
  BY <1>1, <1>2, SplitSteps, Zenon
<1>4. PICK ts : ts = Items(u) /\ ts = WithLast(ps, c, Colon)
  BY <1>1, <1>3 DEF Items
<1>5. PICK all : all = Before(s) \o Behind(s)
  OBVIOUS
<1>6. /\ all \in Seq(Seq(Int)) /\ Len(Items(f)) \in Nat /\ Len(ts) \in Nat
      /\ Len(all) = Len(Items(f)) + Len(ts)
      /\ \A k \in 1 .. Len(ts) : all[Len(Items(f)) + k] = ts[k]
  <2>1. Cut(s, gap, f, u)
    BY <1>1
  <2>2. Listed(all, Items(f), Items(u))
    BY <1>5, <2>1, CutItems
  <2> QED BY <1>4, <2>2 DEF Listed
<1>7. PICK x \in Seq(Int) : x = ps[Len(ps)]
  BY <1>3
<1>8. PICK S : S = Seq(Int)
  OBVIOUS
<1>9. ps \in Seq(S) /\ <<>> \in S /\ Len(ps) \in Nat \ {0}
  BY <1>3, <1>8
<1>10. ts # <<>> /\ Len(ts) # 0 /\ ts[Len(ts)] = IF c = Colon THEN <<>> ELSE Append(x, c)
  <2>1. CASE c = Colon
    <3>1. ts = Append(ps, <<>>)
      BY <1>4, <2>1 DEF WithLast
    <3>2. ts \in Seq(S) /\ ts # <<>> /\ Len(ts) = Len(ps) + 1 /\ ts[Len(ps) + 1] = <<>>
      <4>1. PICK e \in S : e = <<>>
        BY <1>9
      <4>2. Appended(Append(ps, e), ps, e, S)
        BY <1>9, AppendedTo
      <4> QED BY <3>1, <4>1, <4>2 DEF Appended
    <3> QED BY <1>9, <2>1, <3>2
  <2>2. CASE c # Colon
    <3>1. ts = [ps EXCEPT ![Len(ps)] = Append(x, c)]
      BY <1>4, <1>7, <2>2 DEF WithLast
    <3>2. Len(ps) \in DOMAIN ps /\ Append(x, c) \in S
      BY <1>8, <1>9, MoreText
    <3>3. ts \in Seq(S) /\ Len(ts) = Len(ps) /\ ts[Len(ps)] = Append(x, c)
      BY <1>9, <3>1, <3>2
    <3> QED BY <1>9, <2>2, <3>3
  <2> QED BY <2>1, <2>2
<1>11. PICK n \in Nat \ {0}, m \in Nat : n = Len(ts) /\ m = Len(Items(f))
  BY <1>6, <1>10
<1>12. m + n \in DOMAIN all /\ all[m + n] = ts[n]
  <2>1. n \in 1 .. n /\ m + n \in 1 .. m + n
    OBVIOUS
  <2> QED BY <1>6, <1>11, <2>1
<1>13. IsWritten(all[m + n])
  BY <1>5, <1>12, ValidItems
<1>14. c # Colon
  BY <1>10, <1>11, <1>12, <1>13, WrittenEnd
<1>15. IsWritten(Append(x, c))
  BY <1>10, <1>11, <1>12, <1>13, <1>14
<1> QED BY <1>15, WrittenEnd

\* A text weighs at least as much as it has items.
LEMMA WeightAtLeast ==
  ASSUME NEW all \in Seq(Seq(Int)) PROVE Weight(all) \in Nat /\ Weight(all) >= Len(all)
<1> DEFINE Q == {i \in DOMAIN all : IsQuad(all[i])}
<1>1. Len(all) \in Nat /\ DOMAIN all = 1 .. Len(all)
  OBVIOUS
<1>2. IsFiniteSet(1 .. Len(all))
  BY <1>1, FS_Interval
<1>3. Q \subseteq 1 .. Len(all)
  BY <1>1
<1>4. Cardinality(Q) \in Nat
  BY <1>2, <1>3, FS_Subset, FS_CardinalityType
<1> QED BY <1>1, <1>4 DEF Weight

\* Where a valid text goes on behind a number, the automaton lets a group end.
LEMMA GroupMayEnd ==
  ASSUME NEW s, Valid(s), NEW all \in Seq(Seq(Int)), all = Before(s) \o Behind(s), NEW q \in Checked,
         NEW n \in 1 .. Len(all), Len(q.result_hex) = n - 1, NEW ns, LastRead(q, all[n], ns),
         n < Len(all) \/ (First(s) # 0 /\ all[n] \in Range(Before(s)))
  PROVE  GroupEnds(q)
<1>1. Len(all) \in Nat /\ n \in Nat \ {0} /\ DOMAIN all = 1 .. Len(all) /\ Groups \in Nat /\ Groups >= 4
  BY WidthAssumption
<1>2. ~ IsQuad(all[n])
  <2>1. CASE n < Len(all)
    <3>1. IsQuad(all[n]) => n = Len(all)
      BY <1>1, ValidItems
    <3> QED BY <1>1, <2>1, <3>1
  <2>2. CASE First(s) # 0 /\ all[n] \in Range(Before(s))
    BY <2>2 DEF Valid
  <2> QED BY <2>1, <2>2
<1>3. q.result_dec = <<>> /\ Len(ns) = 1 /\ ns[1] = all[n]
  <2>1. /\ Len(ns) \in Nat \ {0} /\ (IsQuad(all[n]) <=> Len(ns) > 1) /\ (IsQuad(all[n]) <=> q.result_dec # <<>>)
        /\ (Len(ns) = 1 => ns[1] = all[n])
    BY LastItem
  <2>2. PICK k \in Nat : k = Len(ns) /\ k # 0
    BY <2>1
  <2>3. ~ (k > 1) /\ q.result_dec = <<>>
    BY <1>2, <2>1, <2>2
  <2>4. k = 1
    BY <2>2, <2>3
  <2> QED BY <2>1, <2>2, <2>3, <2>4
<1>4. q.accum_hex <= Ones
  <2>1. InRange(all[n])
    BY <1>1, ValidItems
  <2>2. Value(all[n], HexBase) <= Ones
    BY <1>2, <2>1 DEF InRange
  <2>3. q.accum_hex \in Nat /\ q.accum_hex <= Value(ns[Len(ns)], HexBase)
    BY LastValues
  <2>4. Value(all[n], HexBase) \in Nat
    <3>1. Value(ns[1], HexBase) \in Nat
      <4>1. \A i \in 1 .. Len(ns) : Value(ns[i], HexBase) \in Nat
        BY LastItem
      <4>2. 1 \in 1 .. Len(ns)
        BY <1>3
      <4> QED BY <4>1, <4>2
    <3> QED BY <1>3, <3>1
  <2>5. PICK x \in Nat : x = Value(all[n], HexBase)
    BY <2>4
  <2>6. Ones \in Int
    BY WordPositive DEF Ones
  <2> QED BY <1>3, <2>2, <2>3, <2>5, <2>6
<1>5. n < Groups
  <2>1. Weight(all) \in Nat /\ Weight(all) >= Len(all)
    BY WeightAtLeast
  <2>2. \/ First(s) = 0 /\ Weight(all) = Groups
        \/ First(s) # 0 /\ Weight(all) < Groups
        \/ Len(all) = 1
    BY DEF Valid
  <2>3. n < Len(all) \/ First(s) # 0
    OBVIOUS
  <2> QED BY <1>1, <2>1, <2>2, <2>3
<1> QED BY <1>1, <1>3, <1>4, <1>5 DEF GroupEnds

\* No text with two gaps is valid.
LEMMA TwoGaps ==
  ASSUME NEW s \in Seq(Int), NEW i \in Doubles(s), NEW j \in Doubles(s), i # j PROVE ~ Valid(s)
<1>1. Doubles(s) \subseteq 1 .. Len(s) - 1 /\ Len(s) - 1 \in Int
  BY DEF Doubles
<1>2. IsFiniteSet(Doubles(s))
  <2>1. PICK k \in Int : k = Len(s) - 1
    BY <1>1
  <2>2. IsFiniteSet(1 .. k) /\ Doubles(s) \in SUBSET (1 .. k)
    BY <1>1, <2>1, FS_Interval
  <2> QED BY <2>2, FS_Subset
<1>3. Cardinality(Doubles(s)) \in Nat
  BY <1>2, FS_CardinalityType
<1>4. Cardinality(Doubles(s)) # 0
  BY <1>2, FS_EmptySet
<1>5. Cardinality(Doubles(s)) # 1
  <2>1. Cardinality(Doubles(s)) = 1 => \E x : Doubles(s) = {x}
    BY <1>2, FS_Singleton
  <2> QED BY <2>1
<1>6. ~ (Cardinality(Doubles(s)) <= 1)
  <2>1. PICK k \in Nat : k = Cardinality(Doubles(s))
    BY <1>3
  <2> QED BY <1>4, <1>5, <2>1
<1> QED BY <1>6 DEF Valid

\* A text and its parts, whatever comes behind the gap.
Joint(s, gap, f, t) ==
  /\ f \in Seq(Int) /\ t \in Seq(Int) /\ Apart(f) /\ Settles(f)
  /\ gap => s = f \o <<Colon, Colon>> \o t
  /\ ~ gap => s = t /\ f = <<>> /\ Apart(t)

\* The reference cuts such a text there.
LEMMA JointCut == ASSUME NEW s, NEW gap \in BOOLEAN, NEW f, NEW t, Joint(s, gap, f, t) PROVE Cut(s, gap, f, t)
<1>1. CASE gap = TRUE
  BY <1>1, CutAt DEF Joint
<1>2. CASE gap = FALSE
  BY <1>2, CutNone DEF Joint
<1> QED BY <1>1, <1>2

\* It goes on with one more character.
LEMMA JointOn ==
  ASSUME NEW s, NEW gap \in BOOLEAN, NEW f, NEW t, Joint(s, gap, f, t), NEW c \in Int,
         ~ gap /\ c = Colon => Settles(t)
  PROVE  Joint(Append(s, c), gap, f, Append(t, c))
<1>1. /\ f \in Seq(Int) /\ t \in Seq(Int) /\ Apart(f) /\ Settles(f)
      /\ (gap => s = f \o <<Colon, Colon>> \o t) /\ (~ gap => s = t /\ f = <<>> /\ Apart(t))
  BY DEF Joint
<1>2. Append(t, c) \in Seq(Int)
  BY <1>1
<1>3. gap => Append(s, c) = f \o <<Colon, Colon>> \o Append(t, c)
  <2>1. PICK w \in Seq(Int) : w = f \o <<Colon, Colon>>
    <3>1. <<Colon, Colon>> \in Seq(Int)
      BY SignsAreInt
    <3>2. f \o <<Colon, Colon>> \in Seq(Int)
      BY <1>1, <3>1
    <3> QED BY <3>2
  <2>2. Append(w \o t, c) = w \o Append(t, c)
    BY <1>1, MoreBehind
  <2> QED BY <1>1, <2>1, <2>2
<1>4. ~ gap => Apart(Append(t, c))
  BY <1>1, ApartOn
<1> QED BY <1>1, <1>2, <1>3, <1>4 DEF Joint

\* One more item behind a colon.
Continued(xs, ps) ==
  xs \in Seq(Seq(Int)) /\ Len(xs) = Len(ps) + 1 /\ \A i \in 1 .. Len(ps) : xs[i] = ps[i]
\* A colon begins the next item.
LEMMA NextItem ==
  ASSUME NEW t \in Seq(Int), NEW c \in Int, c # Colon
  PROVE  Continued(Items(Append(Append(t, Colon), c)), SplitAt(t, Colon))
<1>1. PICK ps : ps = SplitAt(t, Colon)
  OBVIOUS
<1>2. Colon \in Int
  BY SignsAreInt
<1>3. PICK t1 \in Seq(Int) : t1 = Append(t, Colon)
  BY <1>2, MoreText
<1>4. ps \in Seq(Seq(Int)) \ {<<>>} /\ SplitAt(t1, Colon) = Append(ps, <<>>)
  <2>1. SplitAt(t1, Colon) = WithLast(ps, Colon, Colon)
    BY <1>1, <1>2, <1>3, SplitSteps
  <2>2. ps \in Seq(Seq(Int)) \ {<<>>}
    BY <1>1, SplitSteps
  <2> QED BY <2>1, <2>2 DEF WithLast
<1>5. PICK u \in Seq(Int) : u = Append(t1, c) /\ u # <<>>
  BY MoreText
<1>6. PICK qs : qs = SplitAt(t1, Colon)
  OBVIOUS
<1>7. Items(u) = [qs EXCEPT ![Len(qs)] = Append(qs[Len(qs)], c)]
  <2>1. SplitAt(u, Colon) = WithLast(qs, c, Colon)
    BY <1>5, <1>6, SplitSteps
  <2>2. Items(u) = SplitAt(u, Colon)
    BY <1>5 DEF Items
  <2> QED BY <2>1, <2>2 DEF WithLast
<1>8. PICK S : S = Seq(Int)
  OBVIOUS
<1>9. ps \in Seq(S) /\ <<>> \in S
  BY <1>4, <1>8
<1>10. qs \in Seq(S) /\ Len(qs) = Len(ps) + 1 /\ (\A i \in 1 .. Len(ps) : qs[i] = ps[i]) /\ Len(ps) \in Nat
       /\ qs[Len(ps) + 1] = <<>>
  <2>1. PICK e \in S : e = <<>>
    BY <1>9
  <2>2. qs = Append(ps, e)
    BY <1>4, <1>6, <2>1
  <2> QED BY <1>9, <2>1, <2>2, AppendAt
<1>11. PICK e \in S : e = Append(qs[Len(qs)], c)
  <2>1. qs[Len(qs)] = <<>>
    BY <1>10
  <2>2. Append(<<>>, c) \in Seq(Int)
    OBVIOUS
  <2> QED BY <1>8, <2>1, <2>2
<1>12. PICK xs : xs = [qs EXCEPT ![Len(qs)] = e]
  OBVIOUS
<1>13. Items(u) = xs
  BY <1>7, <1>11, <1>12
<1>14. xs \in Seq(S) /\ Len(xs) = Len(qs) /\ \A i \in 1 .. Len(ps) : xs[i] = qs[i]
  BY <1>10, <1>12
<1>15. Continued(xs, ps)
  BY <1>8, <1>10, <1>14 DEF Continued
<1> QED BY <1>1, <1>3, <1>5, <1>13, <1>15

\* A character behind a valid text's settled part is a digit, which is no error.
LEMMA DigitIsRead ==
  ASSUME NEW q \in Parsers, q.state # "error", NEW c \in Digit PROVE Settled(q, c).state = "proc"
<1>1. c # Colon /\ c # Dot
  BY Marks
<1>2. Settled(q, c) = ReadDigit(q, c)
  BY <1>1 DEF Settled
<1> QED BY <1>2 DEF ReadDigit, Parsers

\* A colon and another item behind it,
LEMMA ColonInvalid ==
  ASSUME NEW s \in Seq(Int), NEW q, NEW gap \in BOOLEAN, NEW f, NEW t, Track(s, q, gap, f, t), Settles(t),
         NEW c \in Int, c # Colon, Settled(SingleColon(q), c).state = "error"
  PROVE  ~ Valid(Append(Append(s, Colon), c))
<1> DEFINE w == Append(Append(s, Colon), c)
           t1 == Append(t, Colon)
           u == Append(t1, c)
           ps == SplitAt(t, Colon)
           fs == Items(f)
<1> SUFFICES ASSUME Valid(w) PROVE FALSE
  OBVIOUS
<1>1. Joint(s, gap, f, t) /\ t \in Seq(Int) /\ Colon \in Int
  BY SignsAreInt, SeqOver DEF Track, TextIs, Joint
<1>2. Joint(Append(s, Colon), gap, f, t1) /\ t1 \in Seq(Int)
  BY <1>1, JointOn
<1>3. Joint(w, gap, f, u)
  <2> HIDE DEF t1
  <2> QED BY <1>2, JointOn
<1>4. Cut(w, gap, f, u)
  <2> HIDE DEF w, u
  <2> QED BY <1>3, JointCut
<1>5. c \in Digit
  <2> HIDE DEF w, t1
  <2> QED BY <1>2, <1>4, ValidEnd
<1>6. Holding(q, fs, ps, gap) /\ q \in Checked /\ q \in Parsers /\ q.state # "error"
  BY CheckedParts DEF Track, Holding
<1>7. SingleColon(q).state = "error"
  <2>1. SingleColon(q) \in Parsers
    BY <1>6, CheckedParts, SingleColonType DEF InBounds
  <2> QED BY <1>5, <2>1, DigitIsRead
<1>8. q.state # "proc" \/ ~ GroupEnds(q)
  BY <1>6, <1>7 DEF SingleColon, PushGroup, Parsers
<1>9. PICK all : all = Before(w) \o Behind(w)
  OBVIOUS
<1>10. Continued(Items(u), ps)
  BY <1>1, NextItem
<1> HIDE DEF w, u, ps, fs, t1
<1>11. Listed(all, fs, Items(u))
  BY <1>4, <1>9, CutItems DEF fs
<1>12. PICK xs : xs = Items(u)
  OBVIOUS
<1>13. /\ Len(fs) \in Nat /\ Len(ps) \in Nat \ {0} /\ Len(q.result_hex) = Len(fs) + Len(ps) - 1
  BY <1>6, HoldingParts
<1>14. PICK n \in Nat \ {0} : n = Len(fs) + Len(ps)
  BY <1>13
<1>15. all \in Seq(Seq(Int)) /\ Len(all) = n + 1 /\ all[n] = ps[Len(ps)]
  <2>1. all \in Seq(Seq(Int)) /\ Len(all) = Len(fs) + Len(xs) /\ \A k \in 1 .. Len(xs) : all[Len(fs) + k] = xs[k]
    BY <1>11, <1>12 DEF Listed
  <2>2. Len(xs) = Len(ps) + 1 /\ \A i \in 1 .. Len(ps) : xs[i] = ps[i]
    BY <1>10, <1>12 DEF Continued
  <2>3. Len(ps) \in 1 .. Len(ps) /\ Len(ps) \in 1 .. Len(xs)
    BY <1>13, <2>2
  <2>4. PICK a \in Nat, b \in Nat : a = Len(fs) /\ b = Len(ps)
    BY <1>13
  <2>5. all[a + b] = xs[b] /\ xs[b] = ps[b] /\ a + b = n
    BY <1>14, <2>1, <2>2, <2>3, <2>4
  <2>6. Len(all) = a + (b + 1)
    BY <2>1, <2>2, <2>4
  <2> QED BY <2>1, <2>4, <2>5, <2>6
<1>16. PICK ns : LastRead(q, all[n], ns)
  BY <1>6, <1>15 DEF Holding
<1>17. n \in 1 .. Len(all) /\ Len(q.result_hex) = n - 1 /\ n < Len(all) /\ n \in DOMAIN all
  BY <1>13, <1>14, <1>15
<1>18. GroupEnds(q)
  BY <1>6, <1>9, <1>15, <1>16, <1>17, GroupMayEnd
<1>19. q.state = "start"
  BY <1>6, <1>8, <1>18 DEF Parsers
<1>20. t = <<>>
  BY <1>19 DEF Track
<1>21. ps = << <<>> >>
  BY <1>20, SplitSteps DEF ps
<1>22. all[n] = <<>>
  BY <1>15, <1>21
<1>23. IsWritten(all[n])
  BY <1>9, <1>17, ValidItems
<1> QED BY <1>22, <1>23, WrittenEnd

\* and two colons.
LEMMA GapInvalid ==
  ASSUME NEW s \in Seq(Int), NEW q, NEW gap \in BOOLEAN, NEW f, NEW t, Track(s, q, gap, f, t), Settles(t),
         DoubleColon(q).state = "error"
  PROVE  ~ Valid(Append(Append(s, Colon), Colon))
<1> DEFINE w == Append(Append(s, Colon), Colon)
           ps == SplitAt(t, Colon)
<1> SUFFICES ASSUME Valid(w) PROVE FALSE
  OBVIOUS
<1>1. Joint(s, gap, f, t) /\ t \in Seq(Int) /\ Colon \in Int /\ Apart(t) /\ f \in Seq(Int) /\ Apart(f) /\ Settles(f)
  BY SignsAreInt, SeqOver DEF Track, TextIs, Joint
<1>2. Holding(q, Items(f), ps, gap) /\ q \in Checked /\ q \in Parsers /\ q.state # "error"
  BY CheckedParts DEF Track, Holding
<1>3. w \in Seq(Int) /\ Len(w) = Len(s) + 2 /\ w[Len(w)] = Colon /\ w[Len(w) - 1] = Colon /\ Len(s) \in Nat
  BY <1>1
<1>4. CASE gap = TRUE
  <2>1. s = f \o <<Colon, Colon>> \o t
    BY <1>1, <1>4 DEF Joint
  <2>2. PICK u \in Seq(Int) : u = Append(Append(t, Colon), Colon)
    <3>1. Append(Append(t, Colon), Colon) \in Seq(Int)
      BY <1>1
    <3> QED BY <3>1
  <2>3. Joint(Append(s, Colon), TRUE, f, Append(t, Colon))
    BY <1>1, <1>4, JointOn
  <2>4. Joint(w, TRUE, f, u)
    BY <1>1, <2>2, <2>3, JointOn
  <2> HIDE DEF w
  <2>5. w = f \o <<Colon, Colon>> \o u
    BY <2>4 DEF Joint
  <2>6. Len(f) + 1 \in Doubles(w)
    BY <1>1, <2>5, CutAt
  <2>7. Len(f) + 1 \in Doubles(s) /\ Doubles(s) \subseteq 1 .. Len(s) - 1
    BY <1>1, <2>1, CutAt DEF Doubles
  <2>8. Len(w) - 1 \in Doubles(w)
    <3>1. Len(w) - 1 \in 1 .. Len(w) - 1 /\ Len(w) - 1 + 1 = Len(w)
      BY <1>3
    <3> QED BY <1>3, <3>1 DEF Doubles
  <2>9. Len(f) + 1 # Len(w) - 1
    BY <1>1, <1>3, <2>7
  <2> QED BY <1>3, <2>6, <2>8, <2>9, TwoGaps
<1>5. CASE gap = FALSE
  <2>1. s = t /\ f = <<>>
    BY <1>1, <1>5 DEF Joint
  <2>2. w = t \o <<Colon, Colon>> \o <<>> /\ <<>> \in Seq(Int)
    BY <1>1, <2>1
  <2>3. Cut(w, TRUE, t, <<>>)
    <3> HIDE DEF w
    <3> QED BY <1>1, <2>2, CutAt
  <2>4. q.separator = NoSeparator
    BY <1>2, <1>5 DEF Holding
  <2>5. ~ GroupEnds(q)
    <3> SUFFICES ASSUME GroupEnds(q) PROVE FALSE
      OBVIOUS
    <3>1. PICK x : x = IF q.state = "proc" THEN PushGroup(q) ELSE [q EXCEPT !.pending = FALSE]
      OBVIOUS
    <3>2. DoubleColon(q) = [x EXCEPT !.separator = Len(x.result_hex)]
      BY <2>4, <3>1 DEF DoubleColon
    <3>3. x \in Parsers /\ x.state = q.state
      BY <1>2, <3>1, CheckedParts, PushGroupType DEF PushGroup, Parsers, InBounds
    <3> QED BY <1>2, <3>2, <3>3 DEF Parsers
  <2>6. PICK ns : LastRead(q, ps[Len(ps)], ns)
    BY <1>2 DEF Holding
  <2>7. Items(f) = <<>> /\ Len(ps) \in Nat \ {0} /\ Len(q.result_hex) = Len(ps) - 1
    <3>1. Items(f) = <<>>
      BY <2>1 DEF Items
    <3>2. Len(ps) \in Nat \ {0} /\ Len(q.result_hex) = Len(Items(f)) + Len(ps) - 1 /\ Len(Items(f)) = 0
      <4> HIDE DEF ps
      <4> QED BY <1>2, <3>1, HoldingParts
    <3> QED BY <3>1, <3>2
  <2>8. CASE t = <<>>
    <3>1. ps = << <<>> >>
      BY <2>8, SplitSteps
    <3>2. Len(ps) = 1 /\ ps[Len(ps)] = <<>>
      BY <3>1
    <3>3. q.accum_hex = 0 /\ Len(q.result_dec) = 0
      BY <2>6, <3>2, EmptyLast
    <3>4. q.result_dec = <<>>
      BY <1>2, <3>3 DEF Parsers
    <3>5. 0 <= Ones /\ 0 < Groups - 1
      BY WidthAssumption, WordPositive DEF Ones
    <3> QED BY <2>5, <2>7, <3>2, <3>3, <3>4, <3>5 DEF GroupEnds
  <2>9. CASE t # <<>>
    <3>1. Items(t) = ps /\ Items(<<>>) = <<>>
      BY <2>9 DEF Items
    <3> HIDE DEF w, ps
    <3>2. PICK all : all = Before(w) \o Behind(w)
      OBVIOUS
    <3>3. Listed(all, ps, <<>>)
      BY <2>3, <3>1, <3>2, CutItems
    <3>4. /\ all \in Seq(Seq(Int)) /\ ps \in Seq(Seq(Int)) /\ Len(all) = Len(ps)
          /\ \A k \in 1 .. Len(ps) : all[k] = ps[k]
      <4>1. Len(<<>>) = 0
        OBVIOUS
      <4> QED BY <2>7, <3>3, <4>1 DEF Listed
    <3>5. PICK n \in Nat \ {0} : n = Len(ps)
      BY <2>7
    <3>6. all[n] = ps[n] /\ n \in 1 .. Len(all) /\ ps[n] \in Range(ps)
      BY <3>4, <3>5 DEF Range
    <3>7. First(w) # 0 /\ Before(w) = ps
      BY <2>3, <3>1 DEF Cut
    <3>8. LastRead(q, all[n], ns)
      BY <2>6, <3>5, <3>6
    <3>9. GroupEnds(q)
      BY <1>2, <2>7, <3>2, <3>4, <3>5, <3>6, <3>7, <3>8, GroupMayEnd
    <3> QED BY <2>5, <3>9
  <2> QED BY <2>8, <2>9
<1> QED BY <1>4, <1>5

\* The character at which the automaton stops makes the text invalid.
LEMMA ErrorInvalid ==
  ASSUME NEW s \in Seq(Int), NEW c \in Int, NEW q, q = Parsed(s), q.state # "error", Read(q, c).state = "error"
  PROVE  ~ Valid(Append(s, c))
<1>1. q \in Checked /\ q \in Parsers
  BY ParsedSteps, CheckedParts
<1>2. PICK gap, f, t, s0 : Tracked(s, q, gap, f, t, s0)
  BY EveryTextFollowed DEF Follows
<1>3. /\ s0 \in Seq(Int) /\ gap \in BOOLEAN /\ s = (IF q.pending THEN Append(s0, Colon) ELSE s0)
      /\ Track(s0, q, gap, f, t) /\ Settles(t) /\ q.pending \in BOOLEAN
  BY <1>1, <1>2 DEF Tracked, Parsers
<1>4. CASE q.pending = FALSE
  <2>1. s = s0 /\ Read(q, c) = Settled(q, c)
    BY <1>3, <1>4 DEF Read
  <2>2. c # Colon
    <3> SUFFICES ASSUME c = Colon PROVE FALSE
      OBVIOUS
    <3>1. Settled(q, c) = [q EXCEPT !.pending = TRUE]
      BY DEF Settled
    <3> QED BY <1>1, <2>1, <3>1 DEF Parsers
  <2>3. Joint(s, gap, f, t) /\ t \in Seq(Int)
    BY <1>3, <2>1, SignsAreInt, SeqOver DEF Track, TextIs, Joint
  <2>4. Joint(Append(s, c), gap, f, Append(t, c))
    BY <1>3, <2>2, <2>3, JointOn
  <2>5. Cut(Append(s, c), gap, f, Append(t, c))
    BY <1>3, <2>4, JointCut
  <2>6. Valid(Append(s, c)) => c \in Digit
    BY <2>3, <2>5, ValidEnd
  <2> QED BY <1>1, <2>1, <2>6, DigitIsRead
<1>5. CASE q.pending = TRUE
  <2>1. s = Append(s0, Colon)
    BY <1>3, <1>5
  <2>2. CASE c = Colon
    <3>1. DoubleColon(q).state = "error"
      BY <1>5, <2>2 DEF Read
    <3> QED BY <1>3, <2>1, <2>2, <3>1, GapInvalid
  <2>3. CASE c # Colon
    <3>1. Settled(SingleColon(q), c).state = "error"
      BY <1>5, <2>3 DEF Read
    <3> QED BY <1>3, <2>1, <2>3, <3>1, ColonInvalid
  <2> QED BY <2>2, <2>3
<1> QED BY <1>3, <1>4, <1>5

-----------------------------------------------------------------------------
(* The groups of a valid text are what it means *)

\* A front of a sequence and the next element.
LEMMA FrontSnoc ==
  ASSUME NEW h \in Seq(Int), NEW j \in 0 .. Len(h) - 1
  PROVE  /\ SubSeq(h, 1, j) \in Seq(Int) /\ SubSeq(h, 1, j + 1) = SubSeq(h, 1, j) \o <<h[j + 1]>>
         /\ j = 0 => SubSeq(h, 1, j) = <<>>
<1>1. Len(h) \in Nat /\ h[j + 1] \in Int
  OBVIOUS
<1>2. SubSeq(h, 1, j) \in Seq(Int) /\ SubSeq(h, 1, j + 1) = Append(SubSeq(h, 1, j), h[j + 1])
  BY <1>1
<1>3. PICK y \in Seq(Int), c \in Int : y = SubSeq(h, 1, j) /\ c = h[j + 1]
  BY <1>1, <1>2
<1>4. Append(y, c) = y \o <<c>>
  OBVIOUS
<1> QED BY <1>2, <1>3, <1>4

\* Single groups and a last item of one or two, one behind the other.
LEMMA FlattenIs ==
  ASSUME NEW h \in Seq(Int), NEW e \in Seq(Int), NEW xs \in Seq(Seq(Int)), Len(xs) = Len(h) + 1,
         \A i \in 1 .. Len(h) : xs[i] = <<h[i]>>, xs[Len(xs)] = e
  PROVE  FlattenSeq(xs) = h \o e
<1> DEFINE k == Len(h)
           n == Len(xs)
           Entry(g, i) == IF i = 1 THEN xs[i] ELSE g[i - 1] \o xs[i]
           P(g) == g = [i \in 1 .. n |-> IF i = 1 THEN xs[i] ELSE g[i - 1] \o xs[i]]
           run == CHOOSE g : P(g)
           w == [i \in 1 .. n |-> IF i <= k THEN SubSeq(h, 1, i) ELSE h \o e]
<1>1. k \in Nat /\ n = k + 1 /\ n \in Nat
  OBVIOUS
<1>2. ASSUME NEW i \in 1 .. n PROVE w[i] = Entry(w, i)
  <2>1. CASE i = 1 /\ k = 0
    <3>1. h = <<>> /\ xs[i] = e
      BY <1>1, <2>1
    <3>2. w[i] = h \o e
      BY <1>1, <2>1
    <3>3. <<>> \o e = e
      OBVIOUS
    <3> QED BY <2>1, <3>1, <3>2, <3>3
  <2>2. CASE i = 1 /\ k # 0
    <3>1. w[i] = SubSeq(h, 1, 1) /\ xs[i] = <<h[1]>>
      BY <1>1, <2>2
    <3>2. SubSeq(h, 1, 1) = <<h[1]>>
      <4>1. PICK j \in 0 .. Len(h) - 1 : j = 0 /\ j + 1 = 1
        BY <1>1, <2>2
      <4>2. SubSeq(h, 1, j + 1) = SubSeq(h, 1, j) \o <<h[j + 1]>> /\ SubSeq(h, 1, j) = <<>>
        BY <4>1, FrontSnoc
      <4>3. <<>> \o <<h[1]>> = <<h[1]>>
        OBVIOUS
      <4> QED BY <4>1, <4>2, <4>3
    <3> QED BY <2>2, <3>1, <3>2
  <2>3. CASE i # 1 /\ i <= k
    <3>1. PICK j \in 1 .. k : j = i - 1 /\ j + 1 = i
      BY <1>1, <2>3
    <3>2. w[i] = SubSeq(h, 1, i) /\ w[j] = SubSeq(h, 1, j) /\ xs[i] = <<h[i]>>
      <4>1. j \in 1 .. n /\ j <= k /\ i \in 1 .. Len(h) /\ k = Len(h)
        BY <1>1, <2>3, <3>1
      <4> HIDE DEF k, n
      <4> QED BY <2>3, <4>1
    <3>3. SubSeq(h, 1, i) = SubSeq(h, 1, j) \o <<h[i]>>
      <4>1. j \in 0 .. Len(h) - 1
        BY <1>1, <2>3, <3>1
      <4>2. SubSeq(h, 1, j + 1) = SubSeq(h, 1, j) \o <<h[j + 1]>>
        BY <4>1, FrontSnoc
      <4> QED BY <3>1, <4>2
    <3> HIDE DEF w
    <3> QED BY <2>3, <3>1, <3>2, <3>3
  <2>4. CASE i # 1 /\ ~ (i <= k)
    <3>1. i = k + 1 /\ k \in 1 .. n /\ i - 1 = k
      BY <1>1, <2>4
    <3>2. w[i] = h \o e /\ w[k] = SubSeq(h, 1, k) /\ xs[i] = e
      BY <1>1, <2>4, <3>1
    <3>3. SubSeq(h, 1, k) = h
      BY <1>1
    <3> HIDE DEF w
    <3> QED BY <2>4, <3>1, <3>2, <3>3
  <2> QED BY <2>1, <2>2, <2>3, <2>4
<1>3. P(w)
  <2>1. w = [i \in 1 .. n |-> w[i]]
    OBVIOUS
  <2> HIDE DEF w
  <2> QED BY <1>2, <2>1
<1>4. P(run)
  <2> HIDE DEF P
  <2> QED BY <1>3
<1>5. FlattenSeq(xs) = run[n]
  BY <1>1 DEF FlattenSeq
<1>6. ASSUME NEW i \in 1 .. n PROVE run[i] = Entry(run, i)
  <2> HIDE DEF run
  <2> QED BY <1>4
<1> HIDE DEF run, w, P
<1> DEFINE S == {i \in 0 .. n : i = 0 \/ run[i] = w[i]}
<1>7. 0 \in S
  BY <1>1
<1>8. ASSUME NEW i \in 1 .. n, i - 1 \in S PROVE i \in S
  <2>1. CASE i = 1
    BY <1>1, <1>2, <1>6, <2>1
  <2>2. CASE i # 1
    <3>1. run[i - 1] = w[i - 1]
      BY <1>1, <1>8, <2>2
    <3>2. run[i] = w[i]
      BY <1>2, <1>6, <2>2, <3>1
    <3> QED BY <1>1, <3>2
  <2> QED BY <2>1, <2>2
<1>9. 0 .. n \subseteq S
  <2> HIDE DEF S
  <2> QED BY <1>1, <1>7, <1>8, RangeInduction
<1>10. run[n] = w[n]
  <2>1. n \in 0 .. n /\ n # 0
    BY <1>1
  <2> QED BY <1>9, <2>1
<1>11. w[n] = h \o e
  BY <1>1 DEF w
<1> QED BY <1>5, <1>10, <1>11

\* The zeros go between the groups in front of the gap and those behind it.
Zeros(n) == [i \in 1 .. n |-> 0]
LEMMA ExpandCuts ==
  ASSUME NEW a \in Seq(Int), NEW b \in Seq(Int), Len(a) + Len(b) <= Groups, NEW sep,
         sep = Len(a) \/ (sep = NoSeparator /\ a = <<>>)
  PROVE  Expand(a \o b, sep) = a \o Zeros(Groups - Len(a) - Len(b)) \o b
<1> DEFINE g == a \o b
           m == Groups - Len(a) - Len(b)
           z == Zeros(m)
<1>1. Len(a) \in Nat /\ Len(b) \in Nat /\ Groups \in Nat /\ m \in Nat
  BY WidthAssumption
<1>2. g \in Seq(Int) /\ Len(g) = Len(a) + Len(b) /\ (\A k \in 1 .. Len(a) : g[k] = a[k])
      /\ \A k \in 1 .. Len(b) : g[Len(a) + k] = b[k]
  BY JoinAt
<1>3. z \in Seq(Int) /\ Len(z) = m /\ \A k \in 1 .. m : z[k] = 0
  BY <1>1 DEF Zeros
<1> HIDE DEF g, m, z
<1>4. PICK u \in Seq(Int) : u = a \o z /\ Len(u) = Len(a) + m /\ (\A k \in 1 .. Len(a) : u[k] = a[k])
                            /\ \A k \in 1 .. m : u[Len(a) + k] = z[k]
  <2>1. a \o z \in Seq(Int) /\ Len(a \o z) = Len(a) + Len(z) /\ (\A k \in 1 .. Len(a) : (a \o z)[k] = a[k])
        /\ \A k \in 1 .. Len(z) : (a \o z)[Len(a) + k] = z[k]
    <3>1. PICK y \in Seq(Int) : y = z
      BY <1>3
    <3>2. a \o y \in Seq(Int)
      OBVIOUS
    <3>3. Len(a \o y) = Len(a) + Len(y) /\ (\A k \in 1 .. Len(a) : (a \o y)[k] = a[k])
          /\ \A k \in 1 .. Len(y) : (a \o y)[Len(a) + k] = y[k]
      BY ConcatAt
    <3> QED BY <3>1, <3>2, <3>3
  <2>2. PICK w \in Seq(Int) : w = a \o z
    BY <2>1
  <2>3. Len(w) = Len(a) + m /\ (\A k \in 1 .. Len(a) : w[k] = a[k]) /\ \A k \in 1 .. m : w[Len(a) + k] = z[k]
    BY <1>3, <2>1, <2>2
  <2> QED BY <2>2, <2>3
<1>5. PICK v \in Seq(Int) : v = u \o b /\ Len(v) = Len(u) + Len(b) /\ (\A k \in 1 .. Len(u) : v[k] = u[k])
                            /\ \A k \in 1 .. Len(b) : v[Len(u) + k] = b[k]
  <2>1. u \o b \in Seq(Int) /\ Len(u \o b) = Len(u) + Len(b) /\ (\A k \in 1 .. Len(u) : (u \o b)[k] = u[k])
        /\ \A k \in 1 .. Len(b) : (u \o b)[Len(u) + k] = b[k]
    BY JoinAt
  <2> QED BY <2>1
<1>6. PICK x \in Nat, y \in Nat : x = Len(a) /\ y = Len(b) /\ x + m + y = Groups
  BY <1>1 DEF m
<1>7. Len(v) = Groups /\ Len(u) = x + m /\ DOMAIN v = 1 .. Groups
  BY <1>1, <1>4, <1>5, <1>6
<1>8. Expand(g, sep) = [j \in 1 .. Groups |-> IF j <= x THEN g[j] ELSE IF j <= x + m THEN 0 ELSE g[j - m]]
  <2>1. (IF sep = NoSeparator THEN 0 ELSE sep) = x
    BY <1>1, <1>6 DEF NoSeparator
  <2>2. Groups - Len(g) = m
    BY <1>1, <1>2, <1>6
  <2> QED BY <2>1, <2>2 DEF Expand
<1>9. ASSUME NEW j \in 1 .. Groups PROVE v[j] = Expand(g, sep)[j]
  <2>1. CASE j <= x
    <3>1. j \in 1 .. Len(a) /\ j \in 1 .. Len(u)
      BY <1>1, <1>6, <1>7, <2>1
    <3> QED BY <1>2, <1>4, <1>5, <1>8, <2>1, <3>1
  <2>2. CASE ~ (j <= x) /\ j <= x + m
    <3>1. PICK k \in 1 .. m : j = x + k
      <4>1. j - x \in 1 .. m /\ j = x + (j - x)
        BY <1>1, <1>6, <2>2
      <4> QED BY <4>1
    <3>2. j \in 1 .. Len(u)
      BY <1>1, <1>6, <1>7, <2>2
    <3>3. v[j] = u[j] /\ u[j] = z[k] /\ z[k] = 0
      BY <1>3, <1>4, <1>5, <1>6, <3>1, <3>2
    <3> QED BY <1>8, <2>2, <3>3
  <2>3. CASE ~ (j <= x) /\ ~ (j <= x + m)
    <3>1. PICK k \in 1 .. y : j = x + m + k /\ j - m = x + k
      <4>1. j - x - m \in 1 .. y /\ j = x + m + (j - x - m) /\ j - m = x + (j - x - m)
        BY <1>1, <1>6, <2>3
      <4> QED BY <4>1
    <3>2. v[j] = b[k]
      BY <1>5, <1>6, <1>7, <3>1
    <3>3. g[j - m] = b[k]
      BY <1>2, <1>6, <3>1
    <3> QED BY <1>8, <2>3, <3>2, <3>3
  <2> QED BY <2>1, <2>2, <2>3
<1>10. v = Expand(g, sep)
  <2>1. DOMAIN Expand(g, sep) = 1 .. Groups /\ Expand(g, sep) = [j \in 1 .. Groups |-> Expand(g, sep)[j]]
    BY <1>8
  <2>2. v = [j \in 1 .. Groups |-> v[j]]
    BY <1>7
  <2> QED BY <1>9, <2>1, <2>2
<1> QED BY <1>4, <1>5, <1>10 DEF g, z, m

\* An octet and a group are values of a uint32_t.
LEMMA InOneWord == /\ Octet \in Nat /\ Ones \in Nat /\ Octet <= Word /\ Ones < Word
<1>1. PICK w \in Nat \ {0} : w = Octet * Octet
  BY WordPositive
<1>2. PICK v \in Nat \ {0} : v = Octet * Octet * Octet
  BY <1>1, WidthAssumption, WordPositive
<1>3. w <= w * w /\ Octet <= Octet * v
  BY <1>1, <1>2, WidthAssumption
<1>4. Word = w * w /\ Word = Octet * v
  BY <1>1, <1>2, WidthAssumption DEF Word
<1>5. Octet <= Word
  BY <1>3, <1>4
<1>6. Ones = w - 1 /\ Ones \in Nat
  BY <1>1 DEF Ones
<1>7. w <= Word /\ Word \in Nat
  BY <1>3, <1>4, WordPositive
<1> QED BY <1>1, <1>5, <1>6, <1>7, WidthAssumption

\* The groups at the end of the text.
End(q) ==
  IF q.result_dec = <<>> THEN <<q.accum_hex>>
  ELSE <<Pair(q.result_dec[1], q.result_dec[2]), Pair(q.result_dec[3], q.accum_dec)>>

\* A last item in its range is accepted and gives the groups it stands for,
LEMMA ValidLast ==
  ASSUME NEW q \in Checked, NEW l, NEW ns, LastRead(q, l, ns), InRange(l)
  PROVE  /\ q.result_dec = <<>> => q.accum_hex <= Ones
         /\ q.result_dec # <<>> => Len(q.result_dec) = 3 /\ q.accum_dec < Octet
         /\ GroupsOf(l) = End(q)
<1>1. /\ ns = SplitAt(l, Dot) /\ Len(ns) \in Nat \ {0} /\ Len(q.result_dec) = Len(ns) - 1
      /\ (IsQuad(l) <=> Len(ns) > 1) /\ (IsQuad(l) <=> q.result_dec # <<>>) /\ (Len(ns) = 1 => ns[1] = l)
      /\ \A i \in 1 .. Len(ns) : Value(ns[i], DecBase) \in Nat /\ Value(ns[i], HexBase) \in Nat
  BY LastItem
<1>2. /\ (\A i \in 1 .. Len(ns) - 1 : Value(ns[i], DecBase) < Word => q.result_dec[i] = Value(ns[i], DecBase))
      /\ (Value(ns[Len(ns)], HexBase) < Word => q.accum_hex = Value(ns[Len(ns)], HexBase))
      /\ (Value(ns[Len(ns)], DecBase) < Word => q.accum_dec = Value(ns[Len(ns)], DecBase))
  BY LastValues
<1>3. Octet \in Nat /\ Ones \in Nat /\ Octet <= Word /\ Ones < Word /\ Word \in Nat
  BY InOneWord, WordPositive
<1>4. CASE IsQuad(l)
  <2>1. Len(ns) = 4 /\ \A i \in 1 .. 4 : Value(ns[i], DecBase) < Octet
    BY <1>1, <1>4 DEF InRange
  <2>2. ASSUME NEW i \in 1 .. 4 PROVE Value(ns[i], DecBase) < Word
    <3>1. PICK x \in Nat : x = Value(ns[i], DecBase)
      BY <1>1, <2>1
    <3>2. x < Octet
      BY <2>1, <3>1
    <3> QED BY <1>3, <3>1, <3>2
  <2>3. /\ q.result_dec[1] = Value(ns[1], DecBase) /\ q.result_dec[2] = Value(ns[2], DecBase)
        /\ q.result_dec[3] = Value(ns[3], DecBase) /\ q.accum_dec = Value(ns[4], DecBase)
    BY <1>2, <2>1, <2>2
  <2>4. q.result_dec # <<>> /\ Len(q.result_dec) = 3 /\ q.accum_dec < Octet
    BY <1>1, <1>4, <2>1, <2>3
  <2>5. GroupsOf(l) = <<Pair(Value(ns[1], DecBase), Value(ns[2], DecBase)), Pair(Value(ns[3], DecBase), Value(ns[4], DecBase))>>
    BY <1>1, <1>4 DEF GroupsOf
  <2>6. End(q) = <<Pair(q.result_dec[1], q.result_dec[2]), Pair(q.result_dec[3], q.accum_dec)>>
    BY <2>4 DEF End
  <2> QED BY <2>3, <2>4, <2>5, <2>6
<1>5. CASE ~ IsQuad(l)
  <2>1. Value(l, HexBase) <= Ones
    BY <1>5 DEF InRange
  <2>2. q.result_dec = <<>> /\ Len(ns) = 1 /\ ns[1] = l
    <3>1. PICK k \in Nat : k = Len(ns) /\ k # 0
      BY <1>1
    <3>2. ~ (k > 1) /\ q.result_dec = <<>>
      BY <1>1, <1>5, <3>1
    <3>3. k = 1
      BY <3>1, <3>2
    <3> QED BY <1>1, <3>1, <3>2, <3>3
  <2>3. PICK x \in Nat : x = Value(l, HexBase)
    <3>1. 1 \in 1 .. Len(ns)
      BY <2>2
    <3> QED BY <1>1, <2>2, <3>1
  <2>4. q.accum_hex = x
    BY <1>2, <1>3, <2>1, <2>2, <2>3
  <2>5. GroupsOf(l) = <<x>> /\ End(q) = <<x>>
    BY <1>5, <2>2, <2>3, <2>4 DEF GroupsOf, End
  <2> QED BY <2>1, <2>2, <2>3, <2>4, <2>5
<1> QED BY <1>4, <1>5

\* like the numbers in front of it.
LEMMA ValidPlain ==
  ASSUME NEW w, NEW v, Plain(w, v), InRange(w) PROVE GroupsOf(w) = <<v>> /\ v \in Int
<1>1. /\ ~ IsQuad(w) /\ Value(w, HexBase) \in Nat /\ v \in Nat
      /\ Value(w, HexBase) < Word => v = Value(w, HexBase)
  BY PlainItem
<1>2. Value(w, HexBase) <= Ones
  BY <1>1 DEF InRange
<1>3. PICK x \in Nat : x = Value(w, HexBase)
  BY <1>1
<1>4. v = x
  BY <1>1, <1>2, <1>3, InOneWord, WordPositive
<1> QED BY <1>1, <1>3, <1>4 DEF GroupsOf

\* What the text of a parser stands for: the items, the groups they give and
\* how many there are.
Gives(q, all) ==
  /\ \A i \in 1 .. Len(q.result_hex) : GroupsOf(all[i]) = <<q.result_hex[i]>>
  /\ Len(all) = Len(q.result_hex) + 1 => GroupsOf(all[Len(all)]) = End(q)

\* At the end of a valid text the automaton holds the groups of its items.
LEMMA ValidGives ==
  ASSUME NEW s \in Seq(Int), Valid(s), NEW q, NEW gap \in BOOLEAN, NEW f, NEW t, Track(s, q, gap, f, t),
         NEW all, all = Before(s) \o Behind(s)
  PROVE  ~ Refused(q) /\ Gives(q, all) /\ ItemsRead(q, all) /\ q \in Checked /\ Listed(all, Items(f), Items(t))
<1>1. q \in Checked /\ Holding(q, Items(f), SplitAt(t, Colon), gap)
  BY DEF Track, Holding
<1>2. Cut(s, gap, f, t)
  BY TrackCut
<1>3. ItemsRead(q, all)
  BY <1>2, TrackItems DEF Cut
<1>4. Listed(all, Items(f), Items(t))
  BY <1>2, CutItems
<1>5. /\ all \in Seq(Seq(Int)) /\ Len(all) \in {Len(q.result_hex), Len(q.result_hex) + 1}
      /\ (\A i \in 1 .. Len(q.result_hex) : Plain(all[i], q.result_hex[i]))
      /\ (Len(all) = Len(q.result_hex) + 1 => \E ns : LastRead(q, all[Len(all)], ns))
      /\ (Len(all) = Len(q.result_hex) => q.result_dec = <<>> /\ q.accum_hex = 0)
  BY <1>3 DEF ItemsRead
<1>6. Len(q.result_hex) \in Nat /\ Len(all) \in Nat /\ DOMAIN all = 1 .. Len(all) /\ q \in Parsers
  BY <1>1, <1>5, CheckedParts
<1>7. \A i \in DOMAIN all : InRange(all[i])
  BY ValidItems
<1>8. ASSUME NEW i \in 1 .. Len(q.result_hex) PROVE GroupsOf(all[i]) = <<q.result_hex[i]>>
  <2>1. i \in DOMAIN all
    BY <1>5, <1>6
  <2> QED BY <1>5, <1>7, <2>1, ValidPlain
<1>9. ASSUME Len(all) = Len(q.result_hex) + 1
      PROVE  /\ GroupsOf(all[Len(all)]) = End(q) /\ (q.result_dec = <<>> => q.accum_hex <= Ones)
             /\ (q.result_dec # <<>> => Len(q.result_dec) = 3 /\ q.accum_dec < Octet)
  <2>1. Len(all) \in DOMAIN all
    BY <1>6, <1>9
  <2> QED BY <1>1, <1>5, <1>7, <1>9, <2>1, ValidLast
<1>10. Gives(q, all)
  BY <1>8, <1>9 DEF Gives
<1>11. q.state # "error" /\ ~ (q.state = "start" /\ q.separator = NoSeparator)
  <2>1. q.state # "error"
    BY <1>1 DEF Holding
  <2>2. ASSUME q.state = "start", q.separator = NoSeparator PROVE FALSE
    <3>1. f = <<>> /\ t = <<>>
      BY <2>2 DEF Track
    <3>2. gap => q.separator = Len(Items(f)) /\ Len(Items(f)) \in Nat
      BY <1>1 DEF Holding
    <3>3. gap = FALSE
      BY <2>2, <3>2 DEF NoSeparator
    <3>4. s = <<>>
      BY <3>1, <3>3 DEF Track, TextIs
    <3> QED BY <3>4 DEF Valid
  <2> QED BY <2>1, <2>2
<1>12. /\ (q.result_dec = <<>> => q.accum_hex <= Ones)
       /\ (q.result_dec # <<>> => Len(q.result_dec) = 3 /\ q.accum_dec < Octet)
  <2>1. 0 <= Ones
    BY InOneWord
  <2> QED BY <1>5, <1>9, <2>1
<1>13. ~ Refused(q)
  <2>1. q.accum_hex \in Nat /\ q.accum_dec \in Nat /\ Ones \in Nat /\ Octet \in Nat /\ Len(<<>>) = 0
    BY <1>6, InOneWord, WordPositive DEF Parsers
  <2>2. Len(q.result_dec) = 0 \/ Len(q.result_dec) = 3
    BY <1>12, <2>1
  <2>3. ~ (q.result_dec = <<>> /\ q.accum_hex > Ones) /\ ~ (Len(q.result_dec) = 3 /\ q.accum_dec >= Octet)
    <3>1. PICK x \in Nat, y \in Nat : x = q.accum_hex /\ y = q.accum_dec
      BY <2>1
    <3>2. Len(q.result_dec) = 3 => q.result_dec # <<>>
      <4>1. q.result_dec = <<>> => Len(q.result_dec) = 0
        OBVIOUS
      <4> QED BY <4>1
    <3>3. (q.result_dec = <<>> => x <= Ones) /\ (Len(q.result_dec) = 3 => y < Octet)
      BY <1>12, <3>1, <3>2
    <3>4. (x <= Ones => ~ (x > Ones)) /\ (y < Octet => ~ (y >= Octet))
      BY <2>1
    <3> QED BY <3>1, <3>3, <3>4
  <2> QED BY <1>11, <2>2, <2>3 DEF Refused
<1> QED BY <1>1, <1>3, <1>4, <1>10, <1>13

\* The groups of items, one behind the other.
GroupsIn(xs) == FlattenSeq([i \in DOMAIN xs |-> GroupsOf(xs[i])])

\* Items of one group each and a last one of one or two,
LEMMA FlattenLast ==
  ASSUME NEW g \in Seq(Int), NEW e \in Seq(Int), NEW xs \in Seq(Seq(Int)), Len(xs) = Len(g) + 1,
         \A i \in 1 .. Len(g) : GroupsOf(xs[i]) = <<g[i]>>, GroupsOf(xs[Len(xs)]) = e
  PROVE  GroupsIn(xs) = g \o e
<1> DEFINE ys == [i \in DOMAIN xs |-> GroupsOf(xs[i])]
<1>1. Len(g) \in Nat /\ Len(xs) \in Nat /\ DOMAIN xs = 1 .. Len(g) + 1
  OBVIOUS
<1>2. ASSUME NEW i \in DOMAIN xs PROVE GroupsOf(xs[i]) \in Seq(Int)
  <2>1. CASE i \in 1 .. Len(g)
    <3>1. g[i] \in Int
      BY <2>1
    <3>2. <<g[i]>> \in Seq(Int)
      BY <3>1
    <3> QED BY <2>1, <3>2
  <2>2. CASE i \notin 1 .. Len(g)
    <3>1. i = Len(xs)
      BY <1>1, <2>2
    <3> QED BY <3>1
  <2> QED BY <2>1, <2>2
<1>3. PICK S : S = Seq(Int)
  OBVIOUS
<1>4. ys \in Seq(S) /\ Len(ys) = Len(g) + 1
  <2>1. ys \in [1 .. Len(g) + 1 -> S]
    BY <1>1, <1>2, <1>3
  <2>2. PICK n \in Nat : n = Len(g) + 1
    BY <1>1
  <2> HIDE DEF ys
  <2>3. ys \in Seq(S)
    <3>1. ys \in [1 .. n -> S]
      BY <2>1, <2>2
    <3>2. \A y \in [1 .. n -> S] : y \in Seq(S)
      OBVIOUS
    <3> QED BY <3>1, <3>2, Zenon
  <2>4. DOMAIN ys = 1 .. n
    BY <2>1, <2>2
  <2>5. Len(ys) = n
    BY <2>2, <2>3, <2>4
  <2> QED BY <2>2, <2>3, <2>5
<1>5. (\A i \in 1 .. Len(g) : ys[i] = <<g[i]>>) /\ ys[Len(ys)] = e
  <2>1. Len(g) + 1 \in DOMAIN xs /\ \A i \in 1 .. Len(g) : i \in DOMAIN xs
    BY <1>1
  <2>2. ys[Len(g) + 1] = e
    BY <2>1
  <2>3. \A i \in 1 .. Len(g) : ys[i] = <<g[i]>>
    BY <2>1
  <2> HIDE DEF ys
  <2> QED BY <1>4, <2>2, <2>3
<1> HIDE DEF ys
<1>6. ys \in Seq(Seq(Int))
  BY <1>3, <1>4
<1>7. FlattenSeq(ys) = g \o e
  BY <1>4, <1>5, <1>6, FlattenIs
<1> QED BY <1>7 DEF GroupsIn, ys

\* and without such an item.
LEMMA FlattenPlain ==
  ASSUME NEW g \in Seq(Int), NEW xs \in Seq(Seq(Int)), Len(xs) = Len(g),
         \A i \in 1 .. Len(g) : GroupsOf(xs[i]) = <<g[i]>>
  PROVE  GroupsIn(xs) = g
<1>1. Len(g) \in Nat
  OBVIOUS
<1>2. CASE Len(g) = 0
  <2>1. g = <<>> /\ xs = <<>>
    BY <1>2
  <2>2. [i \in DOMAIN xs |-> GroupsOf(xs[i])] = <<>>
    BY <2>1
  <2>3. FlattenSeq(<<>>) = <<>>
    BY DEF FlattenSeq
  <2> QED BY <2>1, <2>2, <2>3 DEF GroupsIn
<1>3. CASE Len(g) # 0
  <2>1. PICK j \in 0 .. Len(g) - 1 : j + 1 = Len(g)
    <3>1. Len(g) - 1 \in 0 .. Len(g) - 1 /\ Len(g) - 1 + 1 = Len(g)
      BY <1>1, <1>3
    <3> QED BY <3>1
  <2>2. SubSeq(g, 1, j) \in Seq(Int) /\ SubSeq(g, 1, j + 1) = SubSeq(g, 1, j) \o <<g[j + 1]>>
    BY FrontSnoc
  <2>3. SubSeq(g, 1, Len(g)) = g /\ g[j + 1] \in Int
    BY <2>1
  <2>4. PICK h \in Seq(Int) : h = SubSeq(g, 1, j)
    BY <2>2
  <2>5. Len(h) = j /\ (\A i \in 1 .. j : h[i] = g[i]) /\ j \in Nat
    BY <2>1, <2>4
  <2>6. PICK e \in Seq(Int) : e = <<g[j + 1]>>
    <3>1. <<g[j + 1]>> \in Seq(Int)
      BY <2>3
    <3> QED BY <3>1
  <2>7. GroupsIn(xs) = h \o e
    <3>1. Len(xs) = Len(h) + 1 /\ GroupsOf(xs[Len(xs)]) = e
      <4>1. j + 1 \in 1 .. Len(g) /\ Len(xs) = j + 1
        BY <2>1
      <4> QED BY <2>5, <2>6, <4>1
    <3>2. \A i \in 1 .. Len(h) : GroupsOf(xs[i]) = <<h[i]>>
      <4>1. \A i \in 1 .. j : i \in 1 .. Len(g)
        BY <2>1
      <4> QED BY <2>5, <4>1
    <3> QED BY <3>1, <3>2, FlattenLast
  <2> QED BY <2>1, <2>2, <2>3, <2>4, <2>6, <2>7
<1> QED BY <1>2, <1>3

\* The prefix of an IPv4 address that stands alone.
Lone(q) == IF q.result_dec # <<>> /\ q.result_hex = <<>> THEN <<Ones>> ELSE <<>>

\* It is what the reference puts in front.
LEMMA LoneIs ==
  ASSUME NEW q \in Checked, NEW all, ItemsRead(q, all)
  PROVE  (IF Len(all) = 1 /\ IsQuad(all[1]) THEN <<Ones>> ELSE <<>>) = Lone(q)
<1>1. /\ Len(all) \in Nat /\ (q.result_dec = <<>> => \A i \in DOMAIN all : ~ IsQuad(all[i]))
      /\ (q.result_dec # <<>> => Len(all) = Len(q.result_hex) + 1 /\ IsQuad(all[Len(all)]))
  BY ItemsFine
<1>2. all \in Seq(Seq(Int)) /\ q.result_hex \in Seq(Group)
  BY CheckedParts DEF ItemsRead
<1>3. CASE q.result_dec = <<>>
  <2>1. Len(all) = 1 => 1 \in DOMAIN all
    BY <1>2
  <2>2. ~ (Len(all) = 1 /\ IsQuad(all[1]))
    BY <1>1, <1>3, <2>1
  <2> QED BY <1>3, <2>2 DEF Lone
<1>4. CASE q.result_dec # <<>>
  <2>1. Len(all) = 1 <=> q.result_hex = <<>>
    <3>1. Len(q.result_hex) = 0 <=> q.result_hex = <<>>
      BY <1>2
    <3>2. PICK k \in Nat : k = Len(q.result_hex)
      BY <1>2
    <3>3. Len(all) = k + 1
      BY <1>1, <1>4, <3>2
    <3>4. Len(all) = 1 <=> k = 0
      BY <3>3
    <3> QED BY <3>1, <3>2, <3>4
  <2>2. Len(all) = 1 => IsQuad(all[1])
    BY <1>1, <1>4
  <2> QED BY <1>4, <2>1, <2>2 DEF Lone
<1> QED BY <1>3, <1>4

\* All groups of the automaton: the lone prefix, the numbers in front, the end.
LEMMA EndType ==
  ASSUME NEW q \in Checked, ~ Refused(q)
  PROVE  /\ End(q) \in Seq(Int) /\ q.result_hex \in Seq(Int) /\ Lone(q) \in Seq(Int)
         /\ Len(End(q)) = IF q.result_dec = <<>> THEN 1 ELSE 2
         /\ AllGroups(q) = Lone(q) \o (q.result_hex \o End(q))
<1>1. q.result_hex \in Seq(Group) /\ q \in Parsers /\ Group \subseteq Int /\ Ones \in Int
  BY CheckedParts, InOneWord DEF Group
<1>2. q.result_hex \in Seq(Int)
  BY <1>1, SeqOver
<1>3. Lone(q) \in Seq(Int)
  <2>1. <<Ones>> \in Seq(Int) /\ <<>> \in Seq(Int)
    BY <1>1
  <2> QED BY <2>1 DEF Lone
<1>4. PICK h \in Seq(Int) : h = q.result_hex
  BY <1>2
<1>5. CASE q.result_dec = <<>>
  <2>1. q.accum_hex \in Int /\ End(q) = <<q.accum_hex>> /\ Lone(q) = <<>> /\ AllGroups(q) = Append(h, q.accum_hex)
    BY <1>1, <1>4, <1>5 DEF Parsers, End, Lone, AllGroups
  <2>2. PICK c \in Int : c = q.accum_hex
    BY <2>1
  <2>3. <<c>> \in Seq(Int) /\ Len(<<c>>) = 1 /\ Append(h, c) = <<>> \o (h \o <<c>>)
    OBVIOUS
  <2> QED BY <1>2, <1>3, <1>4, <1>5, <2>1, <2>2, <2>3
<1>6. CASE q.result_dec # <<>>
  <2>1. PICK x, y : /\ x = Pair(q.result_dec[1], q.result_dec[2]) /\ y = Pair(q.result_dec[3], q.accum_dec)
    OBVIOUS
  <2>2. End(q) = <<x, y>> /\ AllGroups(q) = (IF h = <<>> THEN <<Ones>> ELSE h) \o <<x, y>>
    BY <1>4, <1>6, <2>1 DEF End, AllGroups
  <2>3. x \in Int /\ y \in Int
    <3>1. q.result_dec \in Seq(Byte) /\ Len(q.result_dec) = 3
      BY <1>1, <1>6 DEF Refused, Parsers
    <3>2. q.result_dec[1] \in Int /\ q.result_dec[2] \in Int /\ q.result_dec[3] \in Int /\ q.accum_dec \in Int
      BY <1>1, <3>1, WidthAssumption DEF Byte, Parsers
    <3> QED BY <2>1, <3>2, WidthAssumption DEF Pair
  <2>4. PICK e \in Seq(Int) : e = <<x, y>> /\ Len(e) = 2
    <3>1. <<x, y>> \in Seq(Int) /\ Len(<<x, y>>) = 2
      BY <2>3
    <3> QED BY <3>1
  <2>5. CASE h = <<>>
    <3>1. Lone(q) = <<Ones>>
      BY <1>4, <1>6, <2>5 DEF Lone
    <3>2. h \o e = e
      BY <2>5
    <3>3. AllGroups(q) = <<Ones>> \o e
      BY <2>2, <2>4, <2>5
    <3> QED BY <1>2, <1>3, <1>4, <1>6, <2>2, <2>4, <3>1, <3>2, <3>3
  <2>6. CASE h # <<>>
    <3>1. Lone(q) = <<>>
      BY <1>4, <2>6 DEF Lone
    <3>2. PICK g \in Seq(Int) : g = h \o e
      <4>1. h \o e \in Seq(Int)
        OBVIOUS
      <4> QED BY <4>1
    <3>3. <<>> \o g = g
      OBVIOUS
    <3>4. AllGroups(q) = h \o e
      BY <2>2, <2>4, <2>6
    <3> QED BY <1>2, <1>3, <1>4, <1>6, <2>2, <2>4, <3>1, <3>2, <3>3, <3>4
  <2> QED BY <2>5, <2>6
<1> QED BY <1>5, <1>6

\* A valid text has no more groups than an address.
LEMMA GroupsFit ==
  ASSUME NEW s, Valid(s), NEW q \in Checked, ~ Refused(q), NEW all, all = Before(s) \o Behind(s), ItemsRead(q, all)
  PROVE  Len(Lone(q)) + (Len(q.result_hex) + Len(End(q))) <= Groups
<1>1. /\ Len(all) \in Nat
      /\ (q.result_dec = <<>> => Weight(all) = Len(all) /\ \A i \in DOMAIN all : ~ IsQuad(all[i]))
      /\ (q.result_dec # <<>> => Weight(all) = Len(all) + 1 /\ Len(all) = Len(q.result_hex) + 1)
  BY ItemsFine
<1>2. Weight(all) <= Groups \/ (Len(all) = 1 /\ IsQuad(all[1]))
  <2>1. Weight(all) = Groups \/ Weight(all) < Groups \/ (Len(all) = 1 /\ IsQuad(all[1]))
    BY DEF Valid
  <2>2. Weight(all) \in Nat /\ Groups \in Nat
    <3>1. Len(all) + 1 \in Nat
      BY <1>1
    <3> QED BY <1>1, <3>1, WidthAssumption
  <2>3. PICK w \in Nat : w = Weight(all)
    BY <2>2
  <2>4. w = Groups \/ w < Groups => w <= Groups
    BY <2>2
  <2> QED BY <2>1, <2>3, <2>4
<1>3. Len(q.result_hex) \in Nat /\ Len(q.result_hex) < Groups /\ q.result_hex \in Seq(Group)
  BY CheckedParts
<1>4. Len(End(q)) = IF q.result_dec = <<>> THEN 1 ELSE 2
  BY EndType
<1>5. PICK n \in Nat : n = Len(q.result_hex) /\ n < Groups /\ (n = 0 <=> q.result_hex = <<>>)
  BY <1>3
<1>6. CASE q.result_dec = <<>>
  <2>1. Lone(q) = <<>> /\ Len(<<>>) = 0
    BY <1>6 DEF Lone
  <2>2. Len(Lone(q)) = 0 /\ Len(End(q)) = 1
    BY <1>4, <1>6, <2>1
  <2>3. 0 + (n + 1) <= Groups
    BY <1>5, WidthAssumption
  <2> QED BY <1>5, <2>2, <2>3
<1>7. CASE q.result_dec # <<>>
  <2>1. Len(End(q)) = 2 /\ Weight(all) = n + 1 + 1 /\ Len(all) = n + 1
    BY <1>1, <1>4, <1>5, <1>7
  <2>2. CASE n = 0
    <3>1. Lone(q) = <<Ones>> /\ Len(<<Ones>>) = 1
      BY <1>5, <1>7, <2>2 DEF Lone
    <3>2. Len(Lone(q)) = 1
      BY <3>1
    <3>3. 1 + (0 + 2) <= Groups
      BY WidthAssumption
    <3> QED BY <1>5, <2>1, <2>2, <3>2, <3>3
  <2>3. CASE n # 0
    <3>1. Lone(q) = <<>> /\ Len(<<>>) = 0
      BY <1>5, <2>3 DEF Lone
    <3>2. Len(Lone(q)) = 0
      BY <3>1
    <3>3. n + 1 # 1
      BY <2>3
    <3>4. n + 1 + 1 <= Groups
      BY <1>2, <2>1, <3>3
    <3>5. 0 + (n + 2) <= Groups
      BY <3>4, WidthAssumption
    <3> QED BY <1>5, <2>1, <3>2, <3>5
  <2> QED BY <2>2, <2>3
<1> QED BY <1>6, <1>7

\* What the items mean, put together.
Together(s, front, lone, back) ==
  Meaning(s) = IF First(s) = 0 THEN Zeros(Groups - Len(front \o lone \o back)) \o lone \o front
               ELSE front \o Zeros(Groups - Len(front \o lone \o back)) \o lone \o back
LEMMA MeaningIs ==
  ASSUME NEW s, NEW q \in Checked, NEW all, all = Before(s) \o Behind(s), ItemsRead(q, all),
         NEW front \in Seq(Int), NEW back \in Seq(Int), NEW lone \in Seq(Int),
         front = GroupsIn(Before(s)), back = GroupsIn(Behind(s)), lone = Lone(q)
  PROVE  Together(s, front, lone, back)
<1>1. (IF Len(all) = 1 /\ IsQuad(all[1]) THEN <<Ones>> ELSE <<>>) = lone
  BY LoneIs
<1> QED BY <1>1 DEF Together, Meaning, GroupsIn, Zeros

\* As many zeros as are missing.
LEMMA ZerosType == ASSUME NEW n \in Nat PROVE Zeros(n) \in Seq(Int) /\ Len(Zeros(n)) = n
<1>1. Zeros(n) \in Seq(Int)
  BY DEF Zeros
<1> QED BY <1>1 DEF Zeros

\* The zeros in front of all groups,
LEMMA ExpandNone ==
  ASSUME NEW l \in Seq(Int), NEW x \in Seq(Int), Len(l) + Len(x) <= Groups
  PROVE  Expand(l \o x, NoSeparator) = Zeros(Groups - Len(x \o l \o <<>>)) \o l \o x
<1>1. PICK a \in Seq(Int) : a = <<>> /\ Len(a) = 0
  <2>1. <<>> \in Seq(Int) /\ Len(<<>>) = 0
    OBVIOUS
  <2> QED BY <2>1
<1>2. PICK b \in Seq(Int) : b = l \o x /\ Len(b) = Len(l) + Len(x) /\ Len(l) \in Nat /\ Len(x) \in Nat
  BY JoinLen
<1>3. PICK m \in Nat : m = Groups - Len(b)
  BY <1>2, WidthAssumption
<1>4. Groups - Len(a) - Len(b) = m /\ Len(a) + Len(b) <= Groups
  BY <1>1, <1>2, <1>3, WidthAssumption
<1>5. Expand(a \o b, NoSeparator) = a \o Zeros(Groups - Len(a) - Len(b)) \o b
  BY <1>1, <1>4, ExpandCuts
<1>6. PICK z \in Seq(Int) : z = Zeros(m)
  BY ZerosType
<1>7. a \o b = b /\ a \o z = z
  BY <1>1
<1>8. Expand(b, NoSeparator) = z \o b
  BY <1>4, <1>5, <1>6, <1>7
<1>9. z \o b = z \o l \o x
  <2>1. Joined(z, l, x)
    BY Joins
  <2> QED BY <1>2, <2>1 DEF Joined
<1>10. Len(x \o l \o <<>>) = Len(b)
  <2>1. PICK y \in Seq(Int) : y = x \o l /\ Len(y) = Len(x) + Len(l)
    BY JoinLen
  <2>2. y \o <<>> = y
    OBVIOUS
  <2>3. Len(x) + Len(l) = Len(l) + Len(x)
    BY <1>2
  <2> QED BY <1>2, <2>1, <2>2, <2>3
<1> QED BY <1>2, <1>3, <1>6, <1>8, <1>9, <1>10

\* between those in front of the gap and those behind it,
Spread(a, l, x) == Expand(a \o (l \o x), Len(a)) = a \o Zeros(Groups - Len(a \o l \o x)) \o l \o x
LEMMA ExpandGap ==
  ASSUME NEW a \in Seq(Int), NEW l \in Seq(Int), NEW x \in Seq(Int), Len(a) + (Len(l) + Len(x)) <= Groups
  PROVE  Spread(a, l, x)
<1>1. Len(a) \in Nat /\ Len(l) \in Nat /\ Len(x) \in Nat
  BY JoinLen
<1>2. PICK b \in Seq(Int) : b = l \o x /\ Len(b) = Len(l) + Len(x) /\ Len(b) \in Nat
  BY JoinLen
<1>3. PICK m \in Nat : m = Groups - Len(a) - Len(b) /\ Len(a) + Len(b) <= Groups
  <2>1. PICK i \in Nat, j \in Nat : i = Len(a) /\ j = Len(b) /\ i + j <= Groups
    BY <1>1, <1>2
  <2>2. Groups - i - j \in Nat
    BY <2>1, WidthAssumption
  <2> QED BY <2>1, <2>2
<1>4. Expand(a \o b, Len(a)) = a \o Zeros(m) \o b
  BY <1>2, <1>3, ExpandCuts
<1>5. PICK z \in Seq(Int) : z = Zeros(m)
  BY ZerosType
<1>6. PICK y \in Seq(Int) : y = a \o z
  BY JoinLen
<1>7. y \o b = y \o l \o x
  <2>1. Joined(y, l, x)
    BY Joins
  <2> QED BY <1>2, <2>1 DEF Joined
<1>8. Groups - Len(a \o l \o x) = m
  <2>1. PICK v \in Seq(Int) : v = a \o l /\ Len(v) = Len(a) + Len(l)
    BY JoinLen
  <2>2. Len(v \o x) = Len(v) + Len(x)
    BY JoinLen
  <2>3. PICK i \in Nat, j \in Nat, k \in Nat : i = Len(a) /\ j = Len(l) /\ k = Len(x)
    BY <1>1
  <2>4. Groups - (i + j + k) = Groups - i - (j + k)
    BY WidthAssumption
  <2> QED BY <1>2, <1>3, <2>1, <2>2, <2>3, <2>4
<1> QED BY <1>2, <1>4, <1>5, <1>6, <1>7, <1>8 DEF Spread

\* and at the end, where the last number is one of them.
LEMMA ExpandEnd ==
  ASSUME NEW h \in Seq(Int), Len(h) < Groups
  PROVE  Expand(h \o <<0>>, Len(h)) = h \o Zeros(Groups - Len(h \o <<>> \o <<>>)) \o <<>> \o <<>>
<1>1. PICK b \in Seq(Int) : b = <<0>> /\ Len(b) = 1
  <2>1. <<0>> \in Seq(Int) /\ Len(<<0>>) = 1
    OBVIOUS
  <2> QED BY <2>1
<1>2. Len(h) \in Nat
  OBVIOUS
<1>3. PICK m \in Nat : m = Groups - Len(h) - Len(b) /\ m + 1 = Groups - Len(h) /\ Len(h) + Len(b) <= Groups
  <2>1. PICK i \in Nat : i = Len(h) /\ i < Groups
    BY <1>2
  <2>2. Groups - i - 1 \in Nat /\ Groups - i - 1 + 1 = Groups - i /\ i + 1 <= Groups
    BY <2>1, WidthAssumption
  <2> QED BY <1>1, <2>1, <2>2
<1>4. Expand(h \o b, Len(h)) = h \o Zeros(m) \o b
  BY <1>3, ExpandCuts
<1>5. PICK z \in Seq(Int), y \in Seq(Int) : z = Zeros(m) /\ y = Zeros(m + 1) /\ Len(z) = m
  BY ZerosType
<1>6. z \o b = y
  <2>1. z = [i \in 1 .. m |-> 0] /\ y = [i \in 1 .. m + 1 |-> 0]
    BY <1>5 DEF Zeros
  <2>2. PICK v \in Seq(Int) : v = z \o b /\ Len(v) = m + 1
    <3>1. z \o b \in Seq(Int) /\ Len(z \o b) = Len(z) + Len(b)
      BY JoinLen, Zenon
    <3> QED BY <1>1, <1>5, <3>1
  <2>3. ASSUME NEW i \in 1 .. m + 1 PROVE v[i] = 0
    <3>1. CASE i \in 1 .. m
      <4>1. v[i] = z[i]
        BY <1>5, <2>2, <3>1, ConcatAt
      <4>2. z[i] = 0
        BY <2>1, <3>1
      <4> QED BY <4>1, <4>2
    <3>2. CASE i = m + 1
      <4>1. 1 \in 1 .. Len(b) /\ b[1] = 0
        BY <1>1
      <4>2. \A k \in 1 .. Len(b) : (z \o b)[Len(z) + k] = b[k]
        BY ConcatAt
      <4>3. v[m + 1] = b[1]
        BY <1>5, <2>2, <4>1, <4>2
      <4> QED BY <3>2, <4>1, <4>3
    <3> QED BY <3>1, <3>2
  <2>4. v = [i \in 1 .. m + 1 |-> v[i]]
    <3>1. v = [i \in 1 .. Len(v) |-> v[i]]
      OBVIOUS
    <3> QED BY <2>2, <3>1
  <2>5. [i \in 1 .. m + 1 |-> v[i]] = [i \in 1 .. m + 1 |-> 0]
    BY <2>3
  <2> QED BY <2>1, <2>2, <2>4, <2>5
<1>7. h \o z \o b = h \o y
  <2>1. Joined(h, z, b)
    BY Joins
  <2> QED BY <1>6, <2>1 DEF Joined
<1>8. h \o <<>> = h
  OBVIOUS
<1>9. PICK v \in Seq(Int) : v = h \o y
  BY JoinLen
<1>10. v \o <<>> = v
  OBVIOUS
<1> QED BY <1>1, <1>3, <1>4, <1>5, <1>7, <1>8, <1>9, <1>10

\* No items give no groups.
LEMMA NoItems == GroupsIn(<<>>) = <<>>
<1>1. <<>> \in Seq(Int) /\ <<>> \in Seq(Seq(Int)) /\ Len(<<>>) = 0
  OBVIOUS
<1>2. PICK g \in Seq(Int), xs \in Seq(Seq(Int)) : g = <<>> /\ xs = <<>> /\ Len(g) = 0 /\ Len(xs) = 0
  BY <1>1
<1>3. \A i \in 1 .. Len(g) : GroupsOf(xs[i]) = <<g[i]>>
  BY <1>2
<1>4. GroupsIn(xs) = g
  BY <1>2, <1>3, FlattenPlain
<1> QED BY <1>2, <1>4

\* The groups of a sequence in two parts.
LEMMA Halves ==
  ASSUME NEW h \in Seq(Int), NEW m \in 0 .. Len(h)
  PROVE  \E a \in Seq(Int), r \in Seq(Int) :
           /\ h = a \o r /\ Len(a) = m /\ Len(r) = Len(h) - m
           /\ (\A i \in 1 .. m : a[i] = h[i]) /\ \A i \in 1 .. Len(h) - m : r[i] = h[m + i]
<1> DEFINE a == SubSeq(h, 1, m)
           r == [i \in 1 .. Len(h) - m |-> h[m + i]]
<1>1. Len(h) \in Nat /\ m \in Nat /\ Len(h) - m \in Nat
  <2>1. Len(h) \in Nat
    OBVIOUS
  <2> QED BY <2>1
<1>2. a \in Seq(Int) /\ Len(a) = m /\ \A i \in 1 .. m : a[i] = h[i]
  BY <1>1
<1>3. PICK n \in Nat : n = Len(h) - m
  BY <1>1
<1>4. r \in Seq(Int) /\ Len(r) = n /\ \A i \in 1 .. n : r[i] = h[m + i]
  <2>1. \A i \in 1 .. n : h[m + i] \in Int
    BY <1>1, <1>3
  <2>2. r \in [1 .. n -> Int]
    BY <1>3, <2>1
  <2>3. \A y \in [1 .. n -> Int] : y \in Seq(Int) /\ Len(y) = n
    OBVIOUS
  <2>4. \A i \in 1 .. n : r[i] = h[m + i]
    BY <1>3
  <2> HIDE DEF r
  <2> QED BY <2>2, <2>3, <2>4
<1> HIDE DEF a, r
<1>5. h = a \o r
  <2>1. PICK v \in Seq(Int) : v = a \o r /\ Len(v) = m + n
    <3>1. a \o r \in Seq(Int) /\ Len(a \o r) = Len(a) + Len(r)
      BY <1>2, <1>4, JoinLen, Zenon
    <3> QED BY <1>2, <1>4, <3>1
  <2>2. (\A k \in 1 .. Len(a) : v[k] = a[k]) /\ \A k \in 1 .. Len(r) : v[Len(a) + k] = r[k]
    <3>1. (\A k \in 1 .. Len(a) : (a \o r)[k] = a[k]) /\ \A k \in 1 .. Len(r) : (a \o r)[Len(a) + k] = r[k]
      BY <1>2, <1>4, ConcatAt, Zenon
    <3> QED BY <2>1, <3>1
  <2>3. m + n = Len(h)
    BY <1>1, <1>3
  <2>4. ASSUME NEW j \in 1 .. Len(h) PROVE v[j] = h[j]
    <3>1. CASE j <= m
      <4>1. j \in 1 .. m
        BY <1>1, <3>1
      <4> QED BY <1>2, <2>2, <4>1
    <3>2. CASE ~ (j <= m)
      <4>1. PICK k \in 1 .. n : j = m + k
        <5>1. j - m \in 1 .. n /\ j = m + (j - m)
          BY <1>1, <1>3, <3>2
        <5> QED BY <5>1
      <4>2. v[m + k] = r[k]
        BY <1>2, <1>4, <2>2
      <4> QED BY <1>4, <4>1, <4>2
    <3> QED BY <3>1, <3>2
  <2>5. h = [j \in 1 .. Len(h) |-> h[j]] /\ v = [j \in 1 .. Len(v) |-> v[j]]
    OBVIOUS
  <2> QED BY <2>1, <2>3, <2>4, <2>5
<1>6. Len(r) = Len(h) - m /\ \A i \in 1 .. Len(h) - m : r[i] = h[m + i]
  BY <1>3, <1>4
<1> QED BY <1>2, <1>4, <1>5, <1>6

\* The groups the automaton holds at the end of a valid text: h are those in
\* front of the last item, e the last item's, l what goes in front of a lone
\* IPv4 address.
Held(q, all, h, e, l) ==
  /\ h \in Seq(Int) /\ e \in Seq(Int) /\ l \in Seq(Int) /\ h = q.result_hex /\ e = End(q) /\ l = Lone(q)
  /\ AllGroups(q) = l \o (h \o e) /\ Len(l) + (Len(h) + Len(e)) <= Groups
  /\ (l = <<>> \/ h = <<>>)
  /\ \A i \in 1 .. Len(h) : GroupsOf(all[i]) = <<h[i]>>
  /\ Len(all) = Len(h) + 1 => GroupsOf(all[Len(all)]) = e

\* That is what it holds.
LEMMA ValidHeld ==
  ASSUME NEW s \in Seq(Int), Valid(s), NEW q, NEW gap \in BOOLEAN, NEW f, NEW t, Track(s, q, gap, f, t),
         NEW all, all = Before(s) \o Behind(s)
  PROVE  Held(q, all, q.result_hex, End(q), Lone(q))
<1>1. ~ Refused(q) /\ Gives(q, all) /\ ItemsRead(q, all) /\ q \in Checked
  BY ValidGives
<1>2. /\ End(q) \in Seq(Int) /\ q.result_hex \in Seq(Int) /\ Lone(q) \in Seq(Int)
      /\ AllGroups(q) = Lone(q) \o (q.result_hex \o End(q))
  BY <1>1, EndType
<1>3. Len(Lone(q)) + (Len(q.result_hex) + Len(End(q))) <= Groups
  BY <1>1, GroupsFit
<1>4. Lone(q) = <<>> \/ q.result_hex = <<>>
  BY DEF Lone
<1> QED BY <1>1, <1>2, <1>3, <1>4 DEF Held, Gives

\* No gap: the zeros are in front.
LEMMA ReadsPlain ==
  ASSUME NEW s \in Seq(Int), Valid(s), NEW q, NEW f, NEW t, Track(s, q, FALSE, f, t)
  PROVE  Expand(AllGroups(q), q.separator) = Meaning(s)
<1>1. PICK all : all = Before(s) \o Behind(s)
  OBVIOUS
<1>2. PICK h, e, l : Held(q, all, h, e, l)
  BY <1>1, ValidHeld
<1>3. ItemsRead(q, all) /\ q \in Checked /\ Listed(all, Items(f), Items(t))
  BY <1>1, ValidGives
<1>4. Cut(s, FALSE, f, t)
  BY TrackCut
<1>5. Holding(q, Items(f), SplitAt(t, Colon), FALSE) /\ t = s
  BY DEF Track, TextIs
<1>6. q.separator = NoSeparator /\ Items(f) = <<>> /\ Len(q.result_hex) = Len(Items(f)) + Len(SplitAt(t, Colon)) - 1
  BY <1>5 DEF Holding
<1>7. Items(t) = SplitAt(t, Colon)
  <2>1. s # <<>>
    BY DEF Valid
  <2> QED BY <1>5, <2>1 DEF Items
<1>8. First(s) = 0 /\ Before(s) = Items(t) /\ Behind(s) = <<>>
  BY <1>4 DEF Cut
<1>9. PICK xs \in Seq(Seq(Int)) : xs = Items(t) /\ Len(xs) \in Nat /\ all = xs
  <2>1. PICK S, xs : S = Seq(Int) /\ xs = Items(t)
    OBVIOUS
  <2>2. xs \in Seq(S) /\ Len(xs) \in Nat
    BY <1>3, <2>1 DEF Listed
  <2>3. xs \o <<>> = xs
    BY <2>2
  <2> QED BY <1>1, <1>8, <2>1, <2>2, <2>3
<1>10. h = q.result_hex /\ h \in Seq(Int) /\ e \in Seq(Int) /\ l \in Seq(Int) /\ l = Lone(q)
  BY <1>2 DEF Held
<1>11. Len(xs) = Len(h) + 1
  <2>1. PICK n \in Nat : n = Len(xs)
    BY <1>9
  <2>2. Len(h) = 0 + n - 1
    <3>1. Len(<<>>) = 0
      OBVIOUS
    <3> QED BY <1>6, <1>7, <1>9, <1>10, <2>1, <3>1
  <2>3. n = 0 + n - 1 + 1
    OBVIOUS
  <2> QED BY <2>1, <2>2, <2>3
<1>12. PICK x \in Seq(Int) : x = h \o e /\ Len(x) = Len(h) + Len(e)
  BY <1>10, JoinLen
<1>13. GroupsIn(xs) = x
  <2>1. (\A i \in 1 .. Len(h) : GroupsOf(xs[i]) = <<h[i]>>) /\ GroupsOf(xs[Len(xs)]) = e
    BY <1>2, <1>9, <1>11 DEF Held
  <2> QED BY <1>10, <1>11, <1>12, <2>1, FlattenLast
<1>14. <<>> \in Seq(Int) /\ GroupsIn(Behind(s)) = <<>>
  <2>1. <<>> \in Seq(Int)
    OBVIOUS
  <2> QED BY <1>8, <2>1, NoItems
<1>15. Meaning(s) = Zeros(Groups - Len(x \o l \o <<>>)) \o l \o x
  <2>1. GroupsIn(Before(s)) = x
    BY <1>8, <1>9, <1>13
  <2>2. Together(s, x, l, <<>>)
    BY <1>1, <1>3, <1>10, <1>14, <2>1, MeaningIs
  <2> QED BY <1>8, <2>2 DEF Together
<1>16. Expand(l \o x, NoSeparator) = Zeros(Groups - Len(x \o l \o <<>>)) \o l \o x
  <2>1. Len(l) + Len(x) <= Groups
    BY <1>2, <1>12 DEF Held
  <2> QED BY <1>10, <2>1, ExpandNone
<1> QED BY <1>2, <1>6, <1>12, <1>15, <1>16 DEF Held

\* A gap in front of other items.
LEMMA ReadsGap ==
  ASSUME NEW s \in Seq(Int), Valid(s), NEW q, NEW f, NEW t, Track(s, q, TRUE, f, t), t # <<>>
  PROVE  Expand(AllGroups(q), q.separator) = Meaning(s)
<1>1. PICK all : all = Before(s) \o Behind(s)
  OBVIOUS
<1>2. PICK h, e, l : Held(q, all, h, e, l)
  BY <1>1, ValidHeld
<1>3. ItemsRead(q, all) /\ q \in Checked /\ Listed(all, Items(f), Items(t))
  BY <1>1, ValidGives
<1>4. Cut(s, TRUE, f, t)
  BY TrackCut
<1>5. Holding(q, Items(f), SplitAt(t, Colon), TRUE)
  BY DEF Track
<1>6. PICK fs \in Seq(Seq(Int)), ts \in Seq(Seq(Int)) : fs = Items(f) /\ ts = Items(t)
  BY <1>3 DEF Listed
<1>7. /\ q.separator = Len(fs) /\ Len(q.result_hex) = Len(fs) + Len(ts) - 1
      /\ First(s) # 0 /\ Before(s) = fs /\ Behind(s) = ts
  BY <1>4, <1>5, <1>6 DEF Cut, Holding, Items
<1>8. h = q.result_hex /\ h \in Seq(Int) /\ e \in Seq(Int) /\ l \in Seq(Int) /\ l = Lone(q)
  BY <1>2 DEF Held
<1>9. PICK m \in Nat, n \in Nat : m = Len(fs) /\ n = Len(ts)
  BY <1>6
<1>10. PICK j \in Nat : j = Len(h) - m /\ n = j + 1 /\ Len(h) = m + j /\ m \in 0 .. Len(h) /\ Len(all) = Len(h) + 1
  <2>1. PICK i \in Nat : i = Len(h)
    BY <1>8
  <2>2. i = m + n - 1 /\ n # 0 /\ Len(all) = m + n
    <3>1. n # 0
      <4>1. ts # <<>>
        <5>1. SplitAt(t, Colon) # <<>>
          BY <1>5 DEF Holding
        <5> QED BY <1>6, <5>1 DEF Items
      <4>2. Len(ts) # 0
        BY <4>1
      <4> QED BY <1>9, <4>2
    <3>2. Len(all) = Len(fs) + Len(ts)
      BY <1>3, <1>6 DEF Listed
    <3> QED BY <1>7, <1>8, <1>9, <2>1, <3>1, <3>2
  <2>3. i - m \in Nat /\ n = (i - m) + 1 /\ i = m + (i - m) /\ m \in 0 .. i /\ m + n = i + 1
    BY <2>2
  <2> QED BY <2>1, <2>2, <2>3
<1>11. PICK a \in Seq(Int), r \in Seq(Int) :
         /\ h = a \o r /\ Len(a) = m /\ Len(r) = Len(h) - m
         /\ (\A i \in 1 .. m : a[i] = h[i]) /\ \A i \in 1 .. Len(h) - m : r[i] = h[m + i]
  BY <1>8, <1>10, Halves
<1>12. PICK x \in Seq(Int) : x = r \o e /\ Len(x) = Len(r) + Len(e)
  BY <1>8, JoinLen
<1>13. \A i \in 1 .. Len(h) : GroupsOf(all[i]) = <<h[i]>>
  BY <1>2 DEF Held
<1>14. (\A k \in 1 .. m : all[k] = fs[k]) /\ (\A k \in 1 .. n : all[m + k] = ts[k])
  BY <1>3, <1>6, <1>9 DEF Listed
<1>15. GroupsIn(fs) = a
  <2>1. ASSUME NEW i \in 1 .. Len(a) PROVE GroupsOf(fs[i]) = <<a[i]>>
    <3>1. i \in 1 .. m /\ i \in 1 .. Len(h)
      <4>1. i \in 1 .. m /\ \A k \in 1 .. m : k \in 1 .. m + j
        BY <1>11
      <4> QED BY <1>10, <4>1
    <3> QED BY <1>11, <1>13, <1>14, <3>1
  <2> QED BY <1>9, <1>11, <2>1, FlattenPlain
<1>16. GroupsIn(ts) = x
  <2>1. Len(r) = j /\ Len(ts) = j + 1
    BY <1>9, <1>10, <1>11
  <2>2. ASSUME NEW i \in 1 .. Len(r) PROVE GroupsOf(ts[i]) = <<r[i]>>
    <3>1. i \in 1 .. j /\ i \in 1 .. n /\ m + i \in 1 .. Len(h) /\ i \in 1 .. Len(h) - m
      BY <1>10, <2>1
    <3> QED BY <1>11, <1>13, <1>14, <3>1
  <2>3. GroupsOf(ts[Len(ts)]) = e
    <3>1. GroupsOf(all[Len(all)]) = e
      BY <1>2, <1>10 DEF Held
    <3>2. j + 1 \in 1 .. n /\ Len(all) = m + (j + 1)
      BY <1>10
    <3> QED BY <1>14, <2>1, <3>1, <3>2
  <2> QED BY <1>8, <1>12, <2>1, <2>2, <2>3, FlattenLast
<1>17. Meaning(s) = a \o Zeros(Groups - Len(a \o l \o x)) \o l \o x
  <2>1. GroupsIn(Before(s)) = a /\ GroupsIn(Behind(s)) = x
    BY <1>7, <1>15, <1>16
  <2>2. Together(s, a, l, x)
    BY <1>1, <1>3, <1>8, <2>1, MeaningIs
  <2> QED BY <1>7, <2>2 DEF Together
<1>18. Expand(a \o (l \o x), Len(a)) = a \o Zeros(Groups - Len(a \o l \o x)) \o l \o x
  <2>1. PICK i \in Nat, k \in Nat : i = Len(l) /\ k = Len(e)
    BY <1>8, JoinLen
  <2>2. i + ((m + j) + k) <= Groups
    BY <1>2, <1>10, <2>1 DEF Held
  <2>3. m + (i + (j + k)) <= Groups
    BY <2>2, WidthAssumption
  <2>4. Len(a) + (Len(l) + Len(x)) <= Groups
    BY <1>10, <1>11, <1>12, <2>1, <2>3
  <2>5. Spread(a, l, x)
    BY <1>8, <2>4, ExpandGap
  <2> QED BY <2>5 DEF Spread
<1>19. l \o (h \o e) = a \o (l \o x)
  <2>1. h \o e = a \o x
    <3>1. Joined(a, r, e)
      BY <1>8, Joins
    <3> QED BY <1>11, <1>12, <3>1 DEF Joined
  <2>2. CASE l = <<>>
    <3>1. PICK y \in Seq(Int) : y = a \o x
      BY JoinLen
    <3>2. <<>> \o y = y /\ <<>> \o x = x
      OBVIOUS
    <3> QED BY <2>1, <2>2, <3>1, <3>2
  <2>3. CASE h = <<>>
    <3>1. m = 0
      <4>1. Len(h) = 0
        BY <2>3
      <4> QED BY <1>10, <4>1
    <3>2. a = <<>>
      BY <1>11, <3>1
    <3>3. <<>> \o x = x
      OBVIOUS
    <3>4. PICK y \in Seq(Int) : y = l \o x
      BY <1>8, JoinLen
    <3>5. <<>> \o y = y
      OBVIOUS
    <3> QED BY <2>1, <3>2, <3>3, <3>4, <3>5
  <2> QED BY <1>2, <2>2, <2>3 DEF Held
<1> QED BY <1>2, <1>7, <1>9, <1>11, <1>17, <1>18, <1>19 DEF Held

\* A gap at the end.
LEMMA ReadsEnd ==
  ASSUME NEW s \in Seq(Int), Valid(s), NEW q, NEW f, NEW t, Track(s, q, TRUE, f, t), t = <<>>
  PROVE  Expand(AllGroups(q), q.separator) = Meaning(s)
<1>1. PICK all : all = Before(s) \o Behind(s)
  OBVIOUS
<1>2. PICK h, e, l : Held(q, all, h, e, l)
  BY <1>1, ValidHeld
<1>3. ItemsRead(q, all) /\ q \in Checked /\ Listed(all, Items(f), Items(t))
  BY <1>1, ValidGives
<1>4. Cut(s, TRUE, f, t)
  BY TrackCut
<1>5. Holding(q, Items(f), SplitAt(t, Colon), TRUE)
  BY DEF Track
<1>6. PICK fs \in Seq(Seq(Int)) : fs = Items(f) /\ Len(fs) \in Nat
  BY <1>3 DEF Listed
<1>7. SplitAt(t, Colon) = << <<>> >> /\ Items(t) = <<>>
  BY SplitSteps, Zenon DEF Items
<1>8. q.separator = Len(fs) /\ Len(q.result_hex) = Len(fs) + Len(SplitAt(t, Colon)) - 1
      /\ First(s) # 0 /\ Before(s) = fs /\ Behind(s) = <<>>
  BY <1>4, <1>5, <1>6, <1>7 DEF Cut, Holding
<1>9. h = q.result_hex /\ h \in Seq(Int) /\ e \in Seq(Int) /\ l \in Seq(Int) /\ l = Lone(q) /\ e = End(q)
  BY <1>2 DEF Held
<1>10. Len(h) = Len(fs) /\ Len(all) = Len(h)
  <2>1. Len(<< <<>> >>) = 1 /\ Len(<<>>) = 0
    OBVIOUS
  <2>2. PICK m \in Nat : m = Len(fs)
    BY <1>6
  <2>3. Len(h) = m + 1 - 1 /\ Len(all) = m + 0
    BY <1>3, <1>6, <1>7, <1>8, <1>9, <2>1, <2>2 DEF Listed
  <2> QED BY <2>2, <2>3
<1>11. q.result_dec = <<>> /\ q.accum_hex = 0
  BY <1>3, <1>9, <1>10 DEF ItemsRead
<1>12. e = <<0>> /\ l = <<>>
  BY <1>9, <1>11 DEF End, Lone
<1>13. GroupsIn(fs) = h
  <2>1. ASSUME NEW i \in 1 .. Len(h) PROVE GroupsOf(fs[i]) = <<h[i]>>
    <3>1. all[i] = fs[i]
      BY <1>3, <1>6, <1>10 DEF Listed
    <3> QED BY <1>2, <3>1 DEF Held
  <2> QED BY <1>9, <1>10, <2>1, FlattenPlain
<1>14. Meaning(s) = h \o Zeros(Groups - Len(h \o <<>> \o <<>>)) \o <<>> \o <<>>
  <2>1. <<>> \in Seq(Int)
    OBVIOUS
  <2>2. PICK y \in Seq(Int) : y = <<>> /\ GroupsIn(Behind(s)) = y
    BY <1>8, <2>1, NoItems
  <2>3. Meaning(s) = h \o Zeros(Groups - Len(h \o l \o y)) \o l \o y
    <3>1. GroupsIn(Before(s)) = h
      BY <1>8, <1>13
    <3>2. Together(s, h, l, y)
      BY <1>1, <1>3, <1>9, <2>2, <3>1, MeaningIs
    <3> QED BY <1>8, <3>2 DEF Together
  <2> QED BY <1>12, <2>2, <2>3
<1>15. Expand(h \o <<0>>, Len(h)) = h \o Zeros(Groups - Len(h \o <<>> \o <<>>)) \o <<>> \o <<>>
  <2>1. Len(h) < Groups
    BY <1>3, <1>9, CheckedParts
  <2> QED BY <1>9, <2>1, ExpandEnd
<1>16. AllGroups(q) = h \o <<0>>
  <2>1. PICK y \in Seq(Int) : y = h \o e
    BY <1>9, JoinLen
  <2>2. <<>> \o y = y
    OBVIOUS
  <2> QED BY <1>2, <1>12, <2>1, <2>2 DEF Held
<1> QED BY <1>8, <1>10, <1>14, <1>15, <1>16

\* A valid text the automaton has not refused gives what it means.
LEMMA ValidParsed ==
  ASSUME NEW s \in Seq(Int), Valid(s), NEW q, q = Parsed(s), q.state # "error"
  PROVE  Finish(q) = [ip |-> Meaning(s), success |-> TRUE]
<1>1. q \in Checked /\ q \in Parsers
  BY ParsedSteps, CheckedParts
<1>2. PICK gap, f, t, s0 : Tracked(s, q, gap, f, t, s0)
  BY EveryTextFollowed DEF Follows
<1>3. /\ s0 \in Seq(Int) /\ gap \in BOOLEAN /\ s = (IF q.pending THEN Append(s0, Colon) ELSE s0)
      /\ Track(s0, q, gap, f, t) /\ Settles(t) /\ q.pending \in BOOLEAN
  BY <1>1, <1>2 DEF Tracked, Parsers
<1>4. q.pending = FALSE
  <2> SUFFICES ASSUME q.pending = TRUE PROVE FALSE
    BY <1>3
  <2>1. s = Append(s0, Colon)
    BY <1>3
  <2>2. Joint(s0, gap, f, t) /\ t \in Seq(Int) /\ Colon \in Int
    BY <1>3, SignsAreInt, SeqOver DEF Track, TextIs, Joint
  <2>3. Joint(s, gap, f, Append(t, Colon))
    BY <1>3, <2>1, <2>2, JointOn
  <2>4. Cut(s, gap, f, Append(t, Colon))
    BY <1>3, <2>3, JointCut
  <2>5. Colon \in Digit
    BY <2>2, <2>4, ValidEnd
  <2> QED BY <2>5, BaseAssumption DEF Colon, Digit
<1>5. s = s0 /\ AtEnd(q) = q
  BY <1>3, <1>4 DEF AtEnd
<1>6. Track(s, q, gap, f, t)
  BY <1>3, <1>5
<1>7. ~ Refused(q)
  BY <1>3, <1>6, ValidGives
<1>8. Expand(AllGroups(q), q.separator) = Meaning(s)
  <2>1. CASE gap = FALSE
    BY <1>6, <2>1, ReadsPlain
  <2>2. CASE gap = TRUE /\ t # <<>>
    BY <1>6, <2>2, ReadsGap
  <2>3. CASE gap = TRUE /\ t = <<>>
    BY <1>6, <2>3, ReadsEnd
  <2> QED BY <1>3, <2>1, <2>2, <2>3
<1> QED BY <1>5, <1>7, <1>8 DEF Finish

\* The characters end at the first one that is refused.
StopsAtError == p.state = "error" => \E s \in Seq(Int), c \in Int : text = Append(s, c) /\ Parsed(s).state # "error"

LEMMA StopsInvariance == Spec => []StopsAtError
<1>1. Init => StopsAtError
  BY DEF Init, StopsAtError, NewParser
<1>2. TypeOK /\ TailInv /\ StopsAtError /\ [Next]_vars => StopsAtError'
  <2> SUFFICES ASSUME TypeOK, TailInv, StopsAtError, [Next]_vars PROVE StopsAtError'
    OBVIOUS
  <2>1. text \in Seq(Int) /\ p = Parsed(text)
    BY DEF TypeOK, TailInv
  <2>2. ASSUME UNCHANGED <<text, p>> PROVE StopsAtError'
    BY <2>2 DEF StopsAtError
  <2>3. ASSUME NEW c \in Digit \cup {Colon, Dot, Other}, ReadAddress(c) PROVE StopsAtError'
    <3>1. text' = Append(text, c) /\ p.state # "error"
      BY <2>3 DEF ReadAddress
    <3>2. c \in Int
      BY BaseAssumption DEF Digit, Colon, Dot, Other
    <3> QED BY <2>1, <3>1, <3>2 DEF StopsAtError
  <2>4. ASSUME NEW c \in {0, 1, Close, Colon, Other}, ReadTail(c) PROVE StopsAtError'
    BY <2>2, <2>4 DEF ReadTail
  <2>5. ASSUME NEW a, Construct(a) PROVE StopsAtError'
    BY <2>2, <2>5 DEF Construct
  <2>6. ASSUME UNCHANGED vars PROVE StopsAtError'
    BY <2>2, <2>6 DEF vars
  <2> QED BY <2>3, <2>4, <2>5, <2>6 DEF Next
<1> QED BY <1>1, <1>2, TailInvariance, PTL DEF Spec

\* For every base, width, number of groups and text of any length: a text of a
\* documented form (ip_address.h:333-354) is accepted and gives the address it
\* stands for, whatever the place of "::" and with or without a dotted end.
THEOREM Ip6ParsesHolds == Spec => []ParsesEveryForm
<1>1. TypeOK /\ TailInv /\ StopsAtError => ParsesEveryForm
  <2> SUFFICES ASSUME TypeOK, TailInv, StopsAtError, Valid(text)
               PROVE  Finish(p) = [ip |-> Meaning(text), success |-> TRUE]
    BY DEF ParsesEveryForm
  <2>1. text \in Seq(Int) /\ p = Parsed(text)
    BY DEF TypeOK, TailInv
  <2>2. CASE p.state # "error"
    BY <2>1, <2>2, ValidParsed
  <2>3. CASE p.state = "error"
    <3>1. PICK s \in Seq(Int), c \in Int : text = Append(s, c) /\ Parsed(s).state # "error"
      BY <2>3 DEF StopsAtError
    <3>2. Read(Parsed(s), c).state = "error"
      BY <2>1, <2>3, <3>1, ParsedSteps
    <3> QED BY <3>1, <3>2, ErrorInvalid
  <2> QED BY <2>2, <2>3
<1> QED BY <1>1, TailInvariance, StopsInvariance, PTL

=============================================================================
