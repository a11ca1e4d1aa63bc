-------------------------------- MODULE Texts --------------------------------
(***************************************************************************)
(* Texts as sequences of numbers: a character is the value of a digit or   *)
(* one of the negative marks below.                                        *)
(***************************************************************************)
EXTENDS Integers, Sequences, SequencesExt

Dot == -1
Colon == -2
Ex == -3        \* the x of 0x
Slash == -4
Open == -5      \* [
Close == -6     \* ]
Other == -7     \* any character none of the parsers knows

\* A number without leading zeros.
DigitsOf(n, base) ==
  LET d[k \in Nat] == IF k < base THEN <<k>> ELSE Append(d[k \div base], k % base)
  IN  d[n]

Value(digits, base) == FoldLeft(LAMBDA n, c : n * base + c, 0, digits)

\* The pieces of a text between the occurrences of a mark.
SplitAt(s, mark) ==
  FoldLeft(LAMBDA ps, c : IF c = mark THEN Append(ps, <<>>)
                          ELSE [ps EXCEPT ![Len(ps)] = Append(@, c)], << <<>> >>, s)

\* The run of digits that begins at position i of s.
DigitsFrom(s, i, base) ==
  LET stop == SelectInSubSeq(s, i, Len(s), LAMBDA c : c \notin 0 .. base - 1)
  IN  SubSeq(s, i, IF stop = 0 THEN Len(s) ELSE stop - 1)

=============================================================================
