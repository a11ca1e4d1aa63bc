------------------------------ MODULE IpPrefix ------------------------------
(***************************************************************************)
(* ip_prefix_t (include/ip_address.h): an address and a prefix length, as  *)
(* an object that constructors, from_str, set_bit and push_back_bit        *)
(* change.  An address is an array of bytes and a byte an array of bits,   *)
(* most significant bit first, so that bit k of the prefix is bit k % W of *)
(* byte k \div W, as in set_bit and get_bit.  W is 8 in the code and Bytes  *)
(* is 4 or 16; TLC takes smaller ones, the proofs leave them open.         *)
(***************************************************************************)
EXTENDS Integers

CONSTANTS
  W,              \* bits in a byte
  Bytes,          \* Ip_type: bytes in an address
  RawCanonical    \* raw prefixes come with zeros behind their last bit

ASSUME SizeAssumption == W \in Nat \ {0} /\ Bytes \in Nat \ {0}
ASSUME RawAssumption == RawCanonical \in BOOLEAN

max_length == W * Bytes
BitIndex == 0 .. max_length - 1
Lengths == 0 .. max_length

ByteValue == [0 .. W - 1 -> {0, 1}]
IPs == [0 .. Bytes - 1 -> ByteValue]

ZeroByte == [k \in 0 .. W - 1 |-> 0]
ZeroIP == [j \in 0 .. Bytes - 1 |-> ZeroByte]

Bit(a, k) == a[k \div W][k % W]

VARIABLES length, ip

vars == <<length, ip>>

-----------------------------------------------------------------------------
(* Operators of the class *)

\* byte & (0xFF << (8 - n)): the n most significant bits stay.
KeepTop(byte, n) == [k \in 0 .. W - 1 |-> IF k < n THEN byte[k] ELSE 0]

\* Mutant: the partial byte is kept whole.
mask_ip_WholeBytes(target, prefix_len) ==
  [j \in 0 .. Bytes - 1 |-> IF j < prefix_len \div W \/ (j = prefix_len \div W /\ prefix_len % W > 0)
                            THEN target[j] ELSE ZeroByte]

\* A partial byte is masked, the bytes behind it are set to zero.
mask_ip(target, prefix_len) ==
  LET full_bytes == prefix_len \div W
      remaining_bits == prefix_len % W
  IN  [j \in 0 .. Bytes - 1 |->
         IF j < full_bytes THEN target[j]
         ELSE IF j = full_bytes /\ remaining_bits > 0
                THEN KeepTop(target[j], remaining_bits)
         ELSE ZeroByte]

network(len, a) == mask_ip(a, len)

\* Mutant: the other address is compared with its host bits.
contains_Unmasked(len, a, other_ip) == other_ip = mask_ip(a, len)

\* contains (ip) of the prefix [len, a].
contains(len, a, other_ip) == mask_ip(other_ip, len) = mask_ip(a, len)

\* Mutant: a shorter prefix counts as contained.
contains_prefix_AnyLength(len, a, other_len, other_ip) == contains(len, a, other_ip)

\* contains (prefix): the other one is not shorter, and its address is inside.
contains_prefix(len, a, other_len, other_ip) ==
  other_len >= len /\ contains(len, a, other_ip)

\* Mutant: bits are numbered from the least significant one.
WithBit_LSBFirst(a, k, value) == [a EXCEPT ![k \div W][W - 1 - (k % W)] = value]

\* 0x80 >> bit_index set in, or cleared from, the byte.
WithBit(a, k, value) == [a EXCEPT ![k \div W][k % W] = value]

\* Mutant: a partial byte is not counted.
value_size_Floor(len) == len \div W

\* ceil (length / 8): the bytes of the value that a raw prefix carries.
value_size(len) == len \div W + (IF len % W > 0 THEN 1 ELSE 0)

\* The raw overlay of a prefix, and the address copied out of a raw overlay.
RawBytes(len, a) == [j \in 0 .. value_size(len) - 1 |-> a[j]]
CopyRaw(len, bytes) ==
  [j \in 0 .. Bytes - 1 |-> IF j < value_size(len) THEN bytes[j] ELSE ZeroByte]

-----------------------------------------------------------------------------
(* Constructors, parsing and bit operations *)

Init == length = 0 /\ ip = ZeroIP

\* ip_prefix_t (ip)
FromIp == length' = max_length /\ ip' \in IPs

\* ip_prefix_t (ip, length)
FromIpAndLength ==
  \E a \in IPs, len \in Lengths : length' = len /\ ip' = mask_ip(a, len)

\* from_str: "ip" is a host prefix, the address of "ip/length" is masked, and
\* text that does not parse, or a length above max_length, empties the prefix.
from_str ==
  \/ \E a \in IPs : length' = max_length /\ ip' = a
  \/ \E a \in IPs, accum \in Lengths : length' = accum /\ ip' = mask_ip(a, accum)
  \/ length' = 0 /\ ip' = ZeroIP

\* ip_prefix_t (raw): the bytes are copied as they are.
FromRaw ==
  \E a \in IPs, len \in Lengths :
    /\ RawCanonical => a = mask_ip(a, len)
    /\ length' = len /\ ip' = CopyRaw(len, RawBytes(len, a))

set_bit ==
  /\ \E k \in BitIndex, value \in {0, 1} : k < length /\ ip' = WithBit(ip, k, value)
  /\ UNCHANGED length

\* Mutant: one bit more than the address has.
push_back_bit_TooLong ==
  /\ length <= max_length
  /\ length' = length + 1
  /\ UNCHANGED ip

\* push_back_bit, which operator<< applies to a copy.
push_back_bit ==
  /\ length < max_length
  /\ length' = length + 1
  /\ \E bit \in {0, 1} : ip' = WithBit(ip, length, bit)

Next == FromIp \/ FromIpAndLength \/ from_str \/ FromRaw \/ set_bit \/ push_back_bit

Spec == Init /\ [][Next]_vars

-----------------------------------------------------------------------------
(* Properties *)

TypeOK == length \in Lengths /\ ip \in IPs

\* The address of a prefix is a network address: every bit behind the length is
\* zero (ip_address.h:1003), after any sequence of operations.
HostBitsZero == \A k \in BitIndex : k >= length => Bit(ip, k) = 0

\* contains (ip) is agreement on the first `length' bits.
ContainsIsBitwise ==
  \A a \in IPs :
    contains(length, ip, a) <=> \A k \in BitIndex : k < length => Bit(a, k) = Bit(ip, k)

Canonical(q) == q.ip = mask_ip(q.ip, q.length)
Prefixes == [length : Lengths, ip : IPs]
Members(len, a) == {b \in IPs : contains(len, a, b)}

\* contains (prefix) is inclusion of the address sets, and == is equality of
\* them: two prefixes compare equal exactly when they are the same network.
PrefixesAreSets ==
  LET mine == Members(length, ip)
  IN  \A q \in {x \in Prefixes : Canonical(x)} :
        LET others == Members(q.length, q.ip)
        IN  /\ contains_prefix(length, ip, q.length, q.ip) <=> others \subseteq mine
            /\ (length = q.length /\ ip = q.ip) <=> others = mine

\* The two prefixes that operator<< makes of one split its addresses in two.
ChildrenPartition ==
  length < max_length =>
    LET zero == Members(length + 1, WithBit(ip, length, 0))
        one == Members(length + 1, WithBit(ip, length, 1))
    IN  zero \cap one = {} /\ zero \cup one = Members(length, ip)

\* A prefix written out as a raw overlay reads back as itself.
RawRoundTrip == CopyRaw(length, RawBytes(length, ip)) = ip

=============================================================================
