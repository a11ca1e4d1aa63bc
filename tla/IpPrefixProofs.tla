--------------------------- MODULE IpPrefixProofs ---------------------------
(***************************************************************************)
(* Theorems about IpPrefix for addresses of any number of bytes of any     *)
(* number of bits, IPv4 (4 bytes of 8) and IPv6 (16 bytes of 8) included.  *)
(***************************************************************************)
EXTENDS IpPrefix, TLAPS

\* A bit index splits into the number of its byte and its place in the byte.
LEMMA DivMod ==
  ASSUME NEW k \in Nat
  PROVE  /\ k \div W \in Nat /\ k % W \in 0 .. W - 1
         /\ k = W * (k \div W) + (k % W)
<1>1. W \in Nat /\ W > 0
  BY SizeAssumption
<1>2. k % W \in 0 .. W - 1
  BY <1>1
<1>3. k \div W \in Nat
  BY <1>1
<1>4. k = W * (k \div W) + (k % W)
  BY <1>1
<1> QED BY <1>2, <1>3, <1>4

\* Order of two bit indices, from the bytes they fall into.
LEMMA ByteOrder ==
  ASSUME NEW k \in Nat, NEW n \in Nat
  PROVE  /\ k \div W < n \div W => k < n
         /\ k \div W = n \div W => (k < n <=> k % W < n % W)
<1> DEFINE a == k \div W
           b == n \div W
<1>1. a \in Nat /\ b \in Nat /\ k % W \in 0 .. W - 1 /\ n % W \in 0 .. W - 1
  BY DivMod
<1>2. k = W * a + (k % W) /\ n = W * b + (n % W)
  BY DivMod
<1>3. ASSUME a < b PROVE k < n
  <2>1. W * a + W <= W * b
    <3>1. W * (a + 1) <= W * b
      <4>1. a + 1 <= b /\ W \in Nat
        BY <1>1, <1>3, SizeAssumption
      <4> QED BY <4>1, <1>1
    <3>2. W * (a + 1) = W * a + W
      BY <1>1, SizeAssumption
    <3> QED BY <3>1, <3>2
  <2> QED BY <2>1, <1>1, <1>2, SizeAssumption
<1>4. ASSUME a = b PROVE k < n <=> k % W < n % W
  BY <1>1, <1>2, <1>4, SizeAssumption
<1> QED BY <1>3, <1>4

\* Every bit index of set_bit and get_bit falls into a byte of the address.
LEMMA BitInByte ==
  ASSUME NEW k \in BitIndex
  PROVE  k \in Nat /\ k \div W \in 0 .. Bytes - 1 /\ k % W \in 0 .. W - 1
<1>1. k \in Nat /\ k < W * Bytes
  BY SizeAssumption DEF BitIndex, max_length
<1>2. W * Bytes \in Nat /\ (W * Bytes) \div W = Bytes
  BY SizeAssumption
<1> QED BY <1>1, <1>2, DivMod, SizeAssumption

\* What mask_ip does to every single bit: the first prefix_len bits stay, the
\* others become zero, wherever prefix_len falls within a byte.
THEOREM MaskBit ==
  ASSUME NEW a \in IPs, NEW len \in Lengths, NEW k \in BitIndex
  PROVE  Bit(mask_ip(a, len), k) = IF k < len THEN Bit(a, k) ELSE 0
<1> DEFINE j == k \div W
           r == k % W
<1>1. len \in Nat /\ k \in Nat /\ j \in 0 .. Bytes - 1 /\ r \in 0 .. W - 1
  BY BitInByte, SizeAssumption DEF Lengths, max_length
<1>2. len \div W \in Nat /\ len % W \in 0 .. W - 1
  BY <1>1, DivMod
<1>3. /\ j < len \div W => k < len
      /\ len \div W < j => len < k
      /\ j = len \div W => (k < len <=> r < len % W)
  BY <1>1, ByteOrder
<1> HIDE DEF j, r
<1>4. Bit(mask_ip(a, len), k) = mask_ip(a, len)[j][r] /\ Bit(a, k) = a[j][r]
  BY DEF Bit, j, r
<1>5. CASE j < len \div W
  BY <1>1, <1>2, <1>3, <1>4, <1>5 DEF mask_ip
<1>6. CASE j = len \div W /\ len % W > 0
  BY <1>1, <1>2, <1>3, <1>4, <1>6 DEF mask_ip, KeepTop
<1>7. CASE j = len \div W /\ len % W = 0
  BY <1>1, <1>2, <1>3, <1>4, <1>7 DEF mask_ip, ZeroByte
<1>8. CASE len \div W < j
  BY <1>1, <1>2, <1>3, <1>4, <1>8 DEF mask_ip, ZeroByte
<1> QED BY <1>1, <1>2, <1>5, <1>6, <1>7, <1>8

\* mask_ip returns an address.
LEMMA MaskType ==
  ASSUME NEW a \in IPs, NEW len \in Lengths
  PROVE  mask_ip(a, len) \in IPs
BY DEF mask_ip, IPs, ByteValue, KeepTop, ZeroByte

\* Setting bit k, as set_bit and push_back_bit do, changes that bit alone.
LEMMA WithBitBits ==
  ASSUME NEW a \in IPs, NEW k \in BitIndex, NEW v \in {0, 1}
  PROVE  /\ WithBit(a, k, v) \in IPs
         /\ \A m \in BitIndex : Bit(WithBit(a, k, v), m) = IF m = k THEN v ELSE Bit(a, m)
<1>1. k \div W \in 0 .. Bytes - 1 /\ k % W \in 0 .. W - 1
  BY BitInByte
<1>2. WithBit(a, k, v) \in IPs
  BY <1>1 DEF WithBit, IPs, ByteValue
<1>3. ASSUME NEW m \in BitIndex
      PROVE  Bit(WithBit(a, k, v), m) = IF m = k THEN v ELSE Bit(a, m)
  <2>1. m \div W \in 0 .. Bytes - 1 /\ m % W \in 0 .. W - 1
    BY BitInByte
  <2>2. (m \div W = k \div W /\ m % W = k % W) => m = k
    <3>1. m \in Nat /\ k \in Nat
      BY BitInByte
    <3>2. m = W * (m \div W) + (m % W) /\ k = W * (k \div W) + (k % W)
      BY <3>1, DivMod
    <3> QED BY <3>2
  <2> QED BY <1>1, <2>1, <2>2 DEF WithBit, Bit, IPs, ByteValue
<1> QED BY <1>2, <1>3

-----------------------------------------------------------------------------
(* The class invariant *)

ProvedInv == TypeOK /\ HostBitsZero

\* max_length is a number, and both 0 and max_length are prefix lengths.
LEMMA LengthsAreNat == max_length \in Nat /\ 0 \in Lengths /\ max_length \in Lengths
BY SizeAssumption DEF max_length, Lengths

\* The default address has no bit set.
LEMMA ZeroIPBits == ZeroIP \in IPs /\ \A k \in BitIndex : Bit(ZeroIP, k) = 0
BY BitInByte DEF ZeroIP, ZeroByte, IPs, ByteValue, Bit

\* What apply_mask leaves has no bit set behind the length.
LEMMA MaskedHostBits ==
  ASSUME NEW a \in IPs, NEW len \in Lengths, NEW k \in BitIndex, k >= len
  PROVE  Bit(mask_ip(a, len), k) = 0
<1>1. len \in Nat /\ k \in Nat
  BY BitInByte, LengthsAreNat DEF Lengths
<1> QED BY <1>1, MaskBit

\* The raw constructor copies every bit of the overlay as it is or leaves a zero.
LEMMA RawCopyBits ==
  ASSUME NEW a \in IPs, NEW len \in Lengths
  PROVE  /\ CopyRaw(len, RawBytes(len, a)) \in IPs
         /\ \A k \in BitIndex : Bit(CopyRaw(len, RawBytes(len, a)), k) \in {0, Bit(a, k)}
<1>1. value_size(len) \in Nat
  BY DivMod, LengthsAreNat DEF value_size, Lengths
<1>2. \A j \in 0 .. Bytes - 1 :
        CopyRaw(len, RawBytes(len, a))[j] = IF j < value_size(len) THEN a[j] ELSE ZeroByte
  BY <1>1 DEF CopyRaw, RawBytes
<1>3. CopyRaw(len, RawBytes(len, a)) \in IPs
  BY <1>1, <1>2 DEF CopyRaw, IPs, ByteValue, ZeroByte
<1>4. ASSUME NEW k \in BitIndex
      PROVE  Bit(CopyRaw(len, RawBytes(len, a)), k) \in {0, Bit(a, k)}
  BY <1>2, BitInByte DEF Bit, ZeroByte
<1> QED BY <1>3, <1>4

\* The default constructor establishes the invariant.
LEMMA PrefixInit == Init => ProvedInv
BY ZeroIPBits, LengthsAreNat DEF Init, ProvedInv, TypeOK, HostBitsZero

\* Every constructor and operation of the prefix preserves the invariant.
LEMMA PrefixNext ==
  ASSUME RawCanonical, ProvedInv, [Next]_vars
  PROVE  ProvedInv'
<1>0. length \in Lengths /\ length \in Nat /\ ip \in IPs /\ BitIndex \subseteq Nat
  BY LengthsAreNat DEF ProvedInv, TypeOK, Lengths, BitIndex
<1>1. CASE FromIp
  BY <1>1, LengthsAreNat DEF FromIp, ProvedInv, TypeOK, HostBitsZero, BitIndex
<1>2. CASE FromIpAndLength
  BY <1>2, MaskType, MaskedHostBits DEF FromIpAndLength, ProvedInv, TypeOK, HostBitsZero
<1>3. CASE from_str
  <2>1. ASSUME NEW a \in IPs, length' = max_length, ip' = a PROVE ProvedInv'
    BY <2>1, LengthsAreNat DEF ProvedInv, TypeOK, HostBitsZero, BitIndex
  <2>2. ASSUME NEW a \in IPs, NEW n \in Lengths, length' = n, ip' = mask_ip(a, n)
        PROVE  ProvedInv'
    BY <2>2, MaskType, MaskedHostBits DEF ProvedInv, TypeOK, HostBitsZero
  <2>3. CASE length' = 0 /\ ip' = ZeroIP
    BY <2>3, ZeroIPBits, LengthsAreNat DEF ProvedInv, TypeOK, HostBitsZero
  <2> QED BY <1>3, <2>1, <2>2, <2>3 DEF from_str
<1>4. CASE FromRaw
  <2>1. PICK a \in IPs, len \in Lengths :
          /\ a = mask_ip(a, len)
          /\ length' = len /\ ip' = CopyRaw(len, RawBytes(len, a))
    BY <1>4 DEF FromRaw
  <2>2. \A k \in BitIndex : k >= len => Bit(a, k) = 0
    BY <2>1, MaskedHostBits
  <2> QED BY <2>1, <2>2, RawCopyBits DEF ProvedInv, TypeOK, HostBitsZero
<1>5. CASE set_bit
  <2>1. PICK k \in BitIndex, v \in {0, 1} : k < length /\ ip' = WithBit(ip, k, v)
    BY <1>5 DEF set_bit
  <2>2. length' = length
    BY <1>5 DEF set_bit
  <2> QED BY <1>0, <2>1, <2>2, WithBitBits DEF ProvedInv, TypeOK, HostBitsZero
<1>6. CASE push_back_bit
  <2>1. PICK v \in {0, 1} : ip' = WithBit(ip, length, v)
    BY <1>6 DEF push_back_bit
  <2>2. length \in BitIndex /\ length' = length + 1 /\ length' \in Lengths
    BY <1>0, <1>6, LengthsAreNat DEF push_back_bit, BitIndex, Lengths
  <2> QED BY <1>0, <2>1, <2>2, WithBitBits DEF ProvedInv, TypeOK, HostBitsZero
<1>7. CASE UNCHANGED vars
  BY <1>7 DEF vars, ProvedInv, TypeOK, HostBitsZero
<1> QED BY <1>1, <1>2, <1>3, <1>4, <1>5, <1>6, <1>7 DEF Next

\* For every address size, as long as raw prefixes are canonical: no sequence of
\* constructors, parsing, set_bit and push_back_bit leaves a host bit set.
THEOREM HostBitsZeroHolds ==
  ASSUME RawCanonical
  PROVE  Spec => []HostBitsZero
<1>1. ProvedInv /\ [Next]_vars => ProvedInv'
  BY PrefixNext
<1>2. ProvedInv => HostBitsZero
  BY DEF ProvedInv
<1> QED BY PrefixInit, <1>1, <1>2, PTL DEF Spec

-----------------------------------------------------------------------------
(* contains *)

\* Bit k of byte j is bit j * W + k of the address.
LEMMA BitOfByte ==
  ASSUME NEW j \in 0 .. Bytes - 1, NEW r \in 0 .. W - 1
  PROVE  W * j + r \in BitIndex /\ (W * j + r) \div W = j /\ (W * j + r) % W = r
<1>1. W \in Nat /\ W > 0 /\ Bytes \in Nat /\ j \in Nat /\ r \in Nat /\ r < W /\ j + 1 <= Bytes
  BY SizeAssumption
<1>2. W * j \in Nat /\ W * (j + 1) = W * j + W /\ W * (j + 1) <= W * Bytes
  BY <1>1
<1>3. W * j + r \in BitIndex
  BY <1>1, <1>2 DEF BitIndex, max_length
<1>4. (W * j + r) \div W = j
  BY <1>1, <1>2
<1>5. (W * j + r) % W = r
  BY <1>1, <1>2
<1> QED BY <1>3, <1>4, <1>5

\* Two addresses with the same bits are equal, so that operator== of two masked
\* addresses compares bits.
LEMMA EqualBits ==
  ASSUME NEW a \in IPs, NEW b \in IPs, \A k \in BitIndex : Bit(a, k) = Bit(b, k)
  PROVE  a = b
<1>1. \A j \in 0 .. Bytes - 1, r \in 0 .. W - 1 : a[j][r] = b[j][r]
  BY BitOfByte DEF Bit
<1>2. ASSUME NEW j \in 0 .. Bytes - 1 PROVE a[j] = b[j]
  <2>1. a[j] \in ByteValue /\ b[j] \in ByteValue
    BY DEF IPs
  <2>2. /\ a[j] = [r \in 0 .. W - 1 |-> a[j][r]]
        /\ b[j] = [r \in 0 .. W - 1 |-> b[j][r]]
    BY <2>1 DEF ByteValue
  <2>3. [r \in 0 .. W - 1 |-> a[j][r]] = [r \in 0 .. W - 1 |-> b[j][r]]
    BY <1>1
  <2> QED BY <2>2, <2>3
<1>3. /\ a = [j \in 0 .. Bytes - 1 |-> a[j]]
      /\ b = [j \in 0 .. Bytes - 1 |-> b[j]]
  BY DEF IPs
<1>4. [j \in 0 .. Bytes - 1 |-> a[j]] = [j \in 0 .. Bytes - 1 |-> b[j]]
  BY <1>2
<1> QED BY <1>3, <1>4

\* contains (ip) of any prefix compares exactly its first len bits.
LEMMA ContainsBits ==
  ASSUME NEW len \in Lengths, NEW a \in IPs, NEW b \in IPs
  PROVE  contains(len, a, b) <=> \A k \in BitIndex : k < len => Bit(b, k) = Bit(a, k)
<1>1. ASSUME contains(len, a, b), NEW k \in BitIndex, k < len
      PROVE  Bit(b, k) = Bit(a, k)
  <2>1. Bit(mask_ip(b, len), k) = Bit(mask_ip(a, len), k)
    BY <1>1 DEF contains
  <2> QED BY <1>1, <2>1, MaskBit
<1>2. ASSUME \A k \in BitIndex : k < len => Bit(b, k) = Bit(a, k)
      PROVE  contains(len, a, b)
  <2>1. \A k \in BitIndex : Bit(mask_ip(b, len), k) = Bit(mask_ip(a, len), k)
    BY <1>2, MaskBit
  <2>2. mask_ip(b, len) \in IPs /\ mask_ip(a, len) \in IPs
    BY MaskType
  <2> QED BY <2>1, <2>2, EqualBits DEF contains
<1> QED BY <1>1, <1>2

\* The invariant of the class holds throughout.
LEMMA PrefixInvariance ==
  ASSUME RawCanonical
  PROVE  Spec => []ProvedInv
<1>1. ProvedInv /\ [Next]_vars => ProvedInv'
  BY PrefixNext
<1> QED BY PrefixInit, <1>1, PTL DEF Spec

\* For every address size: contains (ip) compares exactly the first `length'
\* bits of the two addresses.
THEOREM ContainsIsBitwiseHolds ==
  ASSUME RawCanonical
  PROVE  Spec => []ContainsIsBitwise
<1>1. ProvedInv => ContainsIsBitwise
  BY ContainsBits DEF ProvedInv, TypeOK, ContainsIsBitwise
<1> QED BY <1>1, PrefixInvariance, PTL

-----------------------------------------------------------------------------
(* Prefixes as sets of addresses *)

\* A bit is 0 or 1.
LEMMA BitType == ASSUME NEW a \in IPs, NEW k \in BitIndex PROVE Bit(a, k) \in {0, 1}
BY BitInByte DEF Bit, IPs, ByteValue

\* Membership, bit by bit.
LEMMA MemberBits ==
  ASSUME NEW len \in Lengths, NEW a \in IPs, NEW b \in IPs
  PROVE  b \in Members(len, a) <=> \A k \in BitIndex : k < len => Bit(b, k) = Bit(a, k)
BY ContainsBits DEF Members

\* contains (prefix) of any two prefixes is inclusion of their address sets: a
\* prefix that is too short has, besides its own address, the one that differs
\* in the first bit it leaves open.
LEMMA ContainsIsInclusion ==
  ASSUME NEW n \in Lengths, NEW a \in IPs, NEW m \in Lengths, NEW b \in IPs
  PROVE  contains_prefix(n, a, m, b) <=> Members(m, b) \subseteq Members(n, a)
<1>0. n \in Nat /\ m \in Nat /\ BitIndex \subseteq Nat
  BY LengthsAreNat DEF Lengths, BitIndex
<1>1. ASSUME contains_prefix(n, a, m, b) PROVE Members(m, b) \subseteq Members(n, a)
  <2>1. m >= n /\ \A k \in BitIndex : k < n => Bit(b, k) = Bit(a, k)
    BY <1>1, ContainsBits DEF contains_prefix
  <2> SUFFICES ASSUME NEW x \in Members(m, b) PROVE x \in Members(n, a)
    OBVIOUS
  <2>2. x \in IPs
    BY DEF Members
  <2>3. \A k \in BitIndex : k < m => Bit(x, k) = Bit(b, k)
    BY <2>2, MemberBits
  <2>4. \A k \in BitIndex : k < n => Bit(x, k) = Bit(a, k)
    BY <1>0, <2>1, <2>3
  <2> QED BY <2>2, <2>4, MemberBits
<1>2. ASSUME Members(m, b) \subseteq Members(n, a) PROVE contains_prefix(n, a, m, b)
  <2>1. b \in Members(m, b)
    BY MemberBits
  <2>2. contains(n, a, b)
    BY <1>2, <2>1 DEF Members
  <2>3. m >= n
    <3> SUFFICES ASSUME m < n PROVE FALSE
      BY <1>0
    <3>1. m \in BitIndex
      BY <1>0, LengthsAreNat DEF BitIndex, Lengths
    <3> DEFINE x == WithBit(b, m, 1 - Bit(b, m))
    <3>2. Bit(b, m) \in {0, 1}
      BY <3>1, BitType
    <3>3. 1 - Bit(b, m) \in {0, 1} /\ 1 - Bit(b, m) # Bit(b, m)
      BY <3>2
    <3>4. x \in IPs /\ \A k \in BitIndex : Bit(x, k) = IF k = m THEN 1 - Bit(b, m) ELSE Bit(b, k)
      BY <3>1, <3>3, WithBitBits
    <3> HIDE DEF x
    <3>5. x \in Members(m, b)
      <4>1. \A k \in BitIndex : k < m => Bit(x, k) = Bit(b, k)
        BY <1>0, <3>4
      <4> QED BY <3>4, <4>1, MemberBits
    <3>6. Bit(x, m) = Bit(a, m) /\ Bit(b, m) = Bit(a, m)
      BY <1>2, <2>1, <3>1, <3>4, <3>5, MemberBits
    <3> QED BY <3>1, <3>3, <3>4, <3>6
  <2> QED BY <2>2, <2>3 DEF contains_prefix
<1> QED BY <1>1, <1>2

\* For every address size: contains (prefix) is inclusion of address sets, and
\* operator== holds exactly for prefixes with the same addresses, which needs
\* the host bits to be zero on both sides.
THEOREM PrefixesAreSetsHolds ==
  ASSUME RawCanonical
  PROVE  Spec => []PrefixesAreSets
<1>1. ProvedInv => PrefixesAreSets
  <2> SUFFICES ASSUME ProvedInv, NEW q \in Prefixes, Canonical(q)
               PROVE  /\ contains_prefix(length, ip, q.length, q.ip)
                           <=> Members(q.length, q.ip) \subseteq Members(length, ip)
                      /\ (length = q.length /\ ip = q.ip)
                           <=> Members(q.length, q.ip) = Members(length, ip)
    BY DEF PrefixesAreSets
  <2>1. /\ length \in Lengths /\ ip \in IPs /\ q.length \in Lengths /\ q.ip \in IPs
        /\ length \in Nat /\ q.length \in Nat /\ BitIndex \subseteq Nat
    BY LengthsAreNat DEF ProvedInv, TypeOK, Prefixes, Lengths, BitIndex
  <2>2. contains_prefix(length, ip, q.length, q.ip)
          <=> Members(q.length, q.ip) \subseteq Members(length, ip)
    BY <2>1, ContainsIsInclusion
  <2>3. ASSUME Members(q.length, q.ip) = Members(length, ip)
        PROVE  length = q.length /\ ip = q.ip
    <3>1. /\ contains_prefix(length, ip, q.length, q.ip)
          /\ contains_prefix(q.length, q.ip, length, ip)
      BY <2>1, <2>3, ContainsIsInclusion
    <3>2. length = q.length
      BY <2>1, <3>1 DEF contains_prefix
    <3>3. \A k \in BitIndex : k < length => Bit(q.ip, k) = Bit(ip, k)
      BY <2>1, <3>1, ContainsBits DEF contains_prefix
    <3>4. \A k \in BitIndex : k >= length => Bit(ip, k) = 0
      BY DEF ProvedInv, HostBitsZero
    <3>5. \A k \in BitIndex : k >= length => Bit(q.ip, k) = 0
      BY <2>1, <3>2, MaskedHostBits DEF Canonical
    <3>6. \A k \in BitIndex : Bit(ip, k) = Bit(q.ip, k)
      BY <2>1, <3>3, <3>4, <3>5
    <3> QED BY <2>1, <3>2, <3>6, EqualBits
  <2> QED BY <2>2, <2>3
<1> QED BY <1>1, PrefixInvariance, PTL

\* For every address size: the two prefixes that operator<< makes of a prefix
\* have no address in common and all of its addresses together.
THEOREM ChildrenPartitionHolds ==
  ASSUME RawCanonical
  PROVE  Spec => []ChildrenPartition
<1>1. ProvedInv => ChildrenPartition
  <2> DEFINE child(v) == Members(length + 1, WithBit(ip, length, v))
  <2> SUFFICES ASSUME ProvedInv, length < max_length
               PROVE  child(0) \cap child(1) = {} /\ child(0) \cup child(1) = Members(length, ip)
    BY DEF ChildrenPartition
  <2>1. /\ length \in Lengths /\ ip \in IPs /\ length \in Nat /\ BitIndex \subseteq Nat
        /\ length \in BitIndex /\ length + 1 \in Lengths
    BY LengthsAreNat DEF ProvedInv, TypeOK, Lengths, BitIndex
  <2>2. ASSUME NEW v \in {0, 1}, NEW x \in IPs
        PROVE  x \in child(v) <=> x \in Members(length, ip) /\ Bit(x, length) = v
    <3>1. /\ WithBit(ip, length, v) \in IPs
          /\ \A k \in BitIndex : Bit(WithBit(ip, length, v), k) = IF k = length THEN v ELSE Bit(ip, k)
      BY <2>1, WithBitBits
    <3>2. x \in child(v) <=>
            \A k \in BitIndex : k < length + 1 => Bit(x, k) = Bit(WithBit(ip, length, v), k)
      BY <2>1, <3>1, MemberBits
    <3>3. x \in Members(length, ip) <=> \A k \in BitIndex : k < length => Bit(x, k) = Bit(ip, k)
      BY <2>1, MemberBits
    <3>4. \A k \in BitIndex : k < length + 1 <=> (k < length \/ k = length)
      BY <2>1
    <3>5. length \in BitIndex /\ ~ (length < length)
      BY <2>1
    <3> HIDE DEF child
    <3> QED BY <3>1, <3>2, <3>3, <3>4, <3>5
  <2>3. child(0) \subseteq IPs /\ child(1) \subseteq IPs /\ Members(length, ip) \subseteq IPs
    BY DEF Members
  <2>4. \A x \in IPs : Bit(x, length) \in {0, 1}
    BY <2>1, BitType
  <2> HIDE DEF child
  <2> QED BY <2>2, <2>3, <2>4
<1> QED BY <1>1, PrefixInvariance, PTL

-----------------------------------------------------------------------------
(* The raw overlay *)

\* The bytes that a raw prefix carries hold all the bits of the prefix.
LEMMA BehindRaw ==
  ASSUME NEW len \in Lengths, NEW k \in BitIndex, ~ (k \div W < value_size(len))
  PROVE  k >= len
<1>1. len \in Nat /\ k \in Nat
  BY BitInByte, LengthsAreNat DEF Lengths
<1>2. /\ len \div W \in Nat /\ k \div W \in Nat
      /\ len % W \in 0 .. W - 1 /\ k % W \in 0 .. W - 1
  BY <1>1, DivMod
<1>3. /\ len \div W < k \div W => len < k
      /\ k \div W = len \div W => (k < len <=> k % W < len % W)
  BY <1>1, ByteOrder
<1>4. CASE len % W > 0
  <2>1. value_size(len) = len \div W + 1
    BY <1>4 DEF value_size
  <2> QED BY <1>1, <1>2, <1>3, <2>1
<1>5. CASE len % W = 0
  <2>1. value_size(len) = len \div W
    BY <1>2, <1>5 DEF value_size
  <2>2. k \div W = len \div W => ~ (k < len)
    BY <1>2, <1>3, <1>5, SizeAssumption
  <2> QED BY <1>1, <1>2, <1>3, <2>1, <2>2
<1> QED BY <1>2, <1>4, <1>5, SizeAssumption

\* For every address size: a prefix written out as a raw overlay of
\* value_size() bytes reads back as itself.
THEOREM RawRoundTripHolds ==
  ASSUME RawCanonical
  PROVE  Spec => []RawRoundTrip
<1>1. ProvedInv => RawRoundTrip
  <2> SUFFICES ASSUME ProvedInv PROVE CopyRaw(length, RawBytes(length, ip)) = ip
    BY DEF RawRoundTrip
  <2> DEFINE copy == CopyRaw(length, RawBytes(length, ip))
  <2>1. length \in Lengths /\ ip \in IPs /\ copy \in IPs
    BY RawCopyBits DEF ProvedInv, TypeOK
  <2>2. value_size(length) \in Nat
    BY <2>1, DivMod, LengthsAreNat DEF value_size, Lengths
  <2>3. \A j \in 0 .. Bytes - 1 :
          copy[j] = IF j < value_size(length) THEN ip[j] ELSE ZeroByte
    BY <2>2 DEF CopyRaw, RawBytes
  <2> HIDE DEF copy
  <2>4. ASSUME NEW k \in BitIndex PROVE Bit(copy, k) = Bit(ip, k)
    <3>1. k \div W \in 0 .. Bytes - 1 /\ k % W \in 0 .. W - 1
      BY BitInByte
    <3>2. CASE k \div W < value_size(length)
      BY <2>3, <3>1, <3>2 DEF Bit
    <3>3. CASE ~ (k \div W < value_size(length))
      <4>1. Bit(ip, k) = 0
        BY <2>1, <3>3, BehindRaw DEF ProvedInv, HostBitsZero
      <4>2. Bit(copy, k) = 0
        BY <2>3, <3>1, <3>3 DEF Bit, ZeroByte
      <4> QED BY <4>1, <4>2
    <3> QED BY <3>2, <3>3
  <2>5. copy = ip
    BY <2>1, <2>4, EqualBits
  <2> QED BY <2>5 DEF copy
<1> QED BY <1>1, PrefixInvariance, PTL

-----------------------------------------------------------------------------
(* Types, for raw prefixes of any content *)

\* Every operation keeps the length within 0 .. max_length and the address an
\* array of bytes, whatever a raw prefix has behind its last bit.
THEOREM PrefixTypeCorrect == Spec => []TypeOK
<1>1. Init => TypeOK
  BY ZeroIPBits, LengthsAreNat DEF Init, TypeOK
<1>2. ASSUME TypeOK, [Next]_vars PROVE TypeOK'
  <2>1. CASE FromIp
    BY <2>1, LengthsAreNat DEF FromIp, TypeOK
  <2>2. CASE FromIpAndLength
    BY <2>2, MaskType DEF FromIpAndLength, TypeOK
  <2>3. CASE from_str
    BY <2>3, MaskType, ZeroIPBits, LengthsAreNat DEF from_str, TypeOK
  <2>4. CASE FromRaw
    BY <2>4, RawCopyBits DEF FromRaw, TypeOK
  <2>5. CASE set_bit
    BY <1>2, <2>5, WithBitBits DEF set_bit, TypeOK
  <2>6. CASE push_back_bit
    <3>1. length \in BitIndex /\ length' \in Lengths
      BY <1>2, <2>6, LengthsAreNat DEF push_back_bit, TypeOK, BitIndex, Lengths
    <3> QED BY <1>2, <2>6, <3>1, WithBitBits DEF push_back_bit, TypeOK
  <2>7. CASE UNCHANGED vars
    BY <1>2, <2>7 DEF vars, TypeOK
  <2> QED BY <1>2, <2>1, <2>2, <2>3, <2>4, <2>5, <2>6, <2>7 DEF Next
<1> QED BY <1>1, <1>2, PTL DEF Spec

=============================================================================
