\* Addresses of three bytes of two bits: a first, a middle and a last byte,
\* each of which a length can cut.
CONSTANTS
  W = 2
  Bytes = 3
  RawCanonical = TRUE
SPECIFICATION Spec
INVARIANTS
  TypeOK
  HostBitsZero
  ContainsIsBitwise
  PrefixesAreSets
  ChildrenPartition
  RawRoundTrip
