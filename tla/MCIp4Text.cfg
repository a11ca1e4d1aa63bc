\* Bytes of one bit, decimal digits 0 and 1, one more hexadecimal digit.
CONSTANTS
  DecBase = 2
  HexBase = 3
  W = 1
  Octet = 2
  PortMax = 3
  MaxText = 8
SPECIFICATION Spec
CHECK_DEADLOCK FALSE
INVARIANTS
  TypeOK
  ParsesEveryForm
  RoundTrip
  MalformedIsZero
  AddrIsAddressAndPort
  PrefixIsNetwork
