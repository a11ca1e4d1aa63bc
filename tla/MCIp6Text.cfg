\* Four groups of two bytes of two bits, decimal digits 0 and 1.
CONSTANTS
  Groups = 4
  DecBase = 2
  HexBase = 4
  Octet = 4
  PortMax = 2
  Numbers <- MCNumbers
  Sample <- MCSample
  MaxText = 11
  MaxAddr = 7
SPECIFICATION Spec
CHECK_DEADLOCK FALSE
INVARIANTS
  TypeOK
  ParsesEveryForm
  MalformedIsZero
  RoundTrip
  MappedIsDotted
  AddrIsAddressAndPort
