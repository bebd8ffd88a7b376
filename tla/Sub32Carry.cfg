\* Every instruction on 8-bit register values; "32-bit" operations on 4.
CONSTANTS
  FieldBits = 2
  ImmBits = 1
  Gprs = {0}
  Instructions <- ArithmeticInstructions
  bad = bad
  Undecodable = bad
  Size = 0
  AddrSpace = 4
  UsizeSpace = 4
  Codes <- ArithmeticCodes
  RegValues = {0, 127, 128, 255}
  PcValues = {0}
  FlagValues = {}
  PstateValues = {}
  None = None
SPECIFICATION Spec
INVARIANT Sub32IgnoresUpperHalf
