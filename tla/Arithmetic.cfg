\* Registers of 28 bits: the unit tests, and every instruction at every point
\* where its outcome changes.
CONSTANTS
  FieldBits = 7
  ImmBits = 6
  Gprs <- AllGprs
  Instructions <- ProbingInstructions
  bad = bad
  Undecodable = bad
  Size = 16
  AddrSpace = 268435456
  UsizeSpace = 268435456
  Codes = {}
  RegValues = {}
  PcValues = {}
  FlagValues = {}
  PstateValues = {}
  None = None
SPECIFICATION TestSpec
INVARIANTS ArithmeticIsArchitectural MovWideIsFieldwise UnitTestsPass
