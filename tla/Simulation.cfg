\* Sixteen bytes of memory in a space of 40 addresses; the narrow host's usize
\* has half of it.
CONSTANTS
  Size = 16
  AddrSpace = 40
  UsizeSpace = 40
  NarrowUsize = 20
  Byte = {0, 1, 2}
  Files <- MCFiles
  FieldBits = 2
  ImmBits = 1
  Gprs = {0, 1}
  Instructions <- MCInstructions
  bad = bad
  Undecodable = bad
  None = None
  Meaning <- MCMeaning
SPECIFICATION BothSpec
INVARIANTS ImageIsTheFiles OnlyLoadableRuns ExitIsTheVerdict UnitTestsPass
PROPERTY ExitsOnBothHosts
\* The process exits.
CHECK_DEADLOCK FALSE
