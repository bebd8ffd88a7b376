\* Programs of three words, two 8-bit registers, every kind of PC.
CONSTANTS
  FieldBits = 2
  ImmBits = 1
  Gprs = {0, 1}
  Instructions <- MCInstructions
  bad = bad
  Undecodable = bad
  Size = 12
  AddrSpace = 32
  UsizeSpace = 16
  Codes <- MCCodes
  RegValues = {255}
  PcValues <- MCPcs
  FlagValues <- MCFlags
  PstateValues = {6, 250}
  None = None
SPECIFICATION Spec
INVARIANT CpuTypeOK
PROPERTIES StepContract HaltIsFinal RunReturns
