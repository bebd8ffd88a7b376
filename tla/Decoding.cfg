\* All 65536 upper halves: every opcode, with four lower halves.
CONSTANTS
  FieldBits = 16
  ImmBits = 12
  UnknownOpcode = UnknownOpcode
  IllegalEncoding = IllegalEncoding
  His <- AllHis
  Los <- SomeLos
SPECIFICATION Spec
INVARIANTS DecodedIsInstruction PatternsAreDisjoint DecodingIsInvertible UnitTestsPass
