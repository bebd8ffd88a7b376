\* Five bytes in a space of ten addresses, so that ranges end inside memory,
\* beyond it, at the last address and past it.
CONSTANTS
  Size = 5
  AddrSpace = 10
  UsizeSpace = 10
  Byte = {0, 1}
  MaxBytes = 3
SPECIFICATION Spec
INVARIANTS MemoryTypeOK BoundsAreExact
PROPERTY OnlyTheRange
