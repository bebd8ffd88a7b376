--------------------------------- MODULE Memory ---------------------------------
(***************************************************************************)
(* simulator/src/memory.rs: the four operations on the bytes of a Memory.  *)
(* Each returns [tag, data]: data is the memory after it, and the bytes    *)
(* read for read_u32.  u64 addresses wrap at AddrSpace, usize ones at      *)
(* UsizeSpace: the two differ on a host whose usize has 32 bits.           *)
(***************************************************************************)
EXTENDS Integers, Sequences

CONSTANTS Size,        \* bytes of memory
          AddrSpace,   \* 2^64
          UsizeSpace,  \* 2^64, or 2^32 on a 32-bit host
          Byte         \* values of a byte

ASSUME SizesAssumption == /\ Size \in Nat /\ AddrSpace \in Nat
                          /\ UsizeSpace \in Nat
                          /\ Size < UsizeSpace /\ UsizeSpace <= AddrSpace
                          /\ 3 < UsizeSpace /\ AddrSpace % UsizeSpace = 0
ASSUME ByteAssumption == 0 \in Byte

Address == 0..(AddrSpace - 1)
Index == 0..(Size - 1)
Data == [Index -> Byte]

as_usize(n) == n % UsizeSpace

OutOfBounds(data) == [tag |-> "OutOfBounds", data |-> data]

\* Memory::new.
Zeroed == [i \in Index |-> 0]

\* The slice data[base..base + n] of a Vec: beyond its end it panics.
Slicing(data, base, n, result) ==
  IF base + n > Size THEN [tag |-> "Panic", data |-> data] ELSE result

Word(data, base) == <<data[base], data[base + 1], data[base + 2], data[base + 3]>>

\* Seeded fault: one byte too few is checked.
InBounds_OffByOne(last) == last < AddrSpace /\ as_usize(last) <= Size
\* checked_add and the comparison: the last address exists and is in memory.
InBounds(last) == last < AddrSpace /\ as_usize(last) < Size

read_u32(data, addr) ==
  IF ~InBounds(addr + 3) THEN OutOfBounds(<<>>)
  ELSE Slicing(<<>>, as_usize(addr), 4,
               [tag |-> "Ok", data |-> Word(data, as_usize(addr))])

\* Seeded fault: the bytes are put at the last address backwards.
Put_Reversed(data, base, bytes) ==
  [i \in Index |-> IF i \in base..(base + Len(bytes) - 1)
                   THEN bytes[Len(bytes) - (i - base)] ELSE data[i]]
\* copy_from_slice.
Put(data, base, bytes) ==
  [i \in Index |-> IF i \in base..(base + Len(bytes) - 1)
                   THEN bytes[i - base + 1] ELSE data[i]]

write_u32(data, addr, bytes) ==
  IF ~InBounds(addr + 3) THEN OutOfBounds(data)
  ELSE Slicing(data, as_usize(addr), 4,
               [tag |-> "Ok", data |-> Put(data, as_usize(addr), bytes)])

\* Seeded fault: an empty slice is checked as if it had a byte.
write_bytes_Empty(data, addr, bytes) ==
  IF addr + Len(bytes) >= AddrSpace \/ as_usize(addr + Len(bytes) - 1) >= Size
  THEN OutOfBounds(data)
  ELSE [tag |-> "Ok", data |-> Put(data, as_usize(addr), bytes)]

\* The end, one past the last byte, is computed first and must not overflow.
write_bytes(data, addr, bytes) ==
  LET end == addr + Len(bytes)
  IN IF end >= AddrSpace THEN OutOfBounds(data)
     ELSE IF bytes = <<>> THEN [tag |-> "Ok", data |-> data]
     ELSE IF ~InBounds(end - 1) THEN OutOfBounds(data)
     ELSE Slicing(data, as_usize(addr), Len(bytes),
                  [tag |-> "Ok", data |-> Put(data, as_usize(addr), bytes)])

fill_zeros(data, addr, size) ==
  LET end == addr + size
  IN IF size = 0 THEN [tag |-> "Ok", data |-> data]
     ELSE IF end >= AddrSpace \/ ~InBounds(end - 1) THEN OutOfBounds(data)
     ELSE Slicing(data, as_usize(addr), size,
                  [tag |-> "Ok", data |-> [i \in Index |->
                     IF i \in as_usize(addr)..(as_usize(addr) + size - 1)
                     THEN 0 ELSE data[i]]])
=============================================================================
