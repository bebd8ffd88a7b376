--------------------------------- MODULE MCCpu ---------------------------------
(***************************************************************************)
(* Instances of the CPU with eight-bit registers: every instruction        *)
(* without memory, and a few instructions in programs of three words on a  *)
(* host whose usize is narrower than u64, with every kind of PC: in memory *)
(* and beyond it, as a u64 and as a usize, at the end of each space.       *)
(***************************************************************************)
EXTENDS CpuProperties

CONSTANT bad

ArithmeticInstructions ==
  {AddSubImmediate(sf, op, s, 0, rn, imm, shift) :
     sf \in BOOLEAN, op \in BOOLEAN, s \in BOOLEAN, rn \in {0, 31},
     imm \in 0..1, shift \in BOOLEAN}
  \cup {MovWideImmediate(sf, opc, hw, imm, 0) :
     sf \in BOOLEAN, opc \in 0..3, hw \in {0, 2, 4, 6}, imm \in {1, 2}}
ArithmeticCodes == {<<>>}

AddBoth == AddSubImmediate(TRUE, FALSE, TRUE, 1, 0, 1, FALSE)
MovKeep == MovWideImmediate(TRUE, 3, 2, 1, 0)
MCInstructions == {AddBoth, MovKeep, AddSubImmediate(TRUE, TRUE, TRUE, 31, 1, 1, FALSE), Hlt(0)}

\* Three words at 0, 4 and 8 of 12 bytes; unaligned words do not decode,
\* except the one at 1.
Program(a, b, c) ==
  [i \in 0..8 |-> CASE i = 0 -> a [] i = 4 -> b [] i = 8 -> c [] i = 1 -> Hlt(0)
                    [] OTHER -> bad]
MCCodes == {Program(AddBoth, MovKeep, Hlt(0)), Program(MovKeep, Hlt(0), AddBoth),
                 Program(AddBoth, bad, Hlt(0)), Program(AddBoth, AddBoth, AddBoth)}
MCFlags == {[n |-> TRUE, z |-> FALSE, c |-> TRUE, v |-> FALSE]}
MCPcs == {0, 1, 4, 8, 9, 12, 15, 16, 24, 31}
=============================================================================
