------------------------------- MODULE Executor -------------------------------
(***************************************************************************)
(* simulator/src/executor.rs and registers.rs: what one decoded            *)
(* instruction does to the register file.  The widths are parameters: the  *)
(* code's 64-bit registers are four fields of FieldBits = 16 bits, its     *)
(* 32-bit operations use the lower two, and immediates have ImmBits = 12.  *)
(***************************************************************************)
EXTENDS Integers

CONSTANTS FieldBits,  \* bits of MOV's immediate
          ImmBits     \* bits of ADD's and SUB's immediate

ASSUME WidthAssumption == /\ FieldBits \in Nat \ {0}
                          /\ ImmBits \in Nat \ {0}
                          /\ ImmBits < FieldBits

W64 == 4 * FieldBits
W32 == 2 * FieldBits
Value == 0..(2 ^ W64 - 1)

\* Index 31 is the zero register.
ZR == 31

\* Instruction: what decode may return for a machine with registers gprs.
IsInstruction(ins, gprs) ==
  \/ /\ ins.kind = "AddSub"
     /\ {ins.sf, ins.op, ins.s, ins.shift} \subseteq BOOLEAN
     /\ {ins.rd, ins.rn} \subseteq gprs \cup {ZR}
     /\ ins.imm \in 0..(2 ^ ImmBits - 1)
  \/ /\ ins.kind = "MovWide"
     /\ ins.sf \in BOOLEAN
     /\ ins.opc \in 0..3
     /\ ins.hw \in {field * FieldBits : field \in 0..3}
     /\ ins.imm \in 0..(2 ^ FieldBits - 1)
     /\ ins.rd \in gprs \cup {ZR}
  \/ ins.kind = "Hlt"

\* The three variants of Instruction.
AddSubImmediate(sf, op, s, rd, rn, imm12, shift) ==
  [kind |-> "AddSub", sf |-> sf, op |-> op, s |-> s, rd |-> rd, rn |-> rn,
   imm |-> imm12, shift |-> shift]
MovWideImmediate(sf, opc, hw, imm16, rd) ==
  [kind |-> "MovWide", sf |-> sf, opc |-> opc, hw |-> hw, imm |-> imm16,
   rd |-> rd]
Hlt(imm16) == [kind |-> "Hlt", imm |-> imm16]

Bit(v, i) == (v \div 2 ^ i) % 2 = 1

\* Registers::read and write.
Read(x, i) == IF i = ZR THEN 0 ELSE x[i]
Write(x, i, v) == IF i = ZR THEN x ELSE [x EXCEPT ![i] = v]

\* Seeded faults: the sum is not reduced to the register's width; overflow is
\* any change of sign.
AddSub_Unwrapped(ins, src) ==
  LET operand == ins.imm * 2 ^ (IF ins.shift THEN ImmBits ELSE 0)
      result == IF ins.op THEN src - operand ELSE src + operand
  IN [value |-> result, n |-> result < 0, z |-> result = 0, c |-> FALSE,
      v |-> FALSE]
AddSub_LooseOverflow(ins, src) ==
  LET operand == ins.imm * 2 ^ (IF ins.shift THEN ImmBits ELSE 0)
      msb == IF ins.sf THEN W64 - 1 ELSE W32 - 1
      full == (IF ins.op THEN src - operand ELSE src + operand) % 2 ^ W64
      result == IF ins.sf THEN full ELSE full % 2 ^ W32
  IN [value |-> result, n |-> Bit(result, msb), z |-> result = 0,
      c |-> IF ins.op THEN src >= operand ELSE src + operand >= 2 ^ W64,
      v |-> Bit(full, msb) # Bit(src, msb)]

\* The AddSubImmediate arm up to the write-back: the value and the flags.
AddSub(ins, src) ==
  LET operand == ins.imm * 2 ^ (IF ins.shift THEN ImmBits ELSE 0)
      msb == IF ins.sf THEN W64 - 1 ELSE W32 - 1
      full == (IF ins.op THEN src - operand ELSE src + operand) % 2 ^ W64
      result == IF ins.sf THEN full ELSE full % 2 ^ W32
      carry == IF ins.op THEN src >= operand
               ELSE IF ins.sf THEN src + operand >= 2 ^ W64
               ELSE (src % 2 ^ W32) + (operand % 2 ^ W32) >= 2 ^ W32
      overflow == /\ (Bit(src, msb) = Bit(operand, msb)) = ~ins.op
                  /\ Bit(full, msb) # Bit(src, msb)
  IN [value |-> result, n |-> Bit(result, msb), z |-> result = 0,
      c |-> carry, v |-> overflow]

\* Seeded fault: MOVK does not clear the field it inserts into.
MovWide_Overlay(ins, existing) ==
  LET at == 2 ^ ins.hw
      value == CASE ins.opc = 2 -> ins.imm * at
                 [] ins.opc = 3 -> (existing + ins.imm * at) % 2 ^ W64
                 [] ins.opc = 0 -> 2 ^ W64 - 1 - ins.imm * at
  IN IF ins.sf THEN value ELSE value % 2 ^ W32

\* The MovWideImmediate arm: MOVZ, MOVK and MOVN of the field that
\* starts at bit hw.
MovWide(ins, existing) ==
  LET at == 2 ^ ins.hw
      field == (existing \div at) % 2 ^ FieldBits
      value == CASE ins.opc = 2 -> ins.imm * at
                 [] ins.opc = 3 -> existing - field * at + ins.imm * at
                 [] ins.opc = 0 -> 2 ^ W64 - 1 - ins.imm * at
  IN IF ins.sf THEN value ELSE value % 2 ^ W32

\* execute_instruction: on registers r = [x, sp, pc, n, z, c, v].
execute_instruction(r, ins) ==
  CASE ins.kind = "AddSub" ->
         LET done == AddSub(ins, Read(r.x, ins.rn))
             w == [r EXCEPT !.x = Write(r.x, ins.rd, done.value)]
         IN IF ins.s THEN [w EXCEPT !.n = done.n, !.z = done.z,
                                    !.c = done.c, !.v = done.v]
            ELSE w
    [] ins.kind = "MovWide" /\ ins.opc # 1 ->
         [r EXCEPT !.x = Write(r.x, ins.rd, MovWide(ins, Read(r.x, ins.rd)))]
    [] OTHER -> r
=============================================================================
