--------------------------------- MODULE Decode ---------------------------------
(***************************************************************************)
(* simulator/src/decode.rs: a 32-bit word, as its upper and lower 16 bits, *)
(* to an instruction of the executor with the code's widths.               *)
(***************************************************************************)
EXTENDS Executor

ASSUME DecodedWidths == FieldBits = 16 /\ ImmBits = 12

CONSTANTS UnknownOpcode,    \* DecodeError
          IllegalEncoding,
          His, Los          \* halves of the words to decode

\* A half is a number of 16 bits.
Half == {n \in Nat : n < 65536}

ASSUME HalvesAssumption == His \subseteq Half /\ Los \subseteq Half

\* Bits first..last of a half.
Bits(half, first, last) == (half \div 2 ^ first) % 2 ^ (last + 1 - first)

IsHlt(word) == word.hi = 54275   \* 0xD403

\* Seeded fault: bits [28:26], the whole data-processing-immediate group.
IsAddSub_Group(word) == Bits(word.hi, 10, 12) = 4

\* Bits [28:24] and [28:23] of the word.
IsAddSub(word) == Bits(word.hi, 8, 12) = 17
IsMovWide(word) == Bits(word.hi, 7, 12) = 37

\* Seeded fault: the upper six bits of imm12 are lost.
AddSubFields_LowImm(word) ==
  [kind |-> "AddSub",
   sf |-> Bits(word.hi, 15, 15) = 1, op |-> Bits(word.hi, 14, 14) = 1,
   s |-> Bits(word.hi, 13, 13) = 1, shift |-> Bits(word.hi, 6, 7) = 1,
   imm |-> Bits(word.lo, 10, 15),
   rn |-> Bits(word.lo, 5, 9), rd |-> Bits(word.lo, 0, 4)]

AddSubFields(word) ==
  [kind |-> "AddSub",
   sf |-> Bits(word.hi, 15, 15) = 1, op |-> Bits(word.hi, 14, 14) = 1,
   s |-> Bits(word.hi, 13, 13) = 1, shift |-> Bits(word.hi, 6, 7) = 1,
   imm |-> Bits(word.hi, 0, 5) * 2 ^ 6 + Bits(word.lo, 10, 15),
   rn |-> Bits(word.lo, 5, 9), rd |-> Bits(word.lo, 0, 4)]

\* Seeded fault: the shift is left as the number of the field.
MovWideFields_Unscaled(word) ==
  [kind |-> "MovWide",
   sf |-> Bits(word.hi, 15, 15) = 1, opc |-> Bits(word.hi, 13, 14),
   hw |-> Bits(word.hi, 5, 6),
   imm |-> Bits(word.hi, 0, 4) * 2 ^ 11 + Bits(word.lo, 5, 15),
   rd |-> Bits(word.lo, 0, 4)]

MovWideFields(word) ==
  [kind |-> "MovWide",
   sf |-> Bits(word.hi, 15, 15) = 1, opc |-> Bits(word.hi, 13, 14),
   hw |-> Bits(word.hi, 5, 6) * 16,
   imm |-> Bits(word.hi, 0, 4) * 2 ^ 11 + Bits(word.lo, 5, 15),
   rd |-> Bits(word.lo, 0, 4)]

decode(word) ==
  IF IsHlt(word) THEN [kind |-> "Hlt", imm |-> word.lo]
  ELSE IF IsAddSub(word) THEN AddSubFields(word)
  ELSE IF IsMovWide(word) THEN MovWideFields(word)
  ELSE UnknownOpcode

Decodes(word) == decode(word) \notin {UnknownOpcode, IllegalEncoding}

-----------------------------------------------------------------------------
(* Words come from memory, and memory holds any word. *)

VARIABLE word

Fetched == word' \in [hi : {word.hi}, lo : Los]

Init == word \in [hi : His, lo : Los]
Spec == Init /\ [][Fetched]_word

-----------------------------------------------------------------------------
(* Properties *)

\* What decodes is an instruction the executor can take: registers up to 31,
\* so that Registers::read and write cannot panic, and immediates and shifts
\* of the width it assumes.
DecodedIsInstruction == Decodes(word) => IsInstruction(decode(word), 0..30)

\* No word has two meanings, so that the order of the tests is immaterial.
PatternsAreDisjoint ==
  /\ ~(IsHlt(word) /\ IsAddSub(word))
  /\ ~(IsHlt(word) /\ IsMovWide(word))
  /\ ~(IsAddSub(word) /\ IsMovWide(word))

\* The encoding of an instruction, field by field from bit 31.
B(flag) == IF flag THEN 1 ELSE 0
Encoding(ins) ==
  CASE ins.kind = "Hlt" -> [hi |-> 54275, lo |-> ins.imm]
    [] ins.kind = "AddSub" ->
         [hi |-> B(ins.sf) * 32768 + B(ins.op) * 16384 + B(ins.s) * 8192
                 + 4352 + B(ins.shift) * 64 + ins.imm \div 64,
          lo |-> (ins.imm % 64) * 1024 + ins.rn * 32 + ins.rd]
    [] ins.kind = "MovWide" ->
         [hi |-> B(ins.sf) * 32768 + ins.opc * 8192 + 4736
                 + (ins.hw \div 16) * 32 + ins.imm \div 2048,
          lo |-> (ins.imm % 2048) * 32 + ins.rd]

\* The shift field of ADD and SUB has two values the architecture defines.
ReservedShift(w) == IsAddSub(w) /\ Bits(w.hi, 6, 7) \notin {0, 1}

\* Nothing is lost: a word that decodes is the encoding of what it decodes to,
\* so two different words never decode to the same instruction.
DecodingIsInvertible ==
  Decodes(word) /\ ~ReservedShift(word) => Encoding(decode(word)) = word
=============================================================================
