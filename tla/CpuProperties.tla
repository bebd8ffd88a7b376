----------------------------- MODULE CpuProperties -----------------------------
(***************************************************************************)
(* What the CPU must do: arithmetic against a reference written from the   *)
(* integers the registers stand for, and the contract of step and run.     *)
(***************************************************************************)
EXTENDS Cpu

\* What 2 ^ n means for the exponents of this code: the provers know it of
\* literals only.
ASSUME PowersAssumption ==
  2 ^ 0 = 1 /\ \A n \in 0..(W64 - 1) : 2 ^ (n + 1) = 2 * 2 ^ n

\* Types: registers hold W64-bit values and PC an address, whatever wraps.
CpuTypeOK ==
  /\ regs \in [x : [Gprs -> Value], sp : Value, pc : 0..(AddrSpace - 1),
               n : BOOLEAN, z : BOOLEAN, c : BOOLEAN, v : BOOLEAN]
  /\ halted \in BOOLEAN
  /\ code \in Codes
  /\ running \in BOOLEAN
  /\ result \in {None} \cup Answers

-----------------------------------------------------------------------------
(* Arithmetic *)

Of(kind) == {ins \in Instructions : ins.kind = kind}

\* The low w bits of a value, read as an unsigned and as a signed integer.
Unsigned(v, w) == v % 2 ^ w
Signed(v, w) == IF Unsigned(v, w) >= 2 ^ (w - 1) THEN Unsigned(v, w) - 2 ^ w
                ELSE Unsigned(v, w)

\* The architecture's AddWithCarry on the operand of the instruction, in its
\* width: subtraction adds the complement and 1.
Reference(ins, src) ==
  LET w == IF ins.sf THEN W64 ELSE W32
      a == Unsigned(src, w)
      b == IF ins.shift THEN ins.imm * 2 ^ ImmBits ELSE ins.imm
      unsigned == IF ins.op THEN a + (2 ^ w - 1 - b) + 1 ELSE a + b
      signed == IF ins.op THEN Signed(a, w) - Signed(b, w)
                ELSE Signed(a, w) + Signed(b, w)
      value == unsigned % 2 ^ w
  IN [value |-> value, n |-> Signed(value, w) < 0, z |-> value = 0,
      c |-> unsigned # value, v |-> signed # Signed(value, w)]

\* On whatever the registers hold, ADD and SUB write the reference's value,
\* zero-extended, and its flags.  The carry of a 32-bit SUBS is left to
\* Sub32IgnoresUpperHalf.
ArithmeticIsArchitectural ==
  \A ins \in Of("AddSub") :
    LET after == execute_instruction(regs, ins)
        ref == Reference(ins, Read(regs.x, ins.rn))
    IN /\ ins.rd # ZR => after.x[ins.rd] = ref.value
       /\ ins.s => /\ <<after.n, after.z, after.v>> = <<ref.n, ref.z, ref.v>>
                   /\ ins.sf \/ ~ins.op => after.c = ref.c

\* Field f of a register: the unit MOVZ, MOVK and MOVN work on.
Field(v, f) == (v \div 2 ^ (f * FieldBits)) % 2 ^ FieldBits

\* MOVZ, MOVK and MOVN set the field they name, leave the others zero, as they
\* were or all ones, and in their 32-bit form clear the upper two.
MovWideIsFieldwise ==
  \A ins \in Of("MovWide") : \A f \in 0..3 :
    ins.rd # ZR =>
      LET old == Field(regs.x[ins.rd], f)
          ones == 2 ^ FieldBits - 1
          named == IF ins.opc = 0 THEN ones - ins.imm ELSE ins.imm
          other == IF ins.opc = 2 THEN 0 ELSE IF ins.opc = 3 THEN old ELSE ones
      IN Field(execute_instruction(regs, ins).x[ins.rd], f) =
           IF ins.opc = 1 THEN old
           ELSE IF ~ins.sf /\ f >= 2 THEN 0
           ELSE IF ins.hw = f * FieldBits THEN named ELSE other

\* A test's comment, executor.rs:255: a 32-bit operation ignores the upper
\* bits of its source, in the flags it sets too.
Sub32IgnoresUpperHalf ==
  \A ins \in Of("AddSub") : ~ins.sf =>
    LET src == Read(regs.x, ins.rn)
    IN AddSub(ins, src) = AddSub(ins, Unsigned(src, W32))

-----------------------------------------------------------------------------
(* step and run *)

Steps == step \/ RunLoop

\* step's contract (cpu.rs:160), called by itself or by run: PC advances by 4
\* exactly on success, and run goes on; on HLT PC stays, step returns Halt and
\* run Ok; on a fault, or a panic in the fetch, the CPU has not changed, and PC
\* shows where it was.
StepContract ==
  [][Steps =>
      \/ /\ result' = "Ok" /\ running' = running
         /\ Fetchable(regs.pc)
         /\ regs'.pc = regs.pc + 4
      \/ /\ result' = (IF running THEN "Ok" ELSE "Halt") /\ ~running'
         /\ halted'
         /\ regs'.pc = regs.pc
      \/ /\ result' \in Answers \ {"Ok", "Halt"} /\ ~running'
         /\ regs' = regs /\ halted' = halted]_vars

\* Once halted, whatever the caller writes to PC or memory and however it goes
\* on, execute and step return no Ok and no instruction moves PC.  run may well
\* return Ok (cpu.rs:198), but it ends with its first instruction, whatever
\* that is: for the HLT of before.
HaltIsFinal ==
  [][halted /\ (Steps \/ \E ins \in Instructions : execute(ins)) =>
      /\ halted' /\ regs'.pc = regs.pc
      /\ ~running' /\ (result' = "Ok" => running)]_vars

\* run returns: there are no branches, and memory ends.
RunReturns == running ~> ~running
=============================================================================
