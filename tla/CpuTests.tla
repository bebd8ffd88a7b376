-------------------------------- MODULE CpuTests --------------------------------
(***************************************************************************)
(* The unit tests of executor.rs, registers.rs and cpu.rs, played on Cpu:  *)
(* a test is a script of calls, each of which is the action of that name,  *)
(* and of expectations.  Values are those of the tests with every 16-bit   *)
(* field reduced to FieldBits and every immediate to its width; a memory   *)
(* has Size bytes, and what a test does at the end of its own is done at   *)
(* the end of this one.                                                    *)
(***************************************************************************)
EXTENDS CpuProperties, Sequences

CONSTANT bad

VARIABLE script  \* what remains of the test

testVars == <<vars, script>>

-----------------------------------------------------------------------------
(* Values: fields from the upper one down, immediates, multiples of 0x1000,  *)
(* and the ends of the ranges.                                               *)

F(a, b, c, d) ==
  LET Low(field) == field % 2 ^ FieldBits
  IN ((Low(a) * 2 ^ FieldBits + Low(b)) * 2 ^ FieldBits + Low(c)) * 2 ^ FieldBits
     + Low(d)
Imm(n) == n % 2 ^ ImmBits
K(n) == n * 2 ^ ImmBits
Max64 == 2 ^ W64 - 1
Max32 == 2 ^ W32 - 1
Top64 == 2 ^ (W64 - 1)
Top32 == 2 ^ (W32 - 1)
UpperHalf == Max64 - Max32

\* An instruction, and a word through decode, at this instance's widths.
Scaled(ins) ==
  CASE ins = bad \/ ins.kind = "Hlt" -> ins
    [] ins.kind = "AddSub" -> [ins EXCEPT !.imm = Imm(ins.imm)]
    [] ins.kind = "MovWide" -> [ins EXCEPT !.imm = F(0, 0, 0, ins.imm),
                                           !.hw = (ins.hw \div 16) * FieldBits]

Decoder == INSTANCE Decode WITH FieldBits <- 16, ImmBits <- 12,
             UnknownOpcode <- bad, IllegalEncoding <- bad,
             His <- {}, Los <- {}, word <- script
Word(hi, lo) == Scaled(Decoder!decode([hi |-> hi, lo |-> lo]))

-----------------------------------------------------------------------------
(* Calls and expectations *)

Reg(i, v) == [call |-> "write_reg", i |-> i, v |-> v]
Sp(v) == [call |-> "write_sp", v |-> v]
Pc(v) == [call |-> "write_pc", v |-> v]
Flags(on) == [call |-> "set_flags",
              f |-> [n |-> "n" \in on, z |-> "z" \in on,
                     c |-> "c" \in on, v |-> "v" \in on]]
Pstate(p) == [call |-> "write_pstate", p |-> p]
Exec(ins) == [call |-> "execute", ins |-> Scaled(ins)]
Step == [call |-> "step"]
Run == [call |-> "run"]

\* Memory::new and write_inst_to_cpu: words from address `at' on.
Blank == [i \in 0..(Size - 4) |-> bad]
Words(at, words) ==
  [call |-> "memory",
   code |-> [i \in DOMAIN Blank |->
               IF i \in {at + 4 * (k - 1) : k \in DOMAIN words}
               THEN words[(i - at) \div 4 + 1] ELSE bad]]

IsReg(i, v) == [expect |-> "reg", i |-> i, v |-> v]
IsSp(v) == [expect |-> "sp", v |-> v]
IsPc(v) == [expect |-> "pc", v |-> v]
IsFlags(on) == [expect |-> "flags", on |-> on]
IsPstate(p) == [expect |-> "pstate", p |-> p]
IsHalted(h) == [expect |-> "halted", h |-> h]
Returns(r) == [expect |-> "result", r |-> r]

Holds(e) ==
  CASE e.expect = "reg" -> Read(regs.x, e.i) = e.v
    [] e.expect = "sp" -> regs.sp = e.v
    [] e.expect = "pc" -> regs.pc = e.v
    [] e.expect = "flags" -> /\ regs.n = ("n" \in e.on) /\ regs.z = ("z" \in e.on)
                             /\ regs.c = ("c" \in e.on) /\ regs.v = ("v" \in e.on)
    [] e.expect = "pstate" -> read_pstate = e.p
    [] e.expect = "halted" -> halted = e.h
    [] e.expect = "result" -> result = e.r

Expecting == script # <<>> /\ ~running /\ "expect" \in DOMAIN Head(script)

-----------------------------------------------------------------------------
(* executor.rs *)

\* An instruction on X1, and what X0 is to be.
Add(sf, imm, shift) == AddSubImmediate(sf, FALSE, FALSE, 0, 1, imm, shift)
Sub(sf, imm, shift) == AddSubImmediate(sf, TRUE, FALSE, 0, 1, imm, shift)
OnX1(v, ins, expected) == <<Reg(1, v), Exec(ins), IsReg(0, expected)>>

HltTests == {<<IsHalted(FALSE), Exec(Hlt(imm16)), IsHalted(TRUE)>> : imm16 \in {0, 42}}

AddTests ==
  {OnX1(10, Add(TRUE, 5, FALSE), 15) \o <<IsFlags({})>>,
   OnX1(K(2), Add(TRUE, 1, TRUE), K(3)),
   OnX1(K(1), Add(TRUE, 4095, TRUE), 2 ^ (2 * ImmBits)),
   OnX1(UpperHalf + 10, Add(FALSE, 5, FALSE), 15),
   OnX1(UpperHalf + K(2), Add(FALSE, 1, TRUE), K(3))}

SubTests ==
  {<<Reg(3, 2 ^ (2 * ImmBits)),
     Exec(AddSubImmediate(TRUE, TRUE, FALSE, 2, 3, 4095, TRUE)), IsReg(2, K(1))>>,
   <<Reg(11, 100),
     Exec(AddSubImmediate(TRUE, TRUE, FALSE, 10, 11, 42, FALSE)), IsReg(10, 58)>>,
   OnX1(UpperHalf + 10, Sub(FALSE, 5, FALSE), 5),
   OnX1(UpperHalf + K(2), Sub(FALSE, 1, TRUE), K(1))}

ZeroRegisterTests ==
  {<<Reg(1, 10), Exec(AddSubImmediate(TRUE, op, FALSE, ZR, 1, 5, FALSE)),
     IsReg(ZR, 0)>> : op \in BOOLEAN} \cup
  {<<Exec(AddSubImmediate(TRUE, FALSE, FALSE, 0, ZR, 100, FALSE)), IsReg(0, Imm(100))>>,
   <<Exec(AddSubImmediate(TRUE, TRUE, FALSE, 0, ZR, 5, FALSE)), IsReg(0, Max64 - 4)>>}

\* A flag-setting instruction on X1, and what X0 and the flags are to be.
Sets(sf, op, v, imm, shift, expected, on) ==
  <<Reg(1, v), Exec(AddSubImmediate(sf, op, TRUE, 0, 1, imm, shift)),
    IsReg(0, expected), IsFlags(on)>>

FlagTests64 ==
  {Sets(TRUE, FALSE, 10, 5, FALSE, 15, {}),
   Sets(TRUE, FALSE, 0, 0, FALSE, 0, {"z"}),
   Sets(TRUE, FALSE, Max64, 1, FALSE, 0, {"z", "c"}),
   Sets(TRUE, FALSE, Top64 - 1, 1, FALSE, Top64, {"n", "v"}),
   Sets(TRUE, TRUE, 10, 5, FALSE, 5, {"c"}),
   Sets(TRUE, TRUE, 3, 5, FALSE, Max64 - 1, {"n"}),
   Sets(TRUE, TRUE, Top64, 1, FALSE, Top64 - 1, {"c", "v"})}

FlagTests32 ==
  {Sets(FALSE, FALSE, Top32 - 1, 1, FALSE, Top32, {"n", "v"}),
   Sets(FALSE, FALSE, Max32, 1, FALSE, 0, {"z", "c"}),
   Sets(FALSE, TRUE, 10, 5, FALSE, 5, {"c"}),
   Sets(FALSE, TRUE, 1, 5, FALSE, Max32 - 3, {"n"}),
   Sets(FALSE, TRUE, Top32, 1, FALSE, Top32 - 1, {"c", "v"})}

FlagTestsShiftedAndKept ==
  {Sets(TRUE, FALSE, Top64 - K(1), 1, TRUE, Top64, {"n", "v"}),
   Sets(TRUE, TRUE, K(2), 1, TRUE, K(1), {"c"}),
   <<Flags({"n", "z", "c", "v"}), Reg(1, 0), Exec(Add(TRUE, 0, FALSE)),
     IsFlags({"n", "z", "c", "v"})>>,
   <<Flags({"n", "c", "v"})>> \o Sets(TRUE, FALSE, 0, 0, FALSE, 0, {"z"})}

EncodeTests ==
  {OnX1(42, Add(TRUE, 100, FALSE), 42 + Imm(100)),
   <<Reg(5, K(2)), Exec(AddSubImmediate(TRUE, TRUE, FALSE, 10, 5, 1, TRUE)),
     IsReg(10, K(1))>>,
   <<Reg(20, 100), Exec(AddSubImmediate(FALSE, FALSE, FALSE, 15, 20, 7, FALSE)),
     IsReg(15, 107)>>}

\* A wide move to a register, what was there and what is to be.
Moves(before, sf, opc, hw, imm16, rd, expected) ==
  <<Reg(rd, before), Exec(MovWideImmediate(sf, opc, hw, imm16, rd)),
    IsReg(rd, expected)>>

MovzTests ==
  {Moves(0, TRUE, 2, 0, \hBEEF, 3, F(0, 0, 0, \hBEEF)),
   Moves(0, TRUE, 2, 16, \hABCD, 4, F(0, 0, \hABCD, 0)),
   Moves(0, TRUE, 2, 32, \h1234, 6, F(0, \h1234, 0, 0)),
   Moves(0, TRUE, 2, 48, \hABCD, 7, F(\hABCD, 0, 0, 0))}

MovkTests ==
  {Moves(F(\hDEAD, 0, \hBEEF, \hCAFE), TRUE, 3, 32, \h1234, 5,
         F(\hDEAD, \h1234, \hBEEF, \hCAFE)),
   Moves(F(\hAAAA, \hBBBB, \hCCCC, \hDDDD), FALSE, 3, 16, \hF00D, 8,
         F(0, 0, \hF00D, \hDDDD)),
   Moves(F(\hDEAD, \hCAFE, \h1234, \h5678), TRUE, 3, 0, \hBEEF, 9,
         F(\hDEAD, \hCAFE, \h1234, \hBEEF)),
   Moves(F(\hBEEF, \hCAFE, \h1234, \h5678), TRUE, 3, 48, \hDEAD, 10,
         F(\hDEAD, \hCAFE, \h1234, \h5678))}

MovEdgeTests ==
  {Moves(F(\hAAAA, \hBBBB, \hCCCC, \hDDDD), FALSE, 2, 16, \hFFFF, 2,
         F(0, 0, \hFFFF, 0)),
   <<Exec(MovWideImmediate(TRUE, 2, 0, \h42, ZR)), IsReg(ZR, 0)>>,
   Moves(0, TRUE, 0, 0, \h42, 5, Max64 - \h42),
   Moves(0, TRUE, 0, 16, 1, 0, Max64 - F(0, 0, 1, 0)),
   Moves(0, FALSE, 0, 0, 0, 3, Max32),
   Moves(F(0, 0, \hCAFE, \hF00D), TRUE, 1, 16, \hBEEF, 5, F(0, 0, \hCAFE, \hF00D))
     \o <<IsHalted(FALSE)>>}

ExecutorTests ==
  HltTests \cup AddTests \cup SubTests \cup ZeroRegisterTests \cup FlagTests64
  \cup FlagTests32 \cup FlagTestsShiftedAndKept \cup EncodeTests \cup MovzTests
  \cup MovkTests \cup MovEdgeTests

-----------------------------------------------------------------------------
(* registers.rs *)

RegistersTests ==
  {<<IsReg(i, 0), IsSp(0), IsPc(0), IsFlags({})>> : i \in Gprs} \cup
  {<<Reg(i, F(\hDEAD, 0, 0, i)), IsReg(i, F(\hDEAD, 0, 0, i)), IsReg(ZR, 0)>> :
     i \in Gprs} \cup
  {<<Sp(F(\h1234, \h5678, \h9ABC, \hDEF0)), IsSp(F(\h1234, \h5678, \h9ABC, \hDEF0)),
     Pc(Top32), IsPc(Top32), IsReg(ZR, 0), Sp(0), Pc(0), IsReg(i, 0)>> : i \in {0, 30}}
  \cup {<<IsFlags({}), Flags({"n", "z", "v"}), IsFlags({"n", "z", "v"}),
          Flags({}), IsFlags({})>>}

-----------------------------------------------------------------------------
(* cpu.rs *)

AccessorTests ==
  {<<IsSp(0), IsPc(0), IsPstate(0)>>,
   <<Reg(0, F(0, 0, \hDEAD, \hBEEF)), IsReg(0, F(0, 0, \hDEAD, \hBEEF)),
     Reg(30, F(0, 0, 0, \hCAFE)), IsReg(30, F(0, 0, 0, \hCAFE))>>,
   <<Sp(F(0, 0, \hFFFF, 0)), IsSp(F(0, 0, \hFFFF, 0))>>,
   <<Pc(F(0, 0, 0, \h8000)), IsPc(F(0, 0, 0, \h8000))>>,
   <<Pstate(Top32 + Top32 \div 4), IsPstate(Top32 + Top32 \div 4)>>}

StepTests ==
  LET hlt == Word(\hD403, 0)
  IN {<<Words(0, <<Word(\h9100, \h1420)>>), Reg(1, 10), Pc(0), Step,
        Returns("Ok"), IsReg(0, 15), IsPc(4)>>,
      <<Words(0, <<Word(\hD17F, \hFC62)>>), Reg(3, 2 ^ (2 * ImmBits)), Pc(0), Step,
        Returns("Ok"), IsReg(2, K(1)), IsPc(4)>>,
      <<Words(0, <<Word(\hD280, \h0840)>>), Pc(0), Step,
        Returns("Ok"), IsReg(0, \h42), IsPc(4)>>,
      <<Words(Size - 4, <<hlt>>), Pc(Size - 4), Step, Returns("Halt"), IsPc(Size - 4)>>,
      <<Words(0, <<Word(\hD280, \h0845), Word(\h9100, \h04A5), hlt>>), Pc(0),
        Step, Returns("Ok"), IsReg(5, \h42), IsPc(4),
        Step, Returns("Ok"), IsReg(5, \h43), IsPc(8),
        Step, Returns("Halt"), IsPc(8)>>,
      <<Pc(Size + 4), Step, Returns("MemoryFault")>>,
      <<Words(0, <<Word(0, 0)>>), Pc(0), Step, Returns("UnknownInstruction"), IsPc(0)>>}

Register31Tests ==
  LET sp == F(0, 0, 0, \hFFFF)
  IN {<<Words(0, <<Word(\h9100, \h143F)>>), Reg(1, 100), Sp(sp), Pc(0), Step,
        Returns("Ok"), IsSp(sp), IsPc(4)>>,
      <<Words(0, <<Word(\h9100, \h43E0)>>), Sp(sp), Pc(0), Step,
        Returns("Ok"), IsReg(0, 16), IsPc(4)>>,
      <<Words(0, <<Word(\hD280, \h085F)>>), Sp(sp), Pc(0), Step,
        Returns("Ok"), IsSp(sp)>>}

RunTests ==
  LET hlt == Word(\hD403, 0)
  IN {<<Words(0, <<Word(\h1100, \h1420)>>), Reg(1, UpperHalf + 10), Pc(0), Step,
        Returns("Ok"), IsReg(0, 15), IsPc(4)>>,
      <<Words(0, <<Word(\hD280, \h0140), Word(\hD280, \h0281), Word(\h9100, \h5022),
                   hlt>>),
        Pc(0), Run, Returns("Ok"), IsHalted(TRUE),
        IsReg(0, 10), IsReg(1, 20), IsReg(2, 40), IsPc(12)>>,
      <<Words(0, <<hlt>>), Pc(0), Run, Returns("Ok"), IsHalted(TRUE), IsPc(0)>>,
      <<Words(0, <<Word(0, 0)>>), Pc(0), Run, Returns("UnknownInstruction")>>}

Tests == ExecutorTests \cup RegistersTests \cup AccessorTests \cup StepTests
         \cup Register31Tests \cup RunTests

-----------------------------------------------------------------------------
(* Playing a test, or probing the executor on one register value. *)

\* Operands an instruction may have, and sources at and around those where one
\* of them carries, borrows or changes the sign in either width.
Immediates == {0, 1, 5, 2 ^ ImmBits - 1}
Operands == Immediates \cup {K(imm) : imm \in Immediates}
Thresholds ==
  {upper * 2 ^ W32 + lower + sign * operand + d :
     upper \in {0, 1, Top32, Max32}, lower \in {0, Top32},
     sign \in {-1, 1}, operand \in Operands, d \in -2..2}
Patterns == {F(a, b, c, d) : a, b, c, d \in {0, 1, \h55, \hFFFF}}
AllGprs == 0..30
Probes == {v % 2 ^ W64 : v \in Thresholds} \cup Patterns

ProbingInstructions ==
  {AddSubImmediate(sf, op, s, 0, rn, imm, shift) :
     sf \in BOOLEAN, op \in BOOLEAN, s \in BOOLEAN, rn \in {0, ZR},
     imm \in Immediates, shift \in BOOLEAN}
  \cup {MovWideImmediate(sf, opc, field * FieldBits, imm, 0) :
     sf \in BOOLEAN, opc \in 0..3, field \in 0..3,
     imm \in {0, 1, \h2A, 2 ^ FieldBits - 1}}

TestInit ==
  /\ New
  /\ code = Blank
  /\ script \in Tests
ProbeInit ==
  /\ \E v \in Probes :
       regs = [x |-> [i \in Gprs |-> IF i = 0 THEN v ELSE 0], sp |-> 0, pc |-> 0,
               n |-> FALSE, z |-> FALSE, c |-> FALSE, v |-> FALSE]
  /\ halted = FALSE /\ running = FALSE /\ result = None
  /\ code = Blank
  /\ script = <<>>

Perform(c) ==
  \/ c.call = "write_reg" /\ write_reg(c.i, c.v)
  \/ c.call = "write_sp" /\ write_sp(c.v)
  \/ c.call = "write_pc" /\ write_pc(c.v)
  \/ c.call = "set_flags" /\ set_flags(c.f)
  \/ c.call = "write_pstate" /\ write_pstate(c.p)
  \/ c.call = "memory" /\ WriteMemory(c.code)
  \/ c.call = "execute" /\ execute(c.ins)
  \/ c.call = "step" /\ step
  \/ c.call = "run" /\ run

Play ==
  /\ script # <<>>
  /\ "call" \in DOMAIN Head(script)
  /\ Perform(Head(script))
  /\ script' = Tail(script)
Pass == Expecting /\ script' = Tail(script) /\ UNCHANGED vars
Loop == RunLoop /\ UNCHANGED script

\* A test ends after its last call; any other halt would be a deadlock.
Ended == script = <<>> /\ UNCHANGED testVars

TestSpec == (TestInit \/ ProbeInit) /\ [][Play \/ Pass \/ Loop \/ Ended]_testVars

\* The repository's own tests hold of the model: whenever a test reaches an
\* assertion, what it expects is so.
UnitTestsPass == Expecting => Holds(Head(script))
=============================================================================
