---------------------------------- MODULE Cpu ----------------------------------
(***************************************************************************)
(* simulator/src/cpu.rs: the CPU, driven by a caller through its public    *)
(* methods.  run() is a loop of step(): each iteration is an action.       *)
(* Memory is seen through what its words decode to: `code' gives, for each *)
(* address read_u32 accepts, the instruction there or Undecodable.         *)
(***************************************************************************)
EXTENDS Executor

CONSTANTS
  Gprs,          \* indexes of the general-purpose registers that are used
  Instructions,  \* instructions decode may return
  Undecodable,   \* a word decode rejects
  Size,          \* bytes of memory
  AddrSpace,     \* addresses: 0..AddrSpace-1 (2^64 in the code)
  UsizeSpace,    \* values of usize: 2^64, or 2^32 on a 32-bit host
  Codes,         \* contents of memory
  RegValues,     \* what the caller writes to X registers and SP
  PcValues,      \* what the caller writes to PC
  FlagValues,    \* what the caller sets the flags to
  PstateValues,  \* what the caller writes to PSTATE
  None           \* no call yet

ASSUME MemoryAssumption ==
  /\ Size \in Nat /\ AddrSpace \in Nat /\ UsizeSpace \in Nat
  /\ Size < UsizeSpace /\ 3 < UsizeSpace
  /\ UsizeSpace <= AddrSpace /\ AddrSpace % UsizeSpace = 0
  /\ Codes \subseteq [0..(Size - 4) -> Instructions \cup {Undecodable}]
ASSUME RegistersAssumption ==
  /\ Gprs \subseteq 0..30
  /\ RegValues \subseteq Value /\ PstateValues \subseteq Value
  /\ FlagValues \subseteq [n : BOOLEAN, z : BOOLEAN, c : BOOLEAN, v : BOOLEAN]
  /\ PcValues \subseteq 0..(AddrSpace - 1)
ASSUME InstructionsAssumption ==
  \A ins \in Instructions : IsInstruction(ins, Gprs)

VARIABLES regs,     \* Registers
          halted,   \* Cpu.halted
          code,     \* Cpu.mem
          running,  \* whether run() has been called and has not returned
          result    \* what the last execute, step or run returned; Ok while
                    \* the steps of run do

vars == <<regs, halted, code, running, result>>

\* Cpu::new.
New ==
  /\ regs = [x |-> [i \in Gprs |-> 0], sp |-> 0, pc |-> 0,
             n |-> FALSE, z |-> FALSE, c |-> FALSE, v |-> FALSE]
  /\ halted = FALSE
  /\ running = FALSE
  /\ result = None

Init == New /\ code \in Codes

-----------------------------------------------------------------------------
(* The caller *)

Setting(r) == ~running /\ regs' = r /\ UNCHANGED <<halted, code, running, result>>

write_reg(i, v) == Setting([regs EXCEPT !.x[i] = v])
write_sp(v) == Setting([regs EXCEPT !.sp = v])
write_pc(v) == Setting([regs EXCEPT !.pc = v])

\* Registers::set_flags.
WithFlags(r, n, z, c, v) == [r EXCEPT !.n = n, !.z = z, !.c = c, !.v = v]
set_flags(f) == Setting(WithFlags(regs, f.n, f.z, f.c, f.v))

\* PSTATE keeps the flags in the four bits below W32, and nothing else.
Packed(flag, bit) == IF flag THEN 2 ^ bit ELSE 0
read_pstate == Packed(regs.n, W32 - 1) + Packed(regs.z, W32 - 2)
               + Packed(regs.c, W32 - 3) + Packed(regs.v, W32 - 4)
write_pstate(p) ==
  Setting(WithFlags(regs, Bit(p, W32 - 1), Bit(p, W32 - 2),
                    Bit(p, W32 - 3), Bit(p, W32 - 4)))

\* `mem' is public: the caller may write to it between two calls.
WriteMemory(c) ==
  ~running /\ code' = c /\ UNCHANGED <<regs, halted, running, result>>

-----------------------------------------------------------------------------
(* Execution *)

\* executor.rs on HLT.
Halts(ins) == ins.kind = "Hlt"

\* execute: PC stays, and Halt is returned whenever the CPU is halted.
execute(ins) ==
  /\ ~running
  /\ regs' = execute_instruction(regs, ins)
  /\ halted' = (halted \/ Halts(ins))
  /\ result' = IF halted' THEN "Halt" ELSE "Ok"
  /\ UNCHANGED <<code, running>>

\* Memory::read_u32 at PC: it checks the last byte's address as a usize, so a
\* narrow usize lets addresses pass beyond memory.  The slice it then takes is
\* of what they are as a usize; one that memory does not hold is a panic.
as_usize(n) == n % UsizeSpace
OutOfBounds(pc) == pc + 3 >= AddrSpace \/ as_usize(pc + 3) >= Size
Fetchable(pc) == ~OutOfBounds(pc) /\ as_usize(pc) + 4 <= Size
FetchedWord == code[as_usize(regs.pc)]

\* A step and what it answers.
Answers == {"Ok", "Halt", "MemoryFault", "UnknownInstruction", "Panic"}

Fails(why, answer) == answer = why /\ UNCHANGED <<regs, halted>>

\* Seeded faults: PC is also advanced on HLT; PC never moves; the halt flag is
\* cleared by the next instruction.
Completes_PastHlt(ins, answer) ==
  /\ halted' = (halted \/ Halts(ins))
  /\ regs' = [execute_instruction(regs, ins) EXCEPT
                 !.pc = (regs.pc + 4) % AddrSpace]
  /\ answer = IF halted' THEN "Halt" ELSE "Ok"
Completes_Stuck(ins, answer) ==
  /\ halted' = (halted \/ Halts(ins))
  /\ regs' = execute_instruction(regs, ins)
  /\ answer = IF halted' THEN "Halt" ELSE "Ok"
Completes_Reset(ins, answer) ==
  /\ halted' = Halts(ins)
  /\ regs' = IF halted' THEN execute_instruction(regs, ins)
             ELSE [execute_instruction(regs, ins) EXCEPT
                     !.pc = (regs.pc + 4) % AddrSpace]
  /\ answer = IF halted' THEN "Halt" ELSE "Ok"

\* The end of step, with a decoded instruction: PC advances unless halted.
Completes(ins, answer) ==
  LET after == execute_instruction(regs, ins)
  IN /\ halted' = (halted \/ Halts(ins))
     /\ regs' = IF halted' THEN after
                ELSE [after EXCEPT !.pc = (regs.pc + 4) % AddrSpace]
     /\ answer = IF halted' THEN "Halt" ELSE "Ok"

\* The body of step: fetch, decode and execute.
StepBody(answer) ==
  \/ OutOfBounds(regs.pc) /\ Fails("MemoryFault", answer)
  \/ /\ ~OutOfBounds(regs.pc)
     /\ ~Fetchable(regs.pc)
     /\ Fails("Panic", answer)
  \/ /\ Fetchable(regs.pc)
     /\ FetchedWord = Undecodable
     /\ Fails("UnknownInstruction", answer)
  \/ /\ Fetchable(regs.pc)
     /\ FetchedWord # Undecodable
     /\ Completes(FetchedWord, answer)

step == ~running /\ StepBody(result') /\ UNCHANGED <<code, running>>

\* run: steps until one does not return Ok, and returns Ok where that one has
\* returned Halt.
run == ~running /\ running' = TRUE /\ UNCHANGED <<regs, halted, code, result>>

RunLoop ==
  /\ running
  /\ \E answer \in Answers :
       /\ StepBody(answer)
       /\ running' = (answer = "Ok")
       /\ result' = IF answer = "Halt" THEN "Ok" ELSE answer
  /\ UNCHANGED code

-----------------------------------------------------------------------------
Caller ==
  \/ \E v \in RegValues : (\E i \in Gprs : write_reg(i, v)) \/ write_sp(v)
  \/ \E v \in PcValues : write_pc(v)
  \/ \E f \in FlagValues : set_flags(f)
  \/ \E p \in PstateValues : write_pstate(p)
  \/ \E c \in Codes : WriteMemory(c)
  \/ \E ins \in Instructions : execute(ins)
  \/ step
  \/ run

Next == Caller \/ RunLoop

\* run is a loop: it goes on by itself until it returns.
Spec == Init /\ [][Next]_vars /\ WF_vars(RunLoop)
=============================================================================
