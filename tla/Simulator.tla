------------------------------- MODULE Simulator -------------------------------
(***************************************************************************)
(* simulator/src/main.rs: load a file into a zeroed memory, make a CPU     *)
(* with its PC at the entry point, run it, and exit with 0 on a clean halt *)
(* and 1 otherwise, or 101 on a panic.  The loader's steps and the CPU's   *)
(* are those of their modules; the CPU sees memory through what its words  *)
(* mean.                                                                   *)
(***************************************************************************)
EXTENDS Loader

CONSTANTS FieldBits, ImmBits, Gprs, Instructions, Undecodable, None,
          Meaning  \* decode: from the four bytes of a word to an instruction

ASSUME NoneAssumption ==
  /\ None \notin {"Ok", "MemoryFault", "UnknownInstruction", "Panic"}
  /\ None \notin {0, 1, 101}

VARIABLES regs, halted, running, result,  \* the CPU
          exit                            \* exit code of the process

vars == <<elf, data, next, any_loaded, loading, regs, halted, running, result, exit>>
cpuVars == <<regs, halted, running, result>>

\* What decode makes of the words of memory.
Program == [base \in 0..(Size - 4) |-> Meaning[Word(data, base)]]

Core == INSTANCE Cpu WITH code <- Program, Codes <- {}, RegValues <- {},
                          PcValues <- {}, FlagValues <- {}, PstateValues <- {}

Init == LoaderInit /\ Core!New /\ exit = None

Exit(code) == exit = None /\ exit' = code /\ UNCHANGED <<loaderVars, cpuVars>>

\* Wrong arguments, or a file that cannot be read.
NoFile == loading = "no" /\ Exit(1)

Load == exit = None /\ (CallLoader \/ LoaderStep) /\ UNCHANGED <<cpuVars, exit>>

LoadFailed ==
  loading \notin {"no", "header", "segments", "Ok", "Panic"} /\ Exit(1)

\* Cpu::new, write_pc and the call of run.
StartCpu ==
  /\ exit = None
  /\ loading = "Ok"
  /\ ~running /\ result = None
  /\ regs' = [regs EXCEPT !.pc = elf.entry]
  /\ running' = TRUE
  /\ UNCHANGED <<halted, result, loaderVars, exit>>

Run == UNCHANGED <<loaderVars, exit>> /\ Core!RunLoop

\* Seeded fault: only a fault of memory is an error.
CpuStopped_Unknown ==
  /\ ~running /\ result \notin {None, "Panic"}
  /\ Exit(IF result = "MemoryFault" THEN 1 ELSE 0)
CpuStopped ==
  /\ ~running /\ result \notin {None, "Panic"}
  /\ Exit(IF result = "Ok" THEN 0 ELSE 1)

\* A panic of the main thread, in load_elf or in run.
Panicked == (loading = "Panic" \/ result = "Panic") /\ Exit(101)

Next == NoFile \/ Load \/ LoadFailed \/ StartCpu \/ Run \/ CpuStopped \/ Panicked

\* main is sequential: it goes on by itself until the process exits.
Spec == Init /\ [][Next]_vars /\ WF_vars(Next)

-----------------------------------------------------------------------------
(* Properties *)

Extent(phdr) == IF phdr.filesz > phdr.memsz THEN phdr.filesz ELSE phdr.memsz

\* The nonempty PT_LOAD segments, and those of them that cover byte i.
Segments == {k \in DOMAIN elf.phdrs : ~Skipped(elf.phdrs[k])}
Covering(i) == {k \in Segments :
                  i \in elf.phdrs[k].vaddr..(elf.phdrs[k].vaddr + Extent(elf.phdrs[k]) - 1)}

\* A loaded image holds, in each byte, what the last segment over it has there:
\* the file's byte, or zero past the file's part; bytes no segment covers are
\* zero.  It stays so while the program runs.
ImageIsTheFiles ==
  loading = "Ok" =>
    \A i \in Index :
      IF Covering(i) = {} THEN data[i] = 0
      ELSE LET top == CHOOSE k \in Covering(i) : \A j \in Covering(i) : j <= k
               phdr == elf.phdrs[top]
               at == i - phdr.vaddr
           IN data[i] = IF at < phdr.filesz THEN elf.bytes[phdr.offset + at + 1]
                        ELSE 0

\* A file that load_elf should accept: each segment's bytes are in the file and
\* its extent is in memory.
Loadable ==
  /\ elf.header = "valid"
  /\ Segments # {}
  /\ \A k \in Segments :
       /\ elf.phdrs[k].filesz = 0
          \/ elf.phdrs[k].offset + elf.phdrs[k].filesz <= Len(elf.bytes)
       /\ elf.phdrs[k].vaddr + Extent(elf.phdrs[k]) <= Size

\* load_elf succeeds exactly on those, and nothing of a file it has rejected,
\* part of which may be in memory, is ever executed.
OnlyLoadableRuns ==
  /\ loading = "Ok" => Loadable
  /\ loading \in {"Truncated", "NotElf", "UnsupportedArch", "NoLoadableSegments",
                  "SegmentDataOutOfBounds"} => ~Loadable /\ ~running /\ result = None

\* Where a program without branches ends: the first word from the entry point
\* on that is a HLT, does not decode or is not in memory.
Ends(k) == LET pc == elf.entry + 4 * k
           IN pc \notin DOMAIN Program \/ Program[pc] = Undecodable
              \/ Program[pc].kind = "Hlt"
EndOfProgram ==
  elf.entry + 4 * (CHOOSE k \in 0..Size : Ends(k) /\ \A j \in 0..(k - 1) : ~Ends(j))

\* The process ends there, and its exit code is 0 exactly when a HLT is there.
ExitIsTheVerdict ==
  exit # None /\ loading = "Ok" =>
    /\ regs.pc = EndOfProgram
    /\ exit = 0 <=> /\ regs.pc \in DOMAIN Program
                    /\ Program[regs.pc] # Undecodable
                    /\ Program[regs.pc].kind = "Hlt"

\* The steps the process still has: of the loader, of the CPU, whose PC, as a
\* usize, only goes up within memory, and the exit.
LoaderStepsLeft ==
  (Len(elf.phdrs) + 1 - next)
  + (IF loading = "no" THEN 3 ELSE IF loading = "header" THEN 2
     ELSE IF loading = "segments" THEN 1 ELSE 0)
CpuStepsLeft ==
  LET pc == as_usize(regs.pc)
  IN
  IF running THEN 1 + (IF pc < Size THEN (Size - pc) \div 4 ELSE 0)
  ELSE IF result = None THEN 2 + (Size \div 4) ELSE 0
StepsLeft ==
  LoaderStepsLeft + CpuStepsLeft + (IF exit = None THEN 1 ELSE 0)

\* The program cannot loop, whatever its words are: each step uses up one of
\* the steps that were left, of a number that the file's program headers and
\* the size of memory fix.
RunIsBounded == [][StepsLeft' \in 0..(StepsLeft - 1)]_vars

\* The process exits, whatever file it is given and however narrow a usize is.
Exits == <>(exit # None)
=============================================================================
