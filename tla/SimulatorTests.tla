----------------------------- MODULE SimulatorTests -----------------------------
(***************************************************************************)
(* The unit tests of memory.rs and loader.rs and the integration test, on  *)
(* a memory of 16 bytes: addresses beyond keep their side of the end.      *)
(***************************************************************************)
EXTENDS Simulator

-----------------------------------------------------------------------------
(* memory.rs *)

Fresh == Zeroed
BEEF == <<\hEF, \hBE, \hAD, \hDE>>
CCDD == <<\hDD, \hCC, \hBB, \hAA>>

ReadWriteTest ==
  LET first == write_u32(Fresh, 0, BEEF)
      second == write_u32(first.data, 8, <<\h78, \h56, \h34, \h12>>)
      third == write_u32(second.data, 4, CCDD)
  IN /\ {first.tag, second.tag, third.tag} = {"Ok"}
     /\ read_u32(first.data, 0).data = BEEF
     /\ read_u32(second.data, 8).data = <<\h78, \h56, \h34, \h12>>
     /\ \A i \in 0..3 : second.data[i] = BEEF[i + 1]
     /\ read_u32(third.data, 0).data = BEEF
     /\ read_u32(third.data, 4).data = CCDD

WriteBytesTest ==
  LET hello == <<72, 101, 108, 108, 111, 33>>
      first == write_bytes(Fresh, 0, hello)
      second == write_bytes(first.data, 10, <<\hAA, \hBB, \hCC>>)
  IN /\ \A i \in 0..5 : first.data[i] = hello[i + 1]
     /\ <<second.data[10], second.data[11], second.data[12]>> = <<\hAA, \hBB, \hCC>>

OutOfBoundsTest ==
  LET Tag(done) == done.tag
  IN /\ \A addr \in {12, 13, 24} :
          {Tag(read_u32(Fresh, addr)), Tag(write_u32(Fresh, addr, <<0, 0, 0, 0>>))}
            = {IF addr = 12 THEN "Ok" ELSE "OutOfBounds"}
     /\ Tag(write_bytes(Fresh, 15, <<1>>)) = "Ok"
     /\ Tag(write_bytes(Fresh, 16, <<1>>)) = "OutOfBounds"
     /\ Tag(write_bytes(Fresh, 0, [i \in 1..17 |-> 0])) = "OutOfBounds"
     /\ Tag(write_bytes(Fresh, 28, <<>>)) = "Ok"

-----------------------------------------------------------------------------
(* loader.rs and tests/integration_test.rs *)

\* An executable with one segment, at the entry point; its bytes come after
\* the headers, which are HeaderSize bytes of the file.
HeaderSize == 2
build_elf(entry, segment) ==
  [header |-> "valid", entry |-> entry, bytes |-> <<1, 1>> \o segment,
   phdrs |-> <<[load |-> TRUE, offset |-> HeaderSize, vaddr |-> entry,
                filesz |-> Len(segment), memsz |-> Len(segment)]>>]
build_elf_with_machine(entry, segment) ==
  [build_elf(entry, segment) EXCEPT !.header = "machine"]
build_32bit_elf(entry, segment) ==
  [build_elf(entry, segment) EXCEPT !.header = "class32"]

Ret == <<2, 0, 1, 2>>
Loads(f, outcome) == [file |-> f, outcome |-> outcome]

ValidTest == Loads(build_elf(4, Ret), "Ok")
EntryTest == Loads(build_elf(8, Ret), "Ok")
RejectTests ==
  {Loads(build_elf_with_machine(4, <<1, 1, 1, 1>>), "UnsupportedArch"),
   Loads(build_32bit_elf(4, <<0, 0, 0, 0>>), "UnsupportedArch")}
BadFileTests ==
  {Loads([header |-> "short", entry |-> 0, phdrs |-> <<>>, bytes |-> <<1, 1>>],
         "Truncated"),
   Loads([header |-> "magic", entry |-> 0, phdrs |-> <<>>, bytes |-> <<0, 0>>],
         "NotElf")}
LoaderTests == {ValidTest, EntryTest} \cup RejectTests \cup BadFileTests

\* MOVZ X0, #1; ADD X1, X0, #1; HLT, in the words of this instance's Meaning.
MovzX0 == <<1, 1, 0, 0>>
AddX1 == <<1, 0, 1, 0>>
HltWord == <<2, 0, 0, 0>>
IntegrationTest == build_elf(4, MovzX0 \o AddX1 \o HltWord)

TestFiles == {test.file : test \in LoaderTests} \cup {IntegrationTest}

\* What the tests of a valid file assert: the segment is at the entry point.
InMemory(f) == \A i \in 1..Len(f.bytes) - HeaderSize :
                 data[f.entry + i - 1] = f.bytes[i + HeaderSize]

\* The repository's own tests hold of the model: what each operation of memory
\* returns and leaves, which files are rejected and why, and the registers, PC
\* and exit code at the end of the program that is loaded and run.
UnitTestsPass ==
  /\ loading = "no" => ReadWriteTest /\ WriteBytesTest /\ OutOfBoundsTest
  /\ \A test \in LoaderTests :
       elf = test.file /\ loading \notin {"no", "header", "segments"} =>
         /\ loading = test.outcome
         /\ loading = "Ok" => InMemory(elf)
         /\ running /\ result = None => regs.pc = elf.entry
  /\ elf = IntegrationTest /\ ~running /\ result # None =>
       /\ halted
       /\ regs.x[0] = 1 /\ regs.x[1] = 2
       /\ regs.pc = elf.entry + 8
=============================================================================
