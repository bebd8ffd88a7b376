------------------------------ MODULE MCSimulator ------------------------------
(***************************************************************************)
(* Files with up to two program headers: overlapping segments, a BSS, data *)
(* beyond the file or memory, notes, and entry points anywhere, also where *)
(* a 32-bit host takes an address for another one.  Each file is run twice: *)
(* on a host whose usize holds an address, and then on a narrow one.       *)
(***************************************************************************)
EXTENDS SimulatorTests

CONSTANTS bad,
          NarrowUsize  \* values of usize on the narrow host

ASSUME NarrowAssumption ==
  /\ Size < NarrowUsize /\ NarrowUsize < UsizeSpace /\ AddrSpace % NarrowUsize = 0
  /\ \A f \in Files : Len(f.bytes) < NarrowUsize

HLT == [kind |-> "Hlt", imm |-> 0]
ADD(rd, s) == [kind |-> "AddSub", sf |-> TRUE, op |-> FALSE, s |-> s, rd |-> rd,
               rn |-> 0, imm |-> 1, shift |-> FALSE]
MOVZ == [kind |-> "MovWide", sf |-> TRUE, opc |-> 2, hw |-> 0, imm |-> 1, rd |-> 0]
MCInstructions == {ADD(0, TRUE), ADD(1, FALSE), MOVZ, HLT}

\* A word is an instruction by its first byte, unless another byte is 2.
MCMeaning ==
  [w \in [1..4 -> Byte] |->
     IF 2 \in {w[2], w[3], w[4]} \/ w[1] = 0 THEN bad
     ELSE IF w[1] = 2 THEN HLT
     ELSE IF w = MovzX0 THEN MOVZ
     ELSE IF w = AddX1 THEN ADD(1, FALSE)
     ELSE ADD(0, TRUE)]

Phdr(load, offset, vaddr, filesz, memsz) ==
  [load |-> load, offset |-> offset, vaddr |-> vaddr, filesz |-> filesz,
   memsz |-> memsz]
Phdrs == {Phdr(FALSE, 0, 0, 8, 8)} \cup
         {Phdr(TRUE, o, v, f, m) : o \in {0, 4}, v \in {0, 3, 4, 13},
                                   f \in {0, 4, 8}, m \in {0, 5, 8}}
\* Addresses around the ends of the two spaces, and ranges that pass them.
FarAddresses ==
  {AddrSpace - 4, AddrSpace - 2, NarrowUsize - 2, NarrowUsize, NarrowUsize + 4}
FarPhdrs == {Phdr(TRUE, AddrSpace - 2, 0, 4, 4)}
            \cup {Phdr(TRUE, 0, v, 4, m) : v \in FarAddresses, m \in {4, 8}}
            \cup {Phdr(TRUE, 0, v, 0, 5) : v \in FarAddresses}
File(header, entry, phdrs) ==
  [header |-> header, entry |-> entry, phdrs |-> phdrs,
   bytes |-> <<1, 0, 0, 1, 2, 1, 0, 0, 1>>]
MCFiles ==
  {File("valid", e, ps) : e \in {0, 4, 5},
                          ps \in UNION {[1..n -> Phdrs] : n \in 0..1}}
  \cup {File("valid", 0, <<p, q>>) : p \in Phdrs, q \in Phdrs}
  \cup {File(h, 0, <<Phdr(TRUE, 0, 0, 4, 4)>>) : h \in DOMAIN HeaderError}
  \cup {File("valid", 0, <<p>>) : p \in FarPhdrs}
  \cup {File("valid", e, <<Phdr(TRUE, 0, 0, 8, 8)>>) :
           e \in {9, 13, 15} \cup FarAddresses}
  \cup TestFiles

\* The program on the narrow host, with the same file.
VARIABLES narrow_data, narrow_next, narrow_any_loaded, narrow_loading,
          narrow_regs, narrow_halted, narrow_running, narrow_result, narrow_exit

narrowVars == <<narrow_data, narrow_next, narrow_any_loaded, narrow_loading,
                narrow_regs, narrow_halted, narrow_running, narrow_result, narrow_exit>>
bothVars == <<vars, narrowVars>>

Narrow == INSTANCE Simulator WITH
            UsizeSpace <- NarrowUsize, data <- narrow_data, next <- narrow_next,
            any_loaded <- narrow_any_loaded, loading <- narrow_loading,
            regs <- narrow_regs, halted <- narrow_halted, running <- narrow_running,
            result <- narrow_result, exit <- narrow_exit

\* Both start in the same state.
BothInit ==
  /\ Init
  /\ narrow_data = data /\ narrow_next = next /\ narrow_any_loaded = any_loaded
  /\ narrow_loading = loading /\ narrow_regs = regs /\ narrow_halted = halted
  /\ narrow_running = running /\ narrow_result = result /\ narrow_exit = exit
BothNext ==
  \/ Next /\ UNCHANGED narrowVars
  \/ exit # None /\ Narrow!Next /\ UNCHANGED vars
BothSpec == BothInit /\ [][BothNext]_bothVars /\ WF_bothVars(BothNext)

\* The process exits (main.rs), on the wide host and on the narrow one, where a
\* file may be loaded over other addresses, run from another entry point, or
\* make a slice panic.
ExitsOnBothHosts == Exits /\ Narrow!Exits
=============================================================================
