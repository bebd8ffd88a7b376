--------------------------------- MODULE Loader ---------------------------------
(***************************************************************************)
(* simulator/src/loader.rs: load_elf, one action for the checks of the     *)
(* header, one for each program header, one for the answer.  A file is a   *)
(* record: what the first bytes and goblin's parser say of it (`header'),  *)
(* the fields load_elf reads, and its contents.                            *)
(***************************************************************************)
EXTENDS Memory

CONSTANTS Files  \* the files to load

\* What the checks before the program headers make of a file.
HeaderError ==
  [valid |-> "none", short |-> "Truncated", magic |-> "NotElf",
   class32 |-> "UnsupportedArch", bigendian |-> "UnsupportedArch",
   unparsable |-> "NotElf", machine |-> "UnsupportedArch"]

\* p_type, p_offset, p_vaddr, p_filesz and p_memsz of a program header, u64.
ProgramHeader == [load : BOOLEAN, offset : Address, vaddr : Address,
                  filesz : Address, memsz : Address]

ASSUME FilesAssumption ==
  \A f \in Files :
    /\ f.header \in DOMAIN HeaderError
    /\ f.entry \in Address
    /\ f.phdrs \in Seq(ProgramHeader)
    /\ f.bytes \in Seq(Byte)
    /\ Len(f.bytes) < UsizeSpace

VARIABLES elf,         \* the file
          data,        \* Memory.data
          next,        \* the program header to load next
          any_loaded,
          loading      \* "no", "header", "segments", load_elf's result, or
                       \* "Panic" when a slice in it has panicked

loaderVars == <<elf, data, next, any_loaded, loading>>

LoaderInit ==
  /\ elf \in Files
  /\ data = Zeroed
  /\ next = 1
  /\ any_loaded = FALSE
  /\ loading = "no"

\* Memory::new and the call of load_elf.
CallLoader ==
  /\ loading = "no"
  /\ loading' = "header"
  /\ UNCHANGED <<elf, data, next, any_loaded>>

LoadFails(why) == loading' = why /\ UNCHANGED <<elf, next, any_loaded>>

CheckHeader ==
  /\ loading = "header"
  /\ \/ /\ HeaderError[elf.header] # "none"
        /\ LoadFails(HeaderError[elf.header])
     \/ /\ elf.header = "valid"
        /\ elf.phdrs = <<>>
        /\ LoadFails("NoLoadableSegments")
     \/ /\ elf.header = "valid"
        /\ elf.phdrs # <<>>
        /\ loading' = "segments"
        /\ UNCHANGED <<elf, next, any_loaded>>
  /\ UNCHANGED data

Current == elf.phdrs[next]

\* A header that is not PT_LOAD, or has no bytes, is skipped.
Skipped(phdr) == ~phdr.load \/ (phdr.filesz = 0 /\ phdr.memsz = 0)

\* The copy of the file's bytes and then the zeroing of the rest, each with
\* its result.
FileEnd(phdr) == as_usize(phdr.offset) + as_usize(phdr.filesz)
Copied(phdr) ==
  IF phdr.filesz = 0 THEN [tag |-> "Ok", data |-> data]
  ELSE IF FileEnd(phdr) >= UsizeSpace \/ FileEnd(phdr) > Len(elf.bytes)
       THEN OutOfBounds(data)
  ELSE write_bytes(data, phdr.vaddr,
                   SubSeq(elf.bytes, as_usize(phdr.offset) + 1, FileEnd(phdr)))

\* Seeded fault: the segment is zeroed from its beginning.
Extended_FromStart(phdr, copied) ==
  IF copied.tag # "Ok" \/ phdr.memsz <= phdr.filesz THEN copied
  ELSE fill_zeros(copied.data, phdr.vaddr, as_usize(phdr.memsz))
Extended(phdr, copied) ==
  IF copied.tag # "Ok" \/ phdr.memsz <= phdr.filesz THEN copied
  ELSE IF phdr.vaddr + phdr.filesz >= AddrSpace THEN OutOfBounds(copied.data)
  ELSE fill_zeros(copied.data, phdr.vaddr + phdr.filesz,
                  as_usize(phdr.memsz - phdr.filesz))

\* Seeded faults: `continue' before the loop has moved on; a segment that does
\* not fit is left out.
LoadSegment_Stays ==
  /\ loading = "segments"
  /\ next <= Len(elf.phdrs)
  /\ next' = IF Skipped(Current) THEN next ELSE next + 1
  /\ IF Skipped(Current) THEN UNCHANGED <<data, any_loaded>>
     ELSE /\ data' = Extended(Current, Copied(Current)).data
          /\ any_loaded' = TRUE
  /\ loading' = IF ~Skipped(Current) /\ Extended(Current, Copied(Current)).tag # "Ok"
                THEN "SegmentDataOutOfBounds" ELSE loading
  /\ UNCHANGED elf
LoadSegment_Lenient ==
  /\ loading = "segments"
  /\ next <= Len(elf.phdrs)
  /\ next' = next + 1
  /\ IF Skipped(Current) THEN UNCHANGED <<data, any_loaded>>
     ELSE /\ data' = Extended(Current, Copied(Current)).data
          /\ any_loaded' = TRUE
  /\ UNCHANGED <<elf, loading>>

LoadSegment ==
  /\ loading = "segments"
  /\ next <= Len(elf.phdrs)
  /\ \/ /\ Skipped(Current)
        /\ next' = next + 1
        /\ UNCHANGED <<elf, data, any_loaded, loading>>
     \/ /\ ~Skipped(Current)
        /\ LET done == Extended(Current, Copied(Current))
           IN /\ data' = done.data
              /\ \/ /\ done.tag = "Ok"
                    /\ next' = next + 1
                    /\ any_loaded' = TRUE
                    /\ UNCHANGED <<elf, loading>>
                 \/ /\ done.tag = "OutOfBounds"
                    /\ LoadFails("SegmentDataOutOfBounds")
                 \/ /\ done.tag = "Panic"
                    /\ LoadFails("Panic")

LoaderReturns ==
  /\ loading = "segments"
  /\ next > Len(elf.phdrs)
  /\ loading' = IF any_loaded THEN "Ok" ELSE "NoLoadableSegments"
  /\ UNCHANGED <<elf, data, next, any_loaded>>

LoaderStep == CheckHeader \/ LoadSegment \/ LoaderReturns
=============================================================================
