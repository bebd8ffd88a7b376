----------------------------- MODULE SimulatorProofs -----------------------------
(***************************************************************************)
(* What load_elf accepts, what it leaves in memory, and what the exit code *)
(* says, for all files and all sizes of memory, on a host whose usize is   *)
(* as wide as an address.  At the end, on any host, the number of steps.   *)
(***************************************************************************)
EXTENDS Simulator, SequenceTheorems, TLAPS

\* A host with a 64-bit usize.
WideHost == UsizeSpace = AddrSpace

-----------------------------------------------------------------------------
(* The two operations of memory that the loader uses *)

\* An address, and the last byte of a range, are converted as they are.
LEMMA WideUsize ==
  ASSUME WideHost, NEW n \in Address
  PROVE  as_usize(n) = n
BY SizesAssumption DEF as_usize, WideHost, Address

LEMMA WideInBounds ==
  ASSUME WideHost, NEW n \in Nat
  PROVE  InBounds(n) <=> n < Size
BY SizesAssumption DEF InBounds, as_usize, WideHost

\* write_bytes of a slice that is not empty.
LEMMA WideWrite ==
  ASSUME WideHost, NEW d, NEW addr \in Address, NEW bytes \in Seq(Byte), bytes # <<>>
  PROVE  write_bytes(d, addr, bytes) =
           IF addr + Len(bytes) <= Size THEN [tag |-> "Ok", data |-> Put(d, addr, bytes)]
           ELSE OutOfBounds(d)
<1> DEFINE end == addr + Len(bytes)
<1>1. Len(bytes) \in Nat /\ Len(bytes) # 0
  BY LenProperties, EmptySeq
<1>2. addr \in Nat /\ end - 1 \in Nat /\ Size < AddrSpace
  BY <1>1, SizesAssumption DEF Address
<1>3. as_usize(addr) = addr
  BY WideUsize
<1>4. InBounds(end - 1) <=> end - 1 < Size
  BY <1>2, WideInBounds
<1>5. end <= Size => end < AddrSpace /\ ~(addr + Len(bytes) > Size)
  BY <1>1, <1>2, SizesAssumption
<1>6. end > Size <=> ~(end - 1 < Size)
  BY <1>1, <1>2, SizesAssumption
<1>7. CASE end <= Size
  BY <1>1, <1>2, <1>3, <1>4, <1>5, <1>6, <1>7, SizesAssumption DEF write_bytes, Slicing
<1>8. CASE ~(end <= Size)
  BY <1>1, <1>2, <1>3, <1>4, <1>5, <1>6, <1>8, SizesAssumption DEF write_bytes, Slicing
<1> QED BY <1>7, <1>8

\* fill_zeros of a range that is not empty.
Cleared(d, addr, n) ==
  [i \in Index |-> IF i \in addr..(addr + n - 1) THEN 0 ELSE d[i]]
LEMMA WideFill ==
  ASSUME WideHost, NEW d, NEW addr \in Address, NEW n \in Nat, n # 0
  PROVE  fill_zeros(d, addr, n) =
           IF addr + n <= Size THEN [tag |-> "Ok", data |-> Cleared(d, addr, n)]
           ELSE OutOfBounds(d)
<1> DEFINE end == addr + n
<1>1. addr \in Nat /\ end - 1 \in Nat /\ Size < AddrSpace
  BY SizesAssumption DEF Address
<1>2. as_usize(addr) = addr
  BY WideUsize
<1>3. InBounds(end - 1) <=> end - 1 < Size
  BY <1>1, WideInBounds
<1>4. CASE end <= Size
  <2>1. ~(end >= AddrSpace \/ ~InBounds(end - 1)) /\ ~(addr + n > Size)
    BY <1>1, <1>3, <1>4, SizesAssumption
  <2> QED BY <1>2, <1>4, <2>1 DEF fill_zeros, Slicing, Cleared
<1>5. CASE ~(end <= Size)
  <2>1. ~InBounds(end - 1)
    BY <1>1, <1>3, <1>5, SizesAssumption
  <2> QED BY <1>5, <2>1 DEF fill_zeros
<1> QED BY <1>4, <1>5

-----------------------------------------------------------------------------
(* One segment *)

\* Where a segment is in memory, what it has there, and whether it can be.
Over(phdr, i) == i \in phdr.vaddr..(phdr.vaddr + Extent(phdr) - 1)
ByteOf(phdr, i) ==
  IF i - phdr.vaddr < phdr.filesz THEN elf.bytes[phdr.offset + (i - phdr.vaddr) + 1]
  ELSE 0
Fits(phdr) ==
  /\ phdr.filesz = 0 \/ phdr.offset + phdr.filesz <= Len(elf.bytes)
  /\ phdr.vaddr + Extent(phdr) <= Size

\* A slice of the file, elf_bytes[off..off + n].
LEMMA SlicePart ==
  ASSUME NEW s \in Seq(Byte), NEW off \in Nat, NEW n \in Nat, n # 0,
         off + n <= Len(s)
  PROVE  LET slice == SubSeq(s, off + 1, off + n)
         IN /\ slice \in Seq(Byte) /\ Len(slice) = n
            /\ \A j \in 1..n : slice[j] = s[off + j]
<1> DEFINE from == off + 1  to == off + n  slice == SubSeq(s, from, to)
<1>1. /\ from \in Int /\ to \in Int /\ from <= to /\ to - from + 1 = n
      /\ \A j \in from..to : j \in 1..Len(s)
      /\ \A j \in 1..n : from + j - 1 = off + j
  BY LenProperties
<1>2. \A j \in from..to : s[j] \in Byte
  BY <1>1, ElementOfSeq
<1> HIDE DEF from, to
<1>3. slice \in Seq(Byte)
  BY <1>1, <1>2, SubSeqProperties
<1>4. Len(slice) = to - from + 1
  BY <1>1, <1>2, SubSeqProperties
<1>5. \A j \in 1..(to - from + 1) : slice[j] = s[from + j - 1]
  BY <1>1, <1>2, SubSeqProperties
<1> HIDE DEF slice
<1>6. Len(slice) = n /\ \A j \in 1..n : slice[j] = s[off + j]
  BY <1>1, <1>4, <1>5
<1> QED BY <1>3, <1>6 DEF from, to, slice

\* The file's part: what Copied makes of a segment.
LEMMA CopiedPart ==
  ASSUME WideHost, elf \in Files, NEW phdr \in ProgramHeader
  PROVE  LET copied == Copied(phdr)
             part == phdr.vaddr..(phdr.vaddr + phdr.filesz - 1)
         IN /\ copied.tag = "Ok" <=>
                 \/ phdr.filesz = 0
                 \/ /\ phdr.offset + phdr.filesz <= Len(elf.bytes)
                    /\ phdr.vaddr + phdr.filesz <= Size
            /\ copied.tag = "Ok" =>
                 \A i \in Index : copied.data[i] =
                   IF i \in part THEN elf.bytes[phdr.offset + (i - phdr.vaddr) + 1]
                   ELSE data[i]
            /\ copied.tag \in {"Ok", "OutOfBounds"}
<1> DEFINE copied == Copied(phdr)
           n == phdr.filesz
           off == phdr.offset
           addr == phdr.vaddr
           slice == SubSeq(elf.bytes, off + 1, off + n)
<1>1. /\ n \in Address /\ off \in Address /\ addr \in Address
      /\ n \in Nat /\ off \in Nat /\ addr \in Nat
  BY SizesAssumption DEF ProgramHeader, Address
<1>2. /\ elf.bytes \in Seq(Byte) /\ Len(elf.bytes) \in Nat
      /\ Len(elf.bytes) < UsizeSpace
  <2>1. elf.bytes \in Seq(Byte) /\ Len(elf.bytes) < UsizeSpace
    BY FilesAssumption
  <2> QED BY <2>1, LenProperties
<1>3. FileEnd(phdr) = off + n
  BY <1>1, WideUsize DEF FileEnd
<1>4. as_usize(off) = off
  BY <1>1, WideUsize
<1>5. CASE n = 0
  <2>1. copied = [tag |-> "Ok", data |-> data]
    BY <1>5 DEF Copied
  <2>2. addr..(addr + n - 1) = {}
    BY <1>1, <1>5
  <2> QED BY <1>5, <2>1, <2>2
<1>6. CASE n # 0 /\ ~(off + n <= Len(elf.bytes))
  <2>1. copied = OutOfBounds(data)
    BY <1>1, <1>2, <1>3, <1>6 DEF Copied
  <2> QED BY <1>6, <2>1 DEF OutOfBounds
<1>7. CASE n # 0 /\ off + n <= Len(elf.bytes)
  <2>1. /\ slice \in Seq(Byte) /\ Len(slice) = n
        /\ \A j \in 1..n : slice[j] = elf.bytes[off + j]
    BY <1>1, <1>2, <1>7, SlicePart
  <2>2. ~(off + n >= UsizeSpace \/ off + n > Len(elf.bytes))
    BY <1>1, <1>2, <1>7, SizesAssumption
  <2>3. copied = write_bytes(data, addr, slice)
    BY <1>3, <1>4, <1>7, <2>2 DEF Copied
  <2> HIDE DEF slice, copied
  <2>4. slice # <<>>
    BY <1>7, <2>1
  <2>5. copied = IF addr + n <= Size THEN [tag |-> "Ok", data |-> Put(data, addr, slice)]
                 ELSE OutOfBounds(data)
    BY <1>1, <2>1, <2>3, <2>4, WideWrite
  <2>6. ASSUME NEW i \in Index
        PROVE  Put(data, addr, slice)[i] =
                 IF i \in addr..(addr + n - 1) THEN elf.bytes[off + (i - addr) + 1]
                 ELSE data[i]
    <3>1. i \in addr..(addr + n - 1) =>
            i - addr + 1 \in 1..n /\ off + (i - addr + 1) = off + (i - addr) + 1
      BY <1>1, SizesAssumption DEF Index
    <3> QED BY <2>1, <3>1 DEF Put
  <2> QED BY <1>7, <2>5, <2>6 DEF OutOfBounds, copied
<1> QED BY <1>1, <1>5, <1>6, <1>7

\* A segment is loaded exactly when it fits, and then memory is what it was
\* outside of it.
LEMMA SegmentLoaded ==
  ASSUME WideHost, elf \in Files, NEW phdr \in ProgramHeader, ~Skipped(phdr)
  PROVE  LET done == Extended(phdr, Copied(phdr))
         IN /\ done.tag = "Ok" <=> Fits(phdr)
            /\ done.tag = "Ok" =>
                 \A i \in Index : done.data[i] =
                   IF Over(phdr, i) THEN ByteOf(phdr, i) ELSE data[i]
            /\ done.tag \in {"Ok", "OutOfBounds"}
<1> DEFINE copied == Copied(phdr)
           done == Extended(phdr, copied)
           n == phdr.filesz
           m == phdr.memsz
           off == phdr.offset
           addr == phdr.vaddr
<1>1. /\ n \in Address /\ m \in Address /\ off \in Address /\ addr \in Address
      /\ n \in Nat /\ m \in Nat /\ off \in Nat /\ addr \in Nat
  BY SizesAssumption DEF ProgramHeader, Address
<1>2. /\ copied.tag = "Ok" <=>
           n = 0 \/ (off + n <= Len(elf.bytes) /\ addr + n <= Size)
      /\ copied.tag = "Ok" =>
           \A i \in Index : copied.data[i] =
             IF i \in addr..(addr + n - 1) THEN elf.bytes[off + (i - addr) + 1]
             ELSE data[i]
      /\ copied.tag \in {"Ok", "OutOfBounds"}
  BY CopiedPart
<1>3. n # 0 \/ m # 0
  BY DEF Skipped
<1> HIDE DEF copied
<1>4. CASE copied.tag # "Ok"
  <2>1. done = copied
    BY <1>4 DEF Extended
  <2>2. ~Fits(phdr)
    <3>1. Extent(phdr) \in Nat /\ n <= Extent(phdr)
      BY <1>1 DEF Extent
    <3> QED BY <1>1, <1>2, <1>4, <3>1, SizesAssumption DEF Fits
  <2> QED BY <1>2, <1>4, <2>1, <2>2 DEF copied
<1>5. CASE copied.tag = "Ok" /\ m <= n
  <2>1. done = copied
    BY <1>5 DEF Extended
  <2>2. Extent(phdr) = n /\ n # 0
    BY <1>1, <1>3, <1>5 DEF Extent
  <2>3. Fits(phdr)
    BY <1>2, <1>5, <2>2 DEF Fits
  <2>4. ASSUME NEW i \in Index
        PROVE  copied.data[i] = IF Over(phdr, i) THEN ByteOf(phdr, i) ELSE data[i]
    <3>1. i \in addr..(addr + n - 1) => i - addr < n
      BY <1>1, SizesAssumption DEF Index
    <3> QED BY <1>2, <1>5, <2>2, <3>1 DEF Over, ByteOf
  <2> QED BY <1>5, <2>1, <2>3, <2>4 DEF copied
<1>6. CASE copied.tag = "Ok" /\ ~(m <= n)
  <2>1. /\ Extent(phdr) = m /\ m - n \in Nat /\ m - n # 0
        /\ m - n \in Address
    BY <1>1, <1>6, SizesAssumption DEF Extent, Address
  <2>2. as_usize(m - n) = m - n
    BY <2>1, WideUsize
  <2>3. CASE addr + n >= AddrSpace
    <3>1. done = OutOfBounds(copied.data)
      BY <1>6, <2>3 DEF Extended
    <3>2. ~Fits(phdr)
      BY <1>1, <1>6, <2>1, <2>3, SizesAssumption DEF Fits
    <3> QED BY <3>1, <3>2 DEF OutOfBounds, copied
  <2>4. CASE ~(addr + n >= AddrSpace)
    <3>1. done = fill_zeros(copied.data, addr + n, m - n)
      BY <1>6, <2>2, <2>4 DEF Extended
    <3>2. addr + n \in Address /\ addr + n + (m - n) = addr + m
      BY <1>1, <2>4, SizesAssumption DEF Address
    <3>3. done = IF addr + m <= Size
                 THEN [tag |-> "Ok", data |-> Cleared(copied.data, addr + n, m - n)]
                 ELSE OutOfBounds(copied.data)
      BY <2>1, <3>1, <3>2, WideFill
    <3>4. Fits(phdr) <=> addr + m <= Size
      BY <1>1, <1>2, <1>6, <2>1, SizesAssumption DEF Fits
    <3>5. ASSUME NEW i \in Index
          PROVE  Cleared(copied.data, addr + n, m - n)[i] =
                   IF Over(phdr, i) THEN ByteOf(phdr, i) ELSE data[i]
      <4>1. i \in Nat
        BY SizesAssumption DEF Index
      <4>2. CASE i \in (addr + n)..(addr + n + (m - n) - 1)
        <5>1. Over(phdr, i) /\ ~(i - addr < n)
          BY <1>1, <2>1, <4>1, <4>2 DEF Over
        <5> QED BY <4>2, <5>1 DEF Cleared, ByteOf
      <4>3. CASE i \in addr..(addr + n - 1)
        <5>1. Over(phdr, i) /\ i - addr < n /\ i \notin (addr + n)..(addr + n + (m - n) - 1)
          BY <1>1, <1>6, <2>1, <4>1, <4>3 DEF Over
        <5> QED BY <1>2, <1>6, <4>3, <5>1 DEF Cleared, ByteOf
      <4>4. CASE /\ i \notin (addr + n)..(addr + n + (m - n) - 1)
                 /\ i \notin addr..(addr + n - 1)
        <5>1. ~Over(phdr, i)
          BY <1>1, <1>6, <2>1, <4>1, <4>4 DEF Over
        <5> QED BY <1>2, <1>6, <4>4, <5>1 DEF Cleared
      <4> QED BY <4>2, <4>3, <4>4
    <3> QED BY <3>3, <3>4, <3>5 DEF OutOfBounds, copied
  <2> QED BY <2>3, <2>4
<1> QED BY <1>4, <1>5, <1>6 DEF copied

-----------------------------------------------------------------------------
(* The loop over the program headers *)

\* The segments before the n-th header.
Before(n) == {k \in Segments : k < n}

\* Memory holds, in each byte, what the last of them over it has there.
ImageBefore(n) ==
  \A i \in Index :
    \/ /\ \A k \in Before(n) : ~Over(elf.phdrs[k], i)
       /\ data[i] = 0
    \/ \E k \in Before(n) :
         /\ Over(elf.phdrs[k], i)
         /\ data[i] = ByteOf(elf.phdrs[k], i)
         /\ \A j \in Before(n) : Over(elf.phdrs[j], i) => j <= k

Loaded(n) ==
  /\ any_loaded <=> Before(n) # {}
  /\ \A k \in Before(n) : Fits(elf.phdrs[k])
  /\ ImageBefore(n)

Errors == {"Truncated", "NotElf", "UnsupportedArch", "NoLoadableSegments",
           "SegmentDataOutOfBounds"}
Headers == Len(elf.phdrs)

\* The inductive invariant.
LoadInv ==
  /\ elf \in Files
  /\ next \in 1..(Headers + 1)
  /\ loading \in {"no", "header", "segments", "Ok"} \cup Errors
  /\ loading \in {"no", "header"} => next = 1 /\ ~any_loaded /\ data = Zeroed
  /\ loading = "segments" => elf.header = "valid" /\ Loaded(next)
  /\ loading = "Ok" => Loadable /\ ImageBefore(Headers + 1)
  /\ loading \in Errors => ~Loadable
  /\ running \/ result # None => loading = "Ok"

LEMMA FileFields ==
  ASSUME elf \in Files
  PROVE  /\ elf.header \in DOMAIN HeaderError
         /\ elf.phdrs \in Seq(ProgramHeader) /\ Headers \in Nat
         /\ DOMAIN elf.phdrs = 1..Headers
         /\ \A k \in 1..Headers : elf.phdrs[k] \in ProgramHeader
<1>1. elf.header \in DOMAIN HeaderError /\ elf.phdrs \in Seq(ProgramHeader)
  BY FilesAssumption
<1> QED BY <1>1, LenProperties, ElementOfSeq DEF Headers

LEMMA InitLoadInv == Init => LoadInv
<1> SUFFICES ASSUME Init PROVE LoadInv
  OBVIOUS
<1>1. elf \in Files /\ next = 1 /\ data = Zeroed /\ ~any_loaded /\ loading = "no"
  BY DEF Init, LoaderInit
<1>2. Headers \in Nat
  BY <1>1, FileFields
<1>3. ~running /\ result = None
  BY DEF Init, Core!New
<1> QED BY <1>1, <1>2, <1>3 DEF LoadInv, Errors

\* Where nothing has been loaded, memory is zeroed.
LEMMA NothingBefore ==
  ASSUME elf \in Files, data = Zeroed, ~any_loaded PROVE Loaded(1)
<1>1. Before(1) = {}
  <2>1. \A k \in Segments : k \in Nat /\ k # 0
    BY FileFields DEF Segments
  <2> QED BY <2>1 DEF Before
<1>2. \A i \in Index : data[i] = 0
  BY DEF Zeroed
<1> QED BY <1>1, <1>2 DEF Loaded, ImageBefore

LEMMA HeaderKeeps ==
  ASSUME LoadInv, CheckHeader, UNCHANGED cpuVars PROVE LoadInv'
<1>1. /\ next = 1 /\ data = Zeroed /\ ~any_loaded /\ loading = "header"
      /\ elf' = elf /\ next' = next /\ any_loaded' = any_loaded /\ data' = data
      /\ ~running /\ result = None
      /\ running' = running /\ result' = result
  BY DEF LoadInv, CheckHeader, LoadFails, cpuVars
<1>2. elf.header \in DOMAIN HeaderError /\ Headers \in Nat
  BY FileFields DEF LoadInv
<1>3. CASE HeaderError[elf.header] # "none" /\ loading' = HeaderError[elf.header]
  <2>1. elf.header # "valid" /\ HeaderError[elf.header] \in Errors
    BY <1>2, <1>3 DEF HeaderError, Errors
  <2>2. ~Loadable'
    BY <1>1, <2>1 DEF Loadable
  <2> QED BY <1>1, <1>2, <1>3, <2>1, <2>2 DEF LoadInv, Errors, Headers
<1>4. CASE elf.phdrs = <<>> /\ loading' = "NoLoadableSegments"
  <2>1. Segments = {}
    BY <1>4 DEF Segments
  <2>2. ~Loadable'
    BY <1>1, <2>1 DEF Loadable, Segments
  <2> QED BY <1>1, <1>2, <1>4, <2>2 DEF LoadInv, Errors, Headers
<1>5. CASE elf.header = "valid" /\ loading' = "segments"
  <2>1. Loaded(1)
    BY <1>1, NothingBefore DEF LoadInv
  <2>2. Loaded(next)'
    BY <1>1, <2>1 DEF Loaded, ImageBefore, Before, Segments, Over, ByteOf, Fits
  <2> QED BY <1>1, <1>2, <1>5, <2>2 DEF LoadInv, Errors, Headers
<1> QED BY <1>3, <1>4, <1>5 DEF CheckHeader, LoadFails

\* The segments before the next header, when it is skipped and when not.
LEMMA OneSegmentMore ==
  ASSUME elf \in Files, next \in 1..Headers
  PROVE  /\ next \in DOMAIN elf.phdrs /\ Current \in ProgramHeader
         /\ Before(next + 1) = IF Skipped(Current) THEN Before(next)
                               ELSE Before(next) \cup {next}
         /\ \A k \in Before(next) : k \in Nat /\ k < next
<1>1. DOMAIN elf.phdrs = 1..Headers /\ Headers \in Nat
      /\ \A k \in 1..Headers : elf.phdrs[k] \in ProgramHeader
  BY FileFields
<1>2. \A k \in 1..Headers : k < next + 1 <=> k < next \/ k = next
  BY <1>1
<1> QED BY <1>1, <1>2 DEF Before, Segments, Current

\* A segment that is loaded is put over the image of those before it.
LEMMA ImageGrows ==
  ASSUME LoadInv, loading = "segments", next \in 1..Headers, ~Skipped(Current),
         LET done == Extended(Current, Copied(Current))
         IN done.tag = "Ok" /\ data' = done.data,
         WideHost, elf' = elf, next' = next + 1
  PROVE  ImageBefore(next)'
<1>1. /\ Current \in ProgramHeader /\ Before(next + 1) = Before(next) \cup {next}
      /\ \A k \in Before(next) : k \in Nat /\ k < next
      /\ ImageBefore(next) /\ next \in Nat
  BY OneSegmentMore DEF LoadInv, Loaded
<1>2. \A i \in Index : data'[i] = IF Over(Current, i) THEN ByteOf(Current, i) ELSE data[i]
  BY <1>1, SegmentLoaded DEF LoadInv
<1>3. /\ Before(next)' = Before(next) \cup {next}
      /\ \A k : elf'.phdrs[k] = elf.phdrs[k]
      /\ Current = elf.phdrs[next]
  BY <1>1 DEF Before, Segments, Current
<1>4. ASSUME NEW i \in Index, Over(Current, i)
      PROVE  /\ Over(elf.phdrs[next], i)
             /\ data'[i] = ByteOf(elf.phdrs[next], i)
             /\ \A j \in Before(next) \cup {next} : j <= next
  BY <1>1, <1>2, <1>3, <1>4
<1>5. ASSUME NEW i \in Index, ~Over(Current, i),
             \A k \in Before(next) : ~Over(elf.phdrs[k], i), data[i] = 0
      PROVE  /\ \A k \in Before(next) \cup {next} : ~Over(elf.phdrs[k], i)
             /\ data'[i] = 0
  BY <1>2, <1>3, <1>5
<1>6. ASSUME NEW i \in Index, ~Over(Current, i), NEW k \in Before(next),
             Over(elf.phdrs[k], i), data[i] = ByteOf(elf.phdrs[k], i),
             \A j \in Before(next) : Over(elf.phdrs[j], i) => j <= k
      PROVE  /\ k \in Before(next) \cup {next}
             /\ data'[i] = ByteOf(elf.phdrs[k], i)
             /\ \A j \in Before(next) \cup {next} : Over(elf.phdrs[j], i) => j <= k
  BY <1>2, <1>3, <1>6
<1>7. ASSUME NEW i \in Index
      PROVE  \/ /\ \A k \in Before(next) \cup {next} : ~Over(elf.phdrs[k], i)
                /\ data'[i] = 0
             \/ \E k \in Before(next) \cup {next} :
                  /\ Over(elf.phdrs[k], i)
                  /\ data'[i] = ByteOf(elf.phdrs[k], i)
                  /\ \A j \in Before(next) \cup {next} : Over(elf.phdrs[j], i) => j <= k
  <2>1. CASE Over(Current, i)
    BY <1>4, <2>1
  <2>2. CASE ~Over(Current, i)
    BY <1>1, <1>5, <1>6, <2>2 DEF ImageBefore
  <2> QED BY <2>1, <2>2
<1> QED BY <1>3, <1>7 DEF ImageBefore, Over, ByteOf, Extent

LEMMA SegmentKeeps ==
  ASSUME WideHost, LoadInv, LoadSegment, UNCHANGED cpuVars PROVE LoadInv'
<1>1. /\ elf \in Files /\ loading = "segments" /\ next \in 1..Headers
      /\ elf' = elf /\ elf.header = "valid" /\ Loaded(next)
      /\ ~running /\ result = None /\ running' = running /\ result' = result
      /\ Headers \in Nat /\ Headers' = Headers
  <2>1. elf \in Files /\ loading = "segments" /\ next \in 1..(Headers + 1)
        /\ next <= Headers /\ elf' = elf
    BY DEF LoadInv, LoadSegment, LoadFails, Headers
  <2>2. Headers \in Nat
    BY <2>1, FileFields
  <2> QED BY <2>1, <2>2 DEF LoadInv, cpuVars, Headers
<1>2. /\ next \in DOMAIN elf.phdrs /\ Current \in ProgramHeader
      /\ Before(next + 1) = IF Skipped(Current) THEN Before(next)
                            ELSE Before(next) \cup {next}
  BY <1>1, OneSegmentMore
<1>3. CASE Skipped(Current)
  <2>1. /\ next' = next + 1 /\ data' = data /\ any_loaded' = any_loaded
        /\ loading' = loading
    BY <1>3 DEF LoadSegment
  <2>2. Before(next)' = Before(next)
    BY <1>1, <1>2, <1>3, <2>1 DEF Before, Segments
  <2>3. Loaded(next)'
    BY <1>1, <2>1, <2>2 DEF Loaded, ImageBefore, Over, ByteOf, Fits
  <2> QED BY <1>1, <2>1, <2>3 DEF LoadInv, Errors
<1> DEFINE done == Extended(Current, Copied(Current))
<1>4. CASE ~Skipped(Current) /\ done.tag = "Ok"
  <2>1. /\ next' = next + 1 /\ data' = done.data /\ any_loaded' = TRUE
        /\ loading' = loading
    BY <1>4 DEF LoadSegment
  <2>2. Before(next)' = Before(next) \cup {next}
    BY <1>1, <1>2, <1>4, <2>1 DEF Before, Segments
  <2>3. Fits(Current)
    BY <1>1, <1>2, <1>4, SegmentLoaded
  <2>4. \A k \in Before(next) \cup {next} : Fits(elf.phdrs[k])
    BY <1>1, <2>3 DEF Loaded, Current
  <2>5. \A k \in Before(next)' : Fits(elf.phdrs[k])'
    BY <1>1, <2>2, <2>4 DEF Fits
  <2>6. ImageBefore(next)'
    BY <1>1, <1>4, <2>1, ImageGrows
  <2>7. Loaded(next)'
    BY <2>1, <2>2, <2>5, <2>6 DEF Loaded
  <2> QED BY <1>1, <2>1, <2>7 DEF LoadInv, Errors
<1>5. CASE ~Skipped(Current) /\ done.tag # "Ok"
  <2>0. done.tag = "OutOfBounds"
    BY <1>1, <1>2, <1>5, SegmentLoaded
  <2>1. next' = next /\ loading' = "SegmentDataOutOfBounds"
    BY <1>5, <2>0 DEF LoadSegment, LoadFails
  <2>2. ~Fits(elf.phdrs[next]) /\ next \in Segments
    BY <1>1, <1>2, <1>5, SegmentLoaded DEF Current, Segments
  <2>3. ~Loadable
    BY <2>2 DEF Loadable, Fits
  <2>4. ~Loadable'
    BY <1>1, <2>3 DEF Loadable, Segments
  <2> QED BY <1>1, <2>1, <2>4 DEF LoadInv, Errors
<1> QED BY <1>3, <1>4, <1>5

LEMMA ReturnKeeps ==
  ASSUME LoadInv, LoaderReturns, UNCHANGED cpuVars PROVE LoadInv'
<1>1. /\ elf \in Files /\ loading = "segments" /\ next = Headers + 1
      /\ elf' = elf /\ next' = next /\ data' = data /\ any_loaded' = any_loaded
      /\ elf.header = "valid" /\ Loaded(next)
      /\ ~running /\ result = None /\ running' = running /\ result' = result
      /\ loading' = IF any_loaded THEN "Ok" ELSE "NoLoadableSegments"
  <2>1. next \in 1..(Headers + 1) /\ next > Headers /\ Headers \in Nat
    BY FileFields DEF LoadInv, LoaderReturns, Headers
  <2> QED BY <2>1 DEF LoadInv, LoaderReturns, cpuVars
<1>2. Before(next) = Segments
  <2>1. Headers \in Nat /\ \A k \in Segments : k \in 1..Headers
    BY <1>1, FileFields DEF Segments
  <2> QED BY <1>1, <2>1 DEF Before
<1>3. any_loaded <=> Loadable
  BY <1>1, <1>2 DEF Loaded, Loadable, Fits
<1>4. /\ Loadable' <=> Loadable
      /\ Headers' = Headers
      /\ ImageBefore(Headers + 1)' <=> ImageBefore(Headers + 1)
  BY <1>1 DEF Loadable, Segments, Headers, ImageBefore, Before, Over, ByteOf
<1> QED BY <1>1, <1>3, <1>4 DEF LoadInv, Loaded, Errors

LEMMA NextLoadInv == ASSUME WideHost, LoadInv, [Next]_vars PROVE LoadInv'
<1>1. ASSUME UNCHANGED <<elf, data, next, any_loaded, loading>>,
             running' \/ result' # None => loading = "Ok"
      PROVE  LoadInv'
  BY <1>1 DEF LoadInv, Errors, Headers, Loaded, ImageBefore, Before, Segments, Over,
              ByteOf, Fits, Loadable
<1>2. CASE NoFile \/ LoadFailed \/ CpuStopped \/ Panicked
  BY <1>1, <1>2
     DEF NoFile, LoadFailed, CpuStopped, Panicked, Exit, loaderVars, cpuVars, LoadInv
<1>3. CASE StartCpu
  BY <1>1, <1>3 DEF StartCpu, loaderVars, LoadInv
<1>4. CASE Run
  <2>1. running
    BY <1>4 DEF Run, Core!RunLoop
  <2> QED BY <1>1, <1>4, <2>1 DEF Run, loaderVars, LoadInv
<1>5. CASE Load
  <2>1. CASE CallLoader
    BY <1>5, <2>1 DEF Load, CallLoader, cpuVars, LoadInv, Errors, Headers
  <2> QED BY <1>5, <2>1, HeaderKeeps, SegmentKeeps, ReturnKeeps DEF Load, LoaderStep
<1>6. CASE UNCHANGED vars
  BY <1>1, <1>6 DEF vars, LoadInv
<1> QED BY <1>2, <1>3, <1>4, <1>5, <1>6 DEF Next

LEMMA LoadInvariance == ASSUME WideHost PROVE Spec => []LoadInv
BY InitLoadInv, NextLoadInv, PTL DEF Spec

-----------------------------------------------------------------------------
(* Theorems *)

\* For all files and sizes of memory, load_elf succeeds exactly on the files it
\* should accept, and nothing of another one is ever executed.
THEOREM OnlyLoadableRunsHolds == ASSUME WideHost PROVE Spec => []OnlyLoadableRuns
<1>1. LoadInv => OnlyLoadableRuns
  BY DEF LoadInv, OnlyLoadableRuns, Errors
<1> QED BY <1>1, LoadInvariance, PTL

\* For all files, any number of segments and any overlaps, a loaded image holds
\* in each byte what the last segment over it has there.
THEOREM ImageIsTheFilesHolds == ASSUME WideHost PROVE Spec => []ImageIsTheFiles
<1>1. ASSUME LoadInv, loading = "Ok", NEW i \in Index
      PROVE  IF Covering(i) = {} THEN data[i] = 0
             ELSE LET top == CHOOSE k \in Covering(i) : \A j \in Covering(i) : j <= k
                      phdr == elf.phdrs[top]
                      at == i - phdr.vaddr
                  IN data[i] = IF at < phdr.filesz THEN elf.bytes[phdr.offset + at + 1]
                               ELSE 0
  <2>1. \A k \in Segments : k \in Nat /\ k \in Before(Headers + 1)
    <3>1. Headers \in Nat /\ \A k \in Segments : k \in 1..Headers
      BY <1>1, FileFields DEF Segments, LoadInv
    <3> QED BY <3>1 DEF Before
  <2>2. Covering(i) = {k \in Before(Headers + 1) : Over(elf.phdrs[k], i)}
    BY <2>1 DEF Covering, Over, Before
  <2>3. \/ Covering(i) = {} /\ data[i] = 0
        \/ \E k \in Covering(i) :
             data[i] = ByteOf(elf.phdrs[k], i) /\ \A j \in Covering(i) : j <= k
    BY <1>1, <2>2 DEF LoadInv, ImageBefore
  <2>4. ASSUME NEW k \in Covering(i), \A j \in Covering(i) : j <= k,
               data[i] = ByteOf(elf.phdrs[k], i)
        PROVE  LET top == CHOOSE t \in Covering(i) : \A j \in Covering(i) : j <= t
                   phdr == elf.phdrs[top]
                   at == i - phdr.vaddr
               IN data[i] = IF at < phdr.filesz THEN elf.bytes[phdr.offset + at + 1]
                            ELSE 0
    <3> DEFINE top == CHOOSE t \in Covering(i) : \A j \in Covering(i) : j <= t
    <3>1. top \in Covering(i) /\ \A j \in Covering(i) : j <= top
      BY <2>4
    <3>2. Covering(i) \subseteq Nat
      BY <2>1 DEF Covering
    <3> HIDE DEF top
    <3>3. top = k
      BY <2>4, <3>1, <3>2
    <3> QED BY <2>4, <3>3 DEF ByteOf, top
  <2> QED BY <2>3, <2>4
<1>2. LoadInv => ImageIsTheFiles
  BY <1>1 DEF ImageIsTheFiles
<1> QED BY <1>2, LoadInvariance, PTL

-----------------------------------------------------------------------------
(* The run of the program *)

IsFile(r) == r = [x |-> r.x, sp |-> r.sp, pc |-> r.pc,
                  n |-> r.n, z |-> r.z, c |-> r.c, v |-> r.v]

\* No instruction touches PC.
LEMMA ExecuteKeepsPc ==
  ASSUME NEW r, IsFile(r), NEW ins
  PROVE  /\ IsFile(Core!execute_instruction(r, ins))
         /\ Core!execute_instruction(r, ins).pc = r.pc
<1> DEFINE done == Core!AddSub(ins, Core!Read(r.x, ins.rn))
           w == [r EXCEPT !.x = Core!Write(r.x, ins.rd, done.value)]
           wn == [w EXCEPT !.n = done.n]
           wz == [wn EXCEPT !.z = done.z]
           wc == [wz EXCEPT !.c = done.c]
           wv == [wc EXCEPT !.v = done.v]
           moved == [r EXCEPT !.x =
                       Core!Write(r.x, ins.rd, Core!MovWide(ins, Core!Read(r.x, ins.rd)))]
<1>1. IsFile(w) /\ w.pc = r.pc /\ IsFile(moved) /\ moved.pc = r.pc
  BY DEF IsFile
<1>2. Core!execute_instruction(r, ins) \in {r, w, wv, moved}
  BY DEF Core!execute_instruction
<1> HIDE DEF done, w, moved
<1>3. IsFile(wn) /\ wn.pc = r.pc
  BY <1>1 DEF IsFile
<1> HIDE DEF wn
<1>4. IsFile(wz) /\ wz.pc = r.pc
  BY <1>3 DEF IsFile
<1> HIDE DEF wz
<1>5. IsFile(wc) /\ wc.pc = r.pc
  BY <1>4 DEF IsFile
<1> HIDE DEF wc
<1>6. IsFile(wv) /\ wv.pc = r.pc
  BY <1>5 DEF IsFile
<1> HIDE DEF wv
<1> QED BY <1>1, <1>2, <1>6

\* The CPU fetches from the addresses that have a word.
LEMMA WordsAreFetched ==
  ASSUME WideHost, NEW pc \in Nat
  PROVE  /\ pc \in DOMAIN Program <=> pc + 3 < Size
         /\ Core!OutOfBounds(pc) <=> ~(pc + 3 < Size)
         /\ Core!Fetchable(pc) <=> pc + 3 < Size
         /\ pc + 3 < Size => Core!as_usize(pc) = pc
<1>1. Size \in Nat /\ AddrSpace \in Nat /\ Size < AddrSpace /\ UsizeSpace = AddrSpace
  BY SizesAssumption DEF WideHost
<1>2. pc \in DOMAIN Program <=> pc + 3 < Size
  BY <1>1 DEF Program
<1>3. \A n \in Nat : n < AddrSpace => Core!as_usize(n) = n
  BY <1>1 DEF Core!as_usize
<1>4. Core!OutOfBounds(pc) <=> ~(pc + 3 < Size)
  BY <1>1, <1>3 DEF Core!OutOfBounds
<1>5. pc + 3 < Size => Core!as_usize(pc) = pc
  BY <1>1, <1>3
<1> QED BY <1>1, <1>2, <1>4, <1>5 DEF Core!Fetchable

\* The words before the k-th have been executed, and none of them ends the
\* program.
Reached(k) == regs.pc = elf.entry + 4 * k /\ \A j \in 0..(k - 1) : ~Ends(j)

AtHalt == /\ regs.pc \in DOMAIN Program /\ Program[regs.pc] # Undecodable
          /\ Program[regs.pc].kind = "Hlt"

Ready == ~running /\ result = None /\ ~halted /\ exit = None
Running == running /\ ~halted /\ exit = None /\ \E k \in Nat : Reached(k)
Stopped ==
  /\ ~running /\ result # None
  /\ \E k \in Nat : Reached(k) /\ Ends(k)
  /\ result = "Ok" <=> AtHalt
  /\ exit \in {None, IF result = "Ok" THEN 0 ELSE 1}

RunInv ==
  /\ IsFile(regs)
  /\ halted = FALSE \/ loading = "Ok"
  /\ result # "Panic"
  /\ loading = "Ok" => Ready \/ Running \/ Stopped

\* Nothing but the loader changes the file, the memory or its verdict.
LEMMA SameProgram ==
  ASSUME UNCHANGED <<elf, data>>
  PROVE  /\ Program' = Program
         /\ \A k : Ends(k)' <=> Ends(k)
BY DEF Ends, Program

LEMMA RunStep ==
  ASSUME WideHost, LoadInv, RunInv, Run PROVE RunInv'
<1>0. PICK answer \in Core!Answers :
        /\ Core!StepBody(answer) /\ running' = (answer = "Ok")
        /\ result' = IF answer = "Halt" THEN "Ok" ELSE answer
  BY DEF Run, Core!RunLoop
<1>1. /\ running /\ ~halted /\ exit = None /\ exit' = None /\ loading = "Ok"
      /\ loading' = loading /\ elf' = elf /\ data' = data
      /\ IsFile(regs) /\ elf \in Files
  BY DEF Run, Core!RunLoop, loaderVars, LoadInv, RunInv, Ready, Running, Stopped
<1>2. PICK k \in Nat : Reached(k)
  BY <1>1 DEF RunInv, Ready, Running, Stopped
<1>3. Program' = Program /\ \A j : Ends(j)' <=> Ends(j)
  BY <1>1, SameProgram
<1>4. /\ elf.entry \in Nat /\ regs.pc = elf.entry + 4 * k /\ regs.pc \in Nat
      /\ Size \in Nat /\ AddrSpace \in Nat /\ Size < AddrSpace
  <2>1. elf.entry \in Nat /\ Size \in Nat /\ AddrSpace \in Nat /\ Size < AddrSpace
    BY <1>1, FilesAssumption, SizesAssumption DEF Address
  <2> QED BY <1>2, <2>1 DEF Reached
<1>5. /\ Core!Fetchable(regs.pc) <=> regs.pc \in DOMAIN Program
      /\ Core!OutOfBounds(regs.pc) <=> regs.pc \notin DOMAIN Program
      /\ Core!Fetchable(regs.pc) => Core!FetchedWord = Program[regs.pc]
  BY <1>4, WordsAreFetched DEF Core!FetchedWord
<1>6. Ends(k) <=> \/ regs.pc \notin DOMAIN Program \/ Program[regs.pc] = Undecodable
                  \/ Program[regs.pc].kind = "Hlt"
  BY <1>4 DEF Ends
<1>7. ASSUME regs' = regs, ~AtHalt, Ends(k), halted' = halted,
             answer \in {"MemoryFault", "UnknownInstruction"}
      PROVE  RunInv'
  <2>1. Reached(k)' /\ Ends(k)' /\ ~AtHalt'
    BY <1>1, <1>2, <1>3, <1>7 DEF Reached, AtHalt
  <2>2. ~running' /\ result' # None /\ result' # "Ok" /\ result' # "Panic"
    BY <1>0, <1>7, NoneAssumption
  <2>3. Stopped'
    BY <1>1, <2>1, <2>2 DEF Stopped
  <2> QED BY <1>1, <1>7, <2>2, <2>3 DEF RunInv
<1>8. CASE Core!OutOfBounds(regs.pc) /\ Core!Fails("MemoryFault", answer)
  BY <1>5, <1>6, <1>7, <1>8 DEF Core!Fails, AtHalt
<1>9. CASE /\ Core!Fetchable(regs.pc) /\ Program[regs.pc] = Undecodable
           /\ Core!Fails("UnknownInstruction", answer)
  BY <1>6, <1>7, <1>9 DEF Core!Fails, AtHalt
<1>10. CASE /\ Core!Fetchable(regs.pc) /\ Program[regs.pc] # Undecodable
            /\ Core!Completes(Program[regs.pc], answer)
  <2> DEFINE ins == Program[regs.pc]
             after == Core!execute_instruction(regs, ins)
             moved == [after EXCEPT !.pc = (regs.pc + 4) % AddrSpace]
  <2>1. IsFile(after) /\ after.pc = regs.pc
    BY <1>1, ExecuteKeepsPc
  <2>2. /\ halted' = (ins.kind = "Hlt")
        /\ regs' = IF halted' THEN after ELSE moved
        /\ answer = IF halted' THEN "Halt" ELSE "Ok"
    BY <1>1, <1>10 DEF Core!Completes, Core!Halts
  <2> HIDE DEF after
  <2>3. IsFile(moved) /\ moved.pc = (regs.pc + 4) % AddrSpace
    BY <2>1 DEF IsFile
  <2> HIDE DEF moved
  <2>4. CASE ins.kind = "Hlt"
    <3>1. Reached(k)' /\ Ends(k)' /\ AtHalt'
      BY <1>1, <1>2, <1>3, <1>5, <1>6, <1>10, <2>1, <2>2, <2>4 DEF Reached, AtHalt
    <3>2. ~running' /\ result' = "Ok" /\ result' # None
      BY <1>0, <2>2, <2>4, NoneAssumption
    <3>3. Stopped'
      BY <1>1, <3>1, <3>2 DEF Stopped
    <3> QED BY <1>1, <2>1, <2>2, <2>4, <3>2, <3>3 DEF RunInv
  <2>5. CASE ins.kind # "Hlt"
    <3>1. ~Ends(k)
      BY <1>5, <1>6, <1>10, <2>5
    <3>2. regs'.pc = regs.pc + 4
      <4>1. regs.pc + 3 < Size
        BY <1>4, <1>10, WordsAreFetched
      <4>2. (regs.pc + 4) % AddrSpace = regs.pc + 4
        BY <1>4, <4>1
      <4> QED BY <2>2, <2>3, <2>5, <4>2
    <3>3. regs'.pc = elf'.entry + 4 * (k + 1)
      BY <1>1, <1>4, <3>2
    <3>4. \A j \in 0..((k + 1) - 1) : ~Ends(j)'
      BY <1>2, <1>3, <3>1 DEF Reached
    <3>5. Reached(k + 1)'
      BY <3>3, <3>4 DEF Reached
    <3>6. running' /\ ~halted' /\ result' = "Ok"
      BY <1>0, <2>2, <2>5
    <3>7. k + 1 \in Nat
      OBVIOUS
    <3>8. Running'
      BY <1>1, <3>5, <3>6, <3>7 DEF Running
    <3> QED BY <1>1, <2>2, <2>3, <2>5, <3>6, <3>8 DEF RunInv
  <2> QED BY <2>4, <2>5
<1> QED BY <1>0, <1>5, <1>8, <1>9, <1>10 DEF Core!StepBody

LEMMA NextRunInv == ASSUME WideHost, LoadInv, RunInv, [Next]_vars PROVE RunInv'
<1>1. ASSUME UNCHANGED <<elf, data, loading, regs, halted, running, result>>,
             loading = "Ok" => Stopped'
      PROVE  RunInv'
  BY <1>1 DEF RunInv, IsFile
<1>2. CASE NoFile \/ LoadFailed
  BY <1>1, <1>2 DEF NoFile, LoadFailed, Exit, loaderVars, cpuVars
<1>3. CASE CpuStopped
  <2>1. /\ UNCHANGED <<elf, data, loading, regs, halted, running, result>>
        /\ ~running /\ result # None /\ exit' = IF result = "Ok" THEN 0 ELSE 1
    BY <1>3 DEF CpuStopped, Exit, loaderVars, cpuVars
  <2>2. ASSUME loading = "Ok" PROVE Stopped'
    <3>1. Stopped
      BY <2>1, <2>2 DEF RunInv, Ready, Running
    <3>2. PICK k \in Nat : Reached(k) /\ Ends(k)
      BY <3>1 DEF Stopped
    <3>3. Reached(k)' /\ Ends(k)' /\ (AtHalt' <=> AtHalt)
      BY <2>1, <3>2, SameProgram DEF Reached, AtHalt
    <3> QED BY <2>1, <3>1, <3>3 DEF Stopped
  <2> QED BY <1>1, <2>1, <2>2
<1>4. CASE StartCpu
  <2>1. /\ UNCHANGED <<elf, data, loading, halted, result, exit>>
        /\ loading = "Ok" /\ exit = None /\ ~running /\ result = None /\ running' = TRUE
        /\ regs' = [regs EXCEPT !.pc = elf.entry]
    BY <1>4 DEF StartCpu, loaderVars
  <2>2. ~halted /\ IsFile(regs) /\ elf \in Files
    BY <2>1 DEF RunInv, Ready, Running, Stopped, LoadInv
  <2>3. IsFile(regs') /\ regs'.pc = elf.entry
    BY <2>1, <2>2 DEF IsFile
  <2>4. elf.entry \in Nat
    BY <2>2, FilesAssumption, SizesAssumption DEF Address
  <2>5. regs'.pc = elf'.entry + 4 * 0 /\ 0 - 1 < 0
    BY <2>1, <2>3, <2>4
  <2>6. Reached(0)'
    BY <2>5 DEF Reached
  <2>7. Running'
    BY <2>1, <2>2, <2>6 DEF Running
  <2> QED BY <2>1, <2>2, <2>3, <2>7 DEF RunInv
<1>5. CASE Run
  BY <1>5, RunStep
<1>6. CASE Load
  <2>1. /\ UNCHANGED <<regs, halted, running, result, exit>> /\ exit = None
        /\ loading # "Ok"
    BY <1>6 DEF Load, cpuVars, CallLoader, LoaderStep, CheckHeader, LoadSegment, LoaderReturns
  <2>2. halted = FALSE /\ ~running /\ result = None
    BY <2>1 DEF RunInv, LoadInv
  <2> QED BY <2>1, <2>2 DEF RunInv, Ready, IsFile
<1>7. CASE UNCHANGED vars
  BY <1>7 DEF vars, RunInv, IsFile, Ready, Running, Stopped, Reached, AtHalt, Ends, Program
<1>8. ~Panicked
  BY DEF Panicked, LoadInv, RunInv, Errors
<1> QED BY <1>2, <1>3, <1>4, <1>5, <1>6, <1>7, <1>8 DEF Next

LEMMA RunInvariance == ASSUME WideHost PROVE Spec => []RunInv
<1>1. Init => RunInv
  BY NoneAssumption DEF Init, LoaderInit, Core!New, RunInv, IsFile
<1> QED BY <1>1, NextRunInv, LoadInvariance, PTL DEF Spec

\* For all files that load, memories of any size and whatever their words decode
\* to, the process ends at the first word from the entry point on that ends the
\* program, and exits with 0 exactly when that is a HLT.
THEOREM ExitIsTheVerdictHolds == ASSUME WideHost PROVE Spec => []ExitIsTheVerdict
<1>1. ASSUME LoadInv, RunInv, exit # None, loading = "Ok"
      PROVE  /\ regs.pc = EndOfProgram
             /\ exit = 0 <=> AtHalt
  <2>1. Stopped /\ elf \in Files
    BY <1>1 DEF RunInv, Ready, Running, LoadInv
  <2>2. PICK k \in Nat : Reached(k) /\ Ends(k)
    BY <2>1 DEF Stopped
  <2>3. elf.entry \in Nat /\ Size \in Nat
    BY <2>1, FilesAssumption, SizesAssumption DEF Address
  <2>4. k \in 0..Size
    <3>1. CASE k = 0
      BY <2>3, <3>1
    <3>2. CASE k # 0
      <4> DEFINE pc == elf.entry + 4 * (k - 1)
      <4>1. pc \in Nat /\ k - 1 \in 0..(k - 1)
        BY <2>3, <3>2
      <4>2. pc \in DOMAIN Program
        BY <2>2, <4>1 DEF Reached, Ends
      <4>3. pc + 3 < Size
        <5> HIDE DEF pc
        <5> QED BY <4>1, <4>2, WordsAreFetched
      <4> QED BY <2>3, <3>2, <4>3
    <3> QED BY <3>1, <3>2
  <2> DEFINE First(n) == Ends(n) /\ \A j \in 0..(n - 1) : ~Ends(j)
             end == CHOOSE n \in 0..Size : First(n)
  <2>5. First(k)
    BY <2>2 DEF Reached
  <2>6. end \in 0..Size /\ First(end)
    BY <2>4, <2>5
  <2> HIDE DEF end
  <2>7. end = k
    BY <2>3, <2>4, <2>5, <2>6
  <2>8. EndOfProgram = elf.entry + 4 * k
    BY <2>7 DEF EndOfProgram, end
  <2>9. exit = 0 <=> result = "Ok"
    BY <1>1, <2>1 DEF Stopped
  <2> QED BY <2>1, <2>2, <2>8, <2>9 DEF Reached, Stopped
<1>2. ASSUME LoadInv, RunInv PROVE ExitIsTheVerdict
  BY <1>1, <1>2 DEF ExitIsTheVerdict, AtHalt
<1> QED BY <1>2, LoadInvariance, RunInvariance, PTL

-----------------------------------------------------------------------------
(* The number of steps *)

\* What bounds the run, on any host: the loop over the program headers, and a
\* CPU that runs only a file that is loaded.
BoundInv ==
  /\ elf \in Files
  /\ next \in 1..(Headers + 1)
  /\ loading \in {"no", "header", "segments", "Ok", "Panic"} \cup Errors
  /\ running \/ result # None => loading = "Ok"
  /\ IsFile(regs) /\ regs.pc \in Nat

LEMMA BoundNumbers ==
  ASSUME BoundInv
  PROVE  /\ Headers \in Nat /\ Size \in Nat /\ AddrSpace \in Nat /\ Size < AddrSpace
         /\ elf.entry \in Nat /\ next \in Nat
         /\ Size \div 4 \in Nat
BY FileFields, FilesAssumption, SizesAssumption DEF BoundInv, Address

\* The words of memory from an address on, and one less for each word.
LEMMA WordsLeft ==
  ASSUME NEW size \in Nat, NEW pc \in Nat
  PROVE  LET left(a) == IF a < size THEN (size - a) \div 4 ELSE 0
         IN /\ left(pc) \in 0..(size \div 4)
            /\ pc + 3 < size => left(pc + 4) = left(pc) - 1
<1> DEFINE left(a) == IF a < size THEN (size - a) \div 4 ELSE 0
<1>1. left(pc) \in 0..(size \div 4)
  OBVIOUS
<1>2. ASSUME pc + 3 < size PROVE left(pc + 4) = left(pc) - 1
  <2>1. CASE pc + 4 < size
    BY <1>2, <2>1
  <2>2. CASE pc + 4 = size
    BY <1>2, <2>2
  <2> QED BY <1>2, <2>1, <2>2
<1> QED BY <1>1, <1>2

\* A number is a multiple and a rest in only one way.
LEMMA RestIs ==
  ASSUME NEW m \in Nat \ {0}, NEW q \in Int, NEW r \in 0..(m - 1), NEW x \in Int,
         x = m * q + r
  PROVE  x % m = r
<1> DEFINE p == x \div m
           s == x % m
<1>1. s \in Nat /\ s < m /\ p \in Int /\ m * p + s = x
  OBVIOUS
<1> HIDE DEF p, s
<1>2. m * (q - p) = s - r /\ m * (p - q) = r - s
  BY <1>1
<1>3. \A d \in Int : d >= 1 => m * d >= m
  OBVIOUS
<1>4. ~(q - p >= 1) /\ ~(p - q >= 1)
  BY <1>1, <1>2, <1>3
<1>5. p = q
  BY <1>1, <1>4
<1> QED BY <1>1, <1>5 DEF s

\* A PC as a usize; after a fetch, four bytes further on too.
LEMMA NextIndex ==
  ASSUME NEW pc \in Nat
  PROVE  /\ as_usize(pc) \in Nat
         /\ Core!Fetchable(pc) =>
              /\ as_usize(pc) + 3 < Size
              /\ (pc + 4) % AddrSpace = pc + 4
              /\ as_usize(pc + 4) = as_usize(pc) + 4
<1> DEFINE m == UsizeSpace
           q == pc \div m
           r == pc % m
<1>1. /\ m \in Nat \ {0} /\ AddrSpace \in Nat /\ AddrSpace % m = 0
      /\ Size \in Nat /\ Size < m
  BY SizesAssumption
<1> HIDE DEF m
<1>2. r \in Nat /\ q \in Int /\ pc = m * q + r
  BY <1>1
<1>3. as_usize(pc) = r /\ as_usize(pc + 4) = (pc + 4) % m
  BY DEF as_usize, m
<1>4. ASSUME Core!Fetchable(pc)
      PROVE  r + 3 < Size /\ (pc + 4) % AddrSpace = pc + 4 /\ (pc + 4) % m = r + 4
  <2>1. pc + 3 < AddrSpace /\ r + 4 <= Size
    BY <1>1, <1>4 DEF Core!Fetchable, Core!OutOfBounds, Core!as_usize, m
  <2> HIDE DEF q, r
  <2> DEFINE t == r + 4
  <2>2. pc + 4 = m * q + t /\ t \in 0..(m - 1) /\ pc + 4 \in Int
    BY <1>1, <1>2, <2>1
  <2> HIDE DEF t
  <2>3. (pc + 4) % m = t
    BY <1>1, <1>2, <2>2, RestIs
  <2>4. pc + 4 # AddrSpace
    BY <1>1, <1>2, <2>3 DEF t
  <2>5. pc + 4 \in 0..(AddrSpace - 1) /\ AddrSpace \in Nat \ {0}
    BY <1>1, <2>1, <2>4
  <2>6. (pc + 4) % AddrSpace = pc + 4
    BY <2>5
  <2> QED BY <1>1, <1>2, <2>1, <2>3, <2>6 DEF t
<1> HIDE DEF r
<1> QED BY <1>2, <1>3, <1>4

\* A step of the loader, which leaves the CPU alone.
LEMMA LoadIsBounded ==
  ASSUME BoundInv, Load
  PROVE  BoundInv' /\ LoaderStepsLeft' \in Nat /\ LoaderStepsLeft' < LoaderStepsLeft
<1>1. /\ elf' = elf /\ UNCHANGED <<regs, running, result>>
      /\ elf \in Files /\ next \in 1..(Headers + 1) /\ Headers \in Nat
      /\ IsFile(regs) /\ regs.pc \in Nat
  BY BoundNumbers
     DEF Load, CallLoader, LoaderStep, CheckHeader, LoadFails, LoadSegment, LoaderReturns,
         cpuVars, BoundInv
<1>2. loading \in {"no", "header", "segments"}
  BY DEF Load, CallLoader, LoaderStep, CheckHeader, LoadSegment, LoaderReturns
<1>3. ~running /\ result = None
  BY <1>2 DEF BoundInv
<1>4. Headers' = Headers
  BY <1>1 DEF Headers
<1>5. /\ next' \in 1..(Headers + 1)
      /\ \/ next' = next /\ loading = "no" /\ loading' = "header"
         \/ next' = next /\ loading = "header" /\ loading' \in {"segments"} \cup Errors
         \/ next' = next + 1 /\ loading = "segments" /\ loading' = loading
         \/ next' = next /\ loading = "segments" /\ loading' \in {"Ok", "Panic"} \cup Errors
  <2>1. CASE CallLoader
    BY <1>1, <2>1 DEF CallLoader
  <2>2. CASE CheckHeader
    <3>1. HeaderError[elf.header] # "none" => HeaderError[elf.header] \in Errors
      BY <1>1, FileFields DEF HeaderError, Errors
    <3> QED BY <1>1, <2>2, <3>1 DEF CheckHeader, LoadFails, Errors
  <2>3. CASE LoadSegment
    <3>1. next + 1 \in 1..(Headers + 1)
      BY <1>1, <2>3 DEF LoadSegment, Headers
    <3> QED BY <1>1, <2>3, <3>1 DEF LoadSegment, LoadFails, Errors
  <2>4. CASE LoaderReturns
    BY <1>1, <2>4 DEF LoaderReturns, Errors
  <2> QED BY <2>1, <2>2, <2>3, <2>4 DEF Load, LoaderStep
<1>6. BoundInv'
  BY <1>1, <1>3, <1>4, <1>5 DEF BoundInv, IsFile, Errors
<1>7. LoaderStepsLeft' \in Nat /\ LoaderStepsLeft' < LoaderStepsLeft
  <2> DEFINE rank(l) == IF l = "no" THEN 3 ELSE IF l = "header" THEN 2
                        ELSE IF l = "segments" THEN 1 ELSE 0
  <2>1. /\ LoaderStepsLeft = (Headers + 1 - next) + rank(loading)
        /\ LoaderStepsLeft' = (Headers + 1 - next') + rank(loading')
    BY <1>1 DEF LoaderStepsLeft, Headers
  <2>2. rank(loading) \in Nat /\ rank(loading') \in Nat
    OBVIOUS
  <2>3. \/ next' = next /\ rank(loading') < rank(loading)
        \/ next' = next + 1 /\ rank(loading') = rank(loading)
    BY <1>5 DEF Errors
  <2> HIDE DEF rank
  <2> QED BY <1>1, <1>5, <2>1, <2>2, <2>3
<1> QED BY <1>6, <1>7

\* A step of the CPU: the next word, or the end.
LEMMA RunIsShort ==
  ASSUME BoundInv, Run
  PROVE  BoundInv' /\ CpuStepsLeft' \in Nat /\ CpuStepsLeft' < CpuStepsLeft
<1>0. PICK answer \in Core!Answers :
        /\ Core!StepBody(answer) /\ running' = (answer = "Ok")
        /\ result' = IF answer = "Halt" THEN "Ok" ELSE answer
  BY DEF Run, Core!RunLoop
<1>1. /\ running /\ UNCHANGED <<elf, data, next, loading, exit>>
      /\ IsFile(regs) /\ regs.pc \in Nat /\ loading = "Ok"
  BY DEF Run, Core!RunLoop, loaderVars, BoundInv
<1>2. Size \in Nat /\ AddrSpace \in Nat /\ as_usize(regs.pc) \in Nat
  BY <1>1, BoundNumbers, NextIndex
<1> DEFINE left(a) == IF a < Size THEN (Size - a) \div 4 ELSE 0
<1>3. left(as_usize(regs.pc)) \in Nat /\ CpuStepsLeft = 1 + left(as_usize(regs.pc))
  BY <1>1, <1>2, WordsLeft DEF CpuStepsLeft
<1>4. ASSUME IsFile(regs'), regs'.pc = regs.pc, answer # "Ok"
      PROVE  BoundInv' /\ CpuStepsLeft' \in Nat /\ CpuStepsLeft' < CpuStepsLeft
  <2>1. BoundInv'
    BY <1>1, <1>4 DEF BoundInv, IsFile, Headers
  <2>2. ~running' /\ result' # None
    BY <1>0, <1>4, NoneAssumption DEF Core!Answers
  <2>3. CpuStepsLeft' = 0
    BY <2>2 DEF CpuStepsLeft
  <2> HIDE DEF left
  <2> QED BY <1>3, <2>1, <2>3
<1>5. CASE \E why \in {"MemoryFault", "UnknownInstruction", "Panic"} : Core!Fails(why, answer)
  BY <1>1, <1>4, <1>5 DEF Core!Fails, IsFile
<1>6. ASSUME Core!Fetchable(regs.pc), NEW ins, Core!Completes(ins, answer)
      PROVE  BoundInv' /\ CpuStepsLeft' \in Nat /\ CpuStepsLeft' < CpuStepsLeft
  <2> DEFINE after == Core!execute_instruction(regs, ins)
             moved == [after EXCEPT !.pc = (regs.pc + 4) % AddrSpace]
  <2>1. IsFile(after) /\ after.pc = regs.pc
    BY <1>1, ExecuteKeepsPc
  <2>2. \/ regs' = after /\ answer = "Halt"
        \/ regs' = moved /\ answer = "Ok"
    BY <1>6 DEF Core!Completes
  <2> HIDE DEF after
  <2>3. IsFile(moved) /\ moved.pc = (regs.pc + 4) % AddrSpace
    BY <2>1 DEF IsFile
  <2> HIDE DEF moved
  <2>4. CASE regs' = after /\ answer = "Halt"
    BY <1>4, <2>1, <2>4
  <2>5. CASE regs' = moved /\ answer = "Ok"
    <3>1. /\ regs'.pc = regs.pc + 4 /\ regs'.pc \in Nat
          /\ as_usize(regs.pc) + 3 < Size
          /\ as_usize(regs'.pc) = as_usize(regs.pc) + 4
      BY <1>1, <1>6, <2>3, <2>5, NextIndex
    <3>2. running'
      BY <1>0, <2>5
    <3>3. /\ left(as_usize(regs'.pc)) = left(as_usize(regs.pc)) - 1
          /\ left(as_usize(regs'.pc)) \in Nat
      <4> DEFINE a == as_usize(regs.pc)
      <4>1. a \in Nat /\ a + 3 < Size /\ a + 4 \in Nat
        BY <1>2, <3>1
      <4> HIDE DEF a
      <4>2. left(a + 4) = left(a) - 1 /\ left(a + 4) \in Nat
        BY <1>2, <4>1, WordsLeft
      <4> QED BY <3>1, <4>2 DEF a
    <3>4. CpuStepsLeft' = 1 + left(as_usize(regs'.pc))
      BY <3>2 DEF CpuStepsLeft, as_usize
    <3>5. BoundInv'
      BY <1>1, <2>3, <2>5, <3>1 DEF BoundInv, IsFile, Headers
    <3> HIDE DEF left
    <3> QED BY <1>3, <3>3, <3>4, <3>5
  <2> QED BY <2>2, <2>4, <2>5
<1> QED BY <1>0, <1>5, <1>6 DEF Core!StepBody

LEMMA StepsAreNatural ==
  ASSUME BoundInv PROVE LoaderStepsLeft \in Nat /\ CpuStepsLeft \in Nat
<1>1. /\ Headers \in Nat /\ next \in 1..(Headers + 1)
      /\ Size \in Nat /\ Size \div 4 \in Nat /\ as_usize(regs.pc) \in Nat
  BY BoundNumbers, NextIndex DEF BoundInv
<1>2. LoaderStepsLeft \in Nat
  <2> DEFINE rank == IF loading = "no" THEN 3 ELSE IF loading = "header" THEN 2
                     ELSE IF loading = "segments" THEN 1 ELSE 0
  <2>1. LoaderStepsLeft = (Headers + 1 - next) + rank
    BY DEF LoaderStepsLeft, Headers
  <2>2. rank \in Nat
    OBVIOUS
  <2> HIDE DEF rank
  <2> QED BY <1>1, <2>1, <2>2
<1>3. CpuStepsLeft \in Nat
  <2> DEFINE pc == as_usize(regs.pc)
  <2>1. pc \in Nat
    BY <1>1
  <2> HIDE DEF pc
  <2>2. (IF pc < Size THEN (Size - pc) \div 4 ELSE 0) \in Nat
    BY <1>1, <2>1, WordsLeft
  <2> QED BY <1>1, <2>2 DEF CpuStepsLeft, pc
<1> QED BY <1>2, <1>3

\* One part of a sum gets smaller.
LEMMA SmallerSum ==
  ASSUME NEW a \in Nat, NEW b \in Nat, a < b, NEW m \in Nat, NEW n \in Nat
  PROVE  /\ (a + m) + n \in 0..(((b + m) + n) - 1)
         /\ (m + a) + n \in 0..(((m + b) + n) - 1)
OBVIOUS

LEMMA StepIsBounded ==
  ASSUME BoundInv, [Next]_vars
  PROVE  BoundInv' /\ [StepsLeft' \in 0..(StepsLeft - 1)]_vars
<1> DEFINE open == IF exit = None THEN 1 ELSE 0
<1>0. LoaderStepsLeft \in Nat /\ CpuStepsLeft \in Nat
  BY StepsAreNatural
<1>1. ASSUME UNCHANGED <<loaderVars, cpuVars>>, exit = None, exit' # None
      PROVE  BoundInv' /\ StepsLeft' \in 0..(StepsLeft - 1)
  <2>1. LoaderStepsLeft' = LoaderStepsLeft /\ CpuStepsLeft' = CpuStepsLeft /\ BoundInv'
    BY <1>1 DEF LoaderStepsLeft, CpuStepsLeft, loaderVars, cpuVars, BoundInv, IsFile, Headers
  <2>2. StepsLeft = LoaderStepsLeft + CpuStepsLeft + 1
    BY <1>1 DEF StepsLeft
  <2>3. StepsLeft' = LoaderStepsLeft + CpuStepsLeft + 0
    BY <1>1, <2>1 DEF StepsLeft
  <2> QED BY <1>0, <2>1, <2>2, <2>3
<1>2. CASE NoFile \/ LoadFailed \/ CpuStopped \/ Panicked
  <2>1. UNCHANGED <<loaderVars, cpuVars>> /\ exit = None /\ exit' \in {0, 1, 101}
    BY <1>2 DEF NoFile, LoadFailed, CpuStopped, Panicked, Exit
  <2> QED BY <1>1, <2>1, NoneAssumption
<1>3. CASE Load
  <2>1. UNCHANGED <<cpuVars, exit>> /\ exit = None
    BY <1>3 DEF Load
  <2>2. BoundInv' /\ LoaderStepsLeft' \in Nat /\ LoaderStepsLeft' < LoaderStepsLeft
    BY <1>3, LoadIsBounded
  <2>3. CpuStepsLeft' = CpuStepsLeft
    BY <2>1 DEF CpuStepsLeft, cpuVars
  <2>4. StepsLeft = LoaderStepsLeft + CpuStepsLeft + 1
    BY <2>1 DEF StepsLeft
  <2>5. StepsLeft' = LoaderStepsLeft' + CpuStepsLeft + 1
    BY <2>1, <2>3 DEF StepsLeft
  <2>6. StepsLeft' \in 0..(StepsLeft - 1)
    BY <1>0, <2>2, <2>4, <2>5, SmallerSum
  <2> QED BY <2>2, <2>6
<1>4. CASE StartCpu
  <2>1. /\ UNCHANGED <<elf, data, next, any_loaded, loading, halted, result, exit>>
        /\ loading = "Ok" /\ exit = None /\ ~running /\ result = None /\ running' = TRUE
        /\ regs' = [regs EXCEPT !.pc = elf.entry]
    BY <1>4 DEF StartCpu, loaderVars
  <2>2. /\ Size \in Nat /\ elf.entry \in Nat /\ IsFile(regs)
    BY BoundNumbers DEF BoundInv
  <2>3. IsFile(regs') /\ regs'.pc = elf.entry
    BY <2>1, <2>2 DEF IsFile
  <2>4. BoundInv'
    BY <2>1, <2>2, <2>3 DEF BoundInv, Headers
  <2>5. LoaderStepsLeft' = LoaderStepsLeft
    BY <2>1 DEF LoaderStepsLeft
  <2>6. CpuStepsLeft = 2 + (Size \div 4)
    BY <2>1 DEF CpuStepsLeft
  <2>7. CpuStepsLeft' \in Nat /\ CpuStepsLeft' < CpuStepsLeft
    <3> DEFINE pc == as_usize(elf.entry)
               left == IF pc < Size THEN (Size - pc) \div 4 ELSE 0
    <3>1. pc \in Nat
      BY <2>2, NextIndex
    <3>2. CpuStepsLeft' = 1 + left
      BY <2>1, <2>3 DEF CpuStepsLeft, as_usize
    <3> HIDE DEF pc
    <3>4. left \in 0..(Size \div 4)
      BY <2>2, <3>1, WordsLeft
    <3>3. Size \div 4 \in Nat
      BY <2>2
    <3> HIDE DEF left
    <3> QED BY <2>6, <3>2, <3>3, <3>4
  <2>8. StepsLeft = LoaderStepsLeft + CpuStepsLeft + 1
    BY <2>1 DEF StepsLeft
  <2>9. StepsLeft' = LoaderStepsLeft + CpuStepsLeft' + 1
    BY <2>1, <2>5 DEF StepsLeft
  <2>10. StepsLeft' \in 0..(StepsLeft - 1)
    BY <1>0, <2>7, <2>8, <2>9, SmallerSum
  <2> QED BY <2>4, <2>10
<1>5. CASE Run
  <2>1. BoundInv' /\ CpuStepsLeft' \in Nat /\ CpuStepsLeft' < CpuStepsLeft
    BY <1>5, RunIsShort
  <2>2. UNCHANGED <<loaderVars, exit>>
    BY <1>5 DEF Run
  <2>3. LoaderStepsLeft' = LoaderStepsLeft
    BY <2>2 DEF LoaderStepsLeft, loaderVars
  <2>4. open \in {0, 1}
    OBVIOUS
  <2>5. StepsLeft = LoaderStepsLeft + CpuStepsLeft + open
    BY DEF StepsLeft
  <2>6. StepsLeft' = LoaderStepsLeft + CpuStepsLeft' + open
    BY <2>2, <2>3 DEF StepsLeft
  <2> HIDE DEF open
  <2>7. StepsLeft' \in 0..(StepsLeft - 1)
    BY <1>0, <2>1, <2>4, <2>5, <2>6, SmallerSum
  <2> QED BY <2>1, <2>7
<1>6. CASE UNCHANGED vars
  BY <1>6 DEF vars, BoundInv, IsFile, Headers
<1> QED BY <1>2, <1>3, <1>4, <1>5, <1>6 DEF Next

\* With a usize of any width, though addresses then have aliases in memory, for
\* all files, sizes of memory and meanings of words, main makes at most
\* StepsLeft steps: load_elf and run return or panic, and the process exits.
THEOREM RunIsBoundedHolds == Spec => RunIsBounded
<1>1. Init => BoundInv
  <2> SUFFICES ASSUME Init PROVE BoundInv
    OBVIOUS
  <2>1. elf \in Files /\ next = 1 /\ loading = "no" /\ ~running /\ result = None
    BY DEF Init, LoaderInit, Core!New
  <2>2. Headers \in Nat
    BY <2>1, FileFields
  <2>3. IsFile(regs) /\ regs.pc \in Nat
    BY DEF Init, Core!New, IsFile
  <2> QED BY <2>1, <2>2, <2>3 DEF BoundInv
<1> QED BY <1>1, StepIsBounded, PTL DEF Spec, RunIsBounded
=============================================================================
