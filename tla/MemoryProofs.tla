------------------------------ MODULE MemoryProofs ------------------------------
(***************************************************************************)
(* For every size of memory, of the address space and of usize: what each  *)
(* call answers, which bytes it writes, and when it panics.  On a host     *)
(* whose usize is as wide as an address, no call panics, the bounds are    *)
(* exact, and a call changes its own range and nothing else.               *)
(***************************************************************************)
EXTENDS MemoryApi, TLAPS

\* A host with a 64-bit usize.
WideHost == UsizeSpace = AddrSpace

-----------------------------------------------------------------------------
(* Addresses *)

\* A number is a multiple and a rest in only one way.
LEMMA RestIs ==
  ASSUME NEW m \in Nat \ {0}, NEW q \in Int, NEW r \in 0..(m - 1), NEW x \in Int,
         x = m * q + r
  PROVE  x % m = r
<1>. DEFINE p == x \div m
           s == x % m
<1>1. s \in Nat /\ s < m /\ p \in Int /\ m * p + s = x
  OBVIOUS
<1>. HIDE DEF p, s
<1>2. m * (q - p) = s - r /\ m * (p - q) = r - s
  BY <1>1
<1>3. \A d \in Int : d >= 1 => m * d >= m
  OBVIOUS
<1>4. ~(q - p >= 1) /\ ~(p - q >= 1)
  BY <1>1, <1>2, <1>3
<1>5. p = q
  BY <1>1, <1>4
<1>. QED BY <1>1, <1>5 DEF s

\* A converted address is an index of some Vec, and the range that starts at it
\* ends at the converted last address unless it crosses a multiple of UsizeSpace.
LEMMA Converted ==
  ASSUME NEW addr \in Nat
  PROVE  /\ as_usize(addr) \in Nat /\ as_usize(addr) < UsizeSpace
         /\ addr < UsizeSpace => as_usize(addr) = addr
         /\ \A n \in Nat \ {0} :
              as_usize(addr) + n <= UsizeSpace
                => as_usize(addr + n - 1) = as_usize(addr) + n - 1
<1>. DEFINE base == addr % UsizeSpace
           q == addr \div UsizeSpace
<1>1. UsizeSpace \in Nat \ {0}
  BY SizesAssumption
<1>2. base \in Nat /\ base < UsizeSpace /\ q \in Int /\ addr = UsizeSpace * q + base
  BY <1>1
<1>. HIDE DEF base, q
<1>3. ASSUME NEW n \in Nat \ {0}, base + n <= UsizeSpace
      PROVE  (addr + n - 1) % UsizeSpace = base + n - 1
  <2>1. /\ addr + n - 1 = UsizeSpace * q + (base + n - 1)
        /\ base + n - 1 \in 0..(UsizeSpace - 1)
        /\ addr + n - 1 \in Int
    BY <1>1, <1>2, <1>3
  <2>. QED BY <1>1, <1>2, <2>1, RestIs
<1>4. ASSUME addr < UsizeSpace PROVE addr % UsizeSpace = addr
  BY <1>1, <1>4
<1>. QED BY <1>2, <1>3, <1>4 DEF as_usize, base

\* A range that is not empty is in memory when its last byte is.
LEMMA SpanIndex ==
  ASSUME NEW addr \in Nat, NEW n \in Nat
  PROVE  Span(addr, n) \subseteq Index <=> n = 0 \/ addr + n <= Size
<1>1. CASE n = 0
  BY <1>1 DEF Span
<1>2. CASE n # 0 /\ addr + n <= Size
  BY <1>2, SizesAssumption DEF Span, Index
<1>3. CASE n # 0 /\ ~(addr + n <= Size)
  <2>1. addr + n - 1 \in Span(addr, n)
    BY <1>3 DEF Span
  <2>2. addr + n - 1 \notin Index
    BY <1>3, SizesAssumption DEF Index
  <2>. QED
    BY <1>3, <2>1, <2>2
<1>. QED
  BY <1>1, <1>2, <1>3

-----------------------------------------------------------------------------
(* Operations *)

\* The outcome of a call on n bytes at addr: success when the converted range is
\* in memory, an error when it is not or the address space ends before it, and a
\* panic only when the range crosses a multiple of UsizeSpace.
Answers(tag, addr, n) ==
  \/ /\ tag = "Ok"
     /\ n = 0 \/ as_usize(addr) + n <= Size
     /\ addr + n <= AddrSpace
  \/ /\ tag = "OutOfBounds"
     /\ n # 0
     /\ as_usize(addr) + n > Size \/ addr + n >= AddrSpace
  \/ /\ tag = "Panic"
     /\ as_usize(addr) + n > UsizeSpace
     /\ addr + n <= AddrSpace

\* What a call answers and leaves in memory.
Written(old, base, n, bytes) ==
  [i \in Index |-> IF i \in Span(base, n) THEN bytes[i - base + 1] ELSE old[i]]
Meets(done, old, addr, n, bytes) ==
  /\ Answers(done.tag, addr, n)
  /\ done.data = IF done.tag = "Ok" THEN Written(old, as_usize(addr), n, bytes) ELSE old

\* The check of the last address and the slice: the same in the four methods.
LEMMA Checked ==
  ASSUME NEW addr \in Nat, NEW n \in Nat \ {0}
  PROVE  LET base == as_usize(addr)
         IN /\ ~InBounds(addr + n - 1) => base + n > Size \/ addr + n > AddrSpace
            /\ InBounds(addr + n - 1) => addr + n <= AddrSpace
            /\ InBounds(addr + n - 1) /\ base + n > Size => base + n > UsizeSpace
<1>. DEFINE base == as_usize(addr)
           last == as_usize(addr + n - 1)
<1>1. base \in Nat /\ (base + n <= UsizeSpace => last = base + n - 1)
  BY Converted
<1>. HIDE DEF base, last
<1>2. /\ Size \in Nat /\ UsizeSpace \in Nat /\ AddrSpace \in Nat
      /\ Size < UsizeSpace /\ UsizeSpace <= AddrSpace
  BY SizesAssumption
<1>3. InBounds(addr + n - 1) <=> addr + n - 1 < AddrSpace /\ last < Size
  BY DEF InBounds, last
<1>. QED BY <1>1, <1>2, <1>3 DEF base

\* read_u32 returns the four bytes of its range, or nothing.
LEMMA ReadMeets ==
  ASSUME NEW addr \in Address
  PROVE  LET done == read_u32(data, addr)
         IN /\ Answers(done.tag, addr, 4)
            /\ done.tag = "Ok" => done.data = Word(data, as_usize(addr))
<1>1. addr \in Nat /\ addr + 3 = addr + 4 - 1 /\ 4 \in Nat \ {0}
  BY SizesAssumption DEF Address
<1>. DEFINE base == as_usize(addr)
<1>2. /\ ~InBounds(addr + 3) => base + 4 > Size \/ addr + 4 > AddrSpace
      /\ InBounds(addr + 3) => addr + 4 <= AddrSpace
      /\ InBounds(addr + 3) /\ base + 4 > Size => base + 4 > UsizeSpace
  BY <1>1, Checked
<1>3. base \in Nat
  BY <1>1, Converted
<1>. HIDE DEF base
<1>4. CASE ~InBounds(addr + 3)
  BY <1>1, <1>2, <1>3, <1>4, SizesAssumption DEF read_u32, OutOfBounds, Answers, base
<1>5. CASE InBounds(addr + 3)
  BY <1>1, <1>2, <1>3, <1>5, SizesAssumption DEF read_u32, Slicing, Answers, base
<1>. QED BY <1>4, <1>5

\* write_u32 writes its four bytes, or nothing.
LEMMA WriteMeets ==
  ASSUME NEW addr \in Address, NEW word \in Words
  PROVE  Meets(write_u32(data, addr, word), data, addr, 4, word)
<1>1. addr \in Nat /\ addr + 3 = addr + 4 - 1 /\ 4 \in Nat \ {0}
  BY SizesAssumption DEF Address
<1>. DEFINE base == as_usize(addr)
<1>2. /\ ~InBounds(addr + 3) => base + 4 > Size \/ addr + 4 > AddrSpace
      /\ InBounds(addr + 3) => addr + 4 <= AddrSpace
      /\ InBounds(addr + 3) /\ base + 4 > Size => base + 4 > UsizeSpace
  BY <1>1, Checked
<1>3. base \in Nat
  BY <1>1, Converted
<1>. HIDE DEF base
<1>4. Len(word) = 4
  BY DEF Words
<1>5. Put(data, base, word) = Written(data, base, 4, word)
  BY <1>4 DEF Put, Written, Span
<1>6. CASE ~InBounds(addr + 3)
  BY <1>1, <1>2, <1>3, <1>6, SizesAssumption
  DEF write_u32, OutOfBounds, Meets, Answers, base
<1>7. CASE InBounds(addr + 3)
  BY <1>1, <1>2, <1>3, <1>5, <1>7, SizesAssumption
  DEF write_u32, Slicing, Meets, Answers, base
<1>. QED BY <1>6, <1>7

\* write_bytes writes a slice of any length, the empty one at any address.
LEMMA BytesMeet ==
  ASSUME data \in Data, NEW addr \in Address, NEW bytes \in Seq(Byte)
  PROVE  Meets(write_bytes(data, addr, bytes), data, addr, Len(bytes), bytes)
<1>. DEFINE n == Len(bytes)
           base == as_usize(addr)
<1>1. addr \in Nat /\ addr < AddrSpace /\ n \in Nat
  BY SizesAssumption DEF Address
<1>2. bytes = <<>> <=> n = 0
  OBVIOUS
<1>3. base \in Nat
  BY <1>1, Converted
<1>4. n # 0 =>
        /\ ~InBounds(addr + n - 1) => base + n > Size \/ addr + n > AddrSpace
        /\ InBounds(addr + n - 1) => addr + n <= AddrSpace
        /\ InBounds(addr + n - 1) /\ base + n > Size => base + n > UsizeSpace
  BY <1>1, Checked
<1>. HIDE DEF base
<1>5. Put(data, base, bytes) = Written(data, base, n, bytes)
  BY DEF Put, Written, Span
<1>6. CASE n = 0
  <2>1. Written(data, base, n, bytes) = data
    BY <1>3, <1>6 DEF Written, Span, Data
  <2>. QED
    BY <1>1, <1>2, <1>6, <2>1, SizesAssumption DEF write_bytes, Meets, Answers, base
<1>7. CASE n # 0 /\ (addr + n >= AddrSpace \/ ~InBounds(addr + n - 1))
  <2>1. write_bytes(data, addr, bytes) = OutOfBounds(data)
    BY <1>1, <1>2, <1>7, SizesAssumption DEF write_bytes, InBounds
  <2>2. base + n > Size \/ addr + n >= AddrSpace
    BY <1>1, <1>3, <1>4, <1>7, SizesAssumption
  <2>. QED
    BY <1>7, <2>1, <2>2 DEF OutOfBounds, Meets, Answers, base
<1>8. CASE n # 0 /\ ~(addr + n >= AddrSpace) /\ InBounds(addr + n - 1)
  <2>1. write_bytes(data, addr, bytes)
          = Slicing(data, base, n, [tag |-> "Ok", data |-> Put(data, base, bytes)])
    BY <1>1, <1>2, <1>8, SizesAssumption DEF write_bytes, InBounds, base
  <2>. QED
    BY <1>1, <1>3, <1>4, <1>5, <1>8, <2>1, SizesAssumption DEF Slicing, Meets, Answers, base
<1>. QED BY <1>6, <1>7, <1>8

\* fill_zeros writes zeros.
LEMMA FillMeets ==
  ASSUME data \in Data, NEW addr \in Address, NEW n \in Nat
  PROVE  Meets(fill_zeros(data, addr, n), data, addr, n, [i \in 1..n |-> 0])
<1>. DEFINE zeros == [i \in 1..n |-> 0]
           base == as_usize(addr)
           filled == [i \in Index |-> IF i \in base..(base + n - 1) THEN 0 ELSE data[i]]
<1>1. addr \in Nat /\ addr < AddrSpace
  BY SizesAssumption DEF Address
<1>2. base \in Nat
  BY <1>1, Converted
<1>3. n # 0 =>
        /\ ~InBounds(addr + n - 1) => base + n > Size \/ addr + n > AddrSpace
        /\ InBounds(addr + n - 1) => addr + n <= AddrSpace
        /\ InBounds(addr + n - 1) /\ base + n > Size => base + n > UsizeSpace
  BY <1>1, Checked
<1>. HIDE DEF base
<1>4. Written(data, base, n, zeros) = filled
  <2>. SUFFICES ASSUME NEW i \in Index, i \in base..(base + n - 1)
                PROVE  zeros[i - base + 1] = 0
    BY DEF Written, Span
  <2>. QED
    BY <1>2, SizesAssumption DEF Index
<1>5. CASE n = 0
  <2>1. Written(data, base, n, zeros) = data
    BY <1>2, <1>5 DEF Written, Span, Data
  <2>2. fill_zeros(data, addr, n) = [tag |-> "Ok", data |-> data]
    BY <1>5 DEF fill_zeros
  <2>. HIDE DEF zeros
  <2>3. Meets(fill_zeros(data, addr, n), data, addr, n, zeros)
    BY <1>1, <1>5, <2>1, <2>2, SizesAssumption DEF Meets, Answers, base
  <2>. QED BY <2>3 DEF zeros
<1>6. CASE n # 0 /\ (addr + n >= AddrSpace \/ ~InBounds(addr + n - 1))
  <2>1. fill_zeros(data, addr, n) = OutOfBounds(data)
    BY <1>1, <1>6, SizesAssumption DEF fill_zeros, InBounds
  <2>2. base + n > Size \/ addr + n >= AddrSpace
    BY <1>1, <1>2, <1>3, <1>6, SizesAssumption
  <2>. QED
    BY <1>6, <2>1, <2>2 DEF OutOfBounds, Meets, Answers, base
<1>7. CASE n # 0 /\ ~(addr + n >= AddrSpace) /\ InBounds(addr + n - 1)
  <2>1. fill_zeros(data, addr, n)
          = Slicing(data, base, n, [tag |-> "Ok", data |-> filled])
    BY <1>1, <1>7, SizesAssumption DEF fill_zeros, InBounds, base
  <2>. HIDE DEF filled, zeros
  <2>2. Meets(fill_zeros(data, addr, n), data, addr, n, zeros)
    BY <1>1, <1>2, <1>3, <1>4, <1>7, <2>1, SizesAssumption DEF Slicing, Meets, Answers, base
  <2>. QED BY <2>2 DEF zeros
<1>. QED BY <1>5, <1>6, <1>7

-----------------------------------------------------------------------------
(* Calls *)

\* Each reply is the one the method owes its range, on any host.
RepliesAnswer ==
  /\ data \in Data
  /\ reply.addr \in Address /\ reply.n \in Nat
  /\ Answers(reply.tag, reply.addr, reply.n)

\* A call that succeeds leaves its bytes, or returns those, at the index its
\* address is converted to; nothing else in memory changes, even in a panic.
OnlyTheConvertedRange ==
  [][\A i \in Index :
       data'[i] = IF reply'.tag = "Ok" /\ i \in Span(as_usize(reply'.addr), reply'.n)
                  THEN reply'.bytes[i - as_usize(reply'.addr) + 1]
                  ELSE data[i]]_vars

\* What a step of the caller must do.
Keeps ==
  /\ RepliesAnswer'
  /\ \A i \in Index :
       data'[i] = IF reply'.tag = "Ok" /\ i \in Span(as_usize(reply'.addr), reply'.n)
                  THEN reply'.bytes[i - as_usize(reply'.addr) + 1]
                  ELSE data[i]

\* A memory with a range replaced by bytes is a memory.
LEMMA WrittenData ==
  ASSUME NEW old \in Data, NEW base \in Nat, NEW n \in Nat, NEW bytes,
         \A i \in 1..n : bytes[i] \in Byte
  PROVE  Written(old, base, n, bytes) \in Data
<1>1. \A i \in Span(base, n) : i - base + 1 \in 1..n
  BY DEF Span
<1>. QED
  BY <1>1 DEF Written, Data

\* A call that meets its contract is such a step.
LEMMA MutatesKeeps ==
  ASSUME data \in Data, NEW addr \in Address, NEW n \in Nat, NEW bytes,
         \A i \in 1..n : bytes[i] \in Byte,
         NEW done, Meets(done, data, addr, n, bytes), Mutates(addr, n, bytes, done)
  PROVE  Keeps
<1>1. /\ reply'.addr = addr /\ reply'.n = n /\ reply'.bytes = bytes
      /\ reply'.tag = done.tag
      /\ data' = done.data
  BY DEF Mutates, Reply
<1>. DEFINE base == as_usize(addr)
<1>2. as_usize(reply'.addr) = base /\ base \in Nat
  <2>1. addr \in Nat
    BY SizesAssumption DEF Address
  <2>. QED BY <1>1, <2>1, Converted
<1>3. /\ Answers(done.tag, addr, n)
      /\ done.data = IF done.tag = "Ok" THEN Written(data, base, n, bytes) ELSE data
  BY DEF Meets
<1>. HIDE DEF base
<1>4. Answers(reply'.tag, reply'.addr, reply'.n)
  BY <1>1, <1>3
<1>5. CASE done.tag = "Ok"
  <2>1. data' = Written(data, base, n, bytes) /\ data' \in Data
    BY <1>1, <1>2, <1>3, <1>5, WrittenData
  <2>. QED
    BY <1>1, <1>2, <1>4, <1>5, <2>1 DEF Keeps, RepliesAnswer, Written
<1>6. CASE done.tag # "Ok"
  BY <1>1, <1>3, <1>4, <1>6 DEF Keeps, RepliesAnswer
<1>. QED
  BY <1>5, <1>6

\* read_u32 changes nothing, and returns what is in its range.
LEMMA ReadKeeps ==
  ASSUME data \in Data, NEW addr \in Address, ReadU32(addr)
  PROVE  Keeps
<1>. DEFINE base == as_usize(addr)
<1>1. /\ reply'.addr = addr /\ reply'.n = 4
      /\ reply'.bytes = read_u32(data, addr).data
      /\ reply'.tag = read_u32(data, addr).tag
      /\ data' = data
  BY DEF ReadU32, Reply
<1>2. as_usize(reply'.addr) = base /\ base \in Nat
  <2>1. addr \in Nat
    BY SizesAssumption DEF Address
  <2>. QED BY <1>1, <2>1, Converted
<1>3. /\ Answers(reply'.tag, reply'.addr, reply'.n)
      /\ reply'.tag = "Ok" => reply'.bytes = Word(data, base)
  BY <1>1, ReadMeets
<1>. HIDE DEF base
<1>4. \A i \in Span(base, 4) : Word(data, base)[i - base + 1] = data[i]
  <2>. SUFFICES ASSUME NEW i \in Span(base, 4)
                PROVE  Word(data, base)[i - base + 1] = data[i]
    OBVIOUS
  <2>1. i = base \/ i = base + 1 \/ i = base + 2 \/ i = base + 3
    BY <1>2 DEF Span
  <2>. QED
    BY <1>2, <2>1 DEF Word
<1>. QED
  BY <1>1, <1>2, <1>3, <1>4 DEF Keeps, RepliesAnswer

\* Every call is such a step.
LEMMA NextKeeps ==
  ASSUME RepliesAnswer, Next
  PROVE  Keeps
<1>. data \in Data
  BY DEF RepliesAnswer
<1>. PICK addr \in Address :
       \/ ReadU32(addr)
       \/ \E word \in Words : WriteU32(addr, word)
       \/ \E bytes \in Slices : WriteBytes(addr, bytes)
       \/ \E n \in 0..MaxBytes : FillZeros(addr, n)
  BY DEF Next
<1>1. CASE ReadU32(addr)
  BY <1>1, ReadKeeps
<1>2. ASSUME NEW word \in Words, WriteU32(addr, word) PROVE Keeps
  <2>1. \A i \in 1..4 : word[i] \in Byte
    BY DEF Words
  <2>2. Meets(write_u32(data, addr, word), data, addr, 4, word)
    BY WriteMeets
  <2>. QED
    BY <1>2, <2>1, <2>2, MutatesKeeps DEF WriteU32
<1>3. ASSUME NEW bytes \in Slices, WriteBytes(addr, bytes) PROVE Keeps
  <2>1. bytes \in Seq(Byte)
    BY MaxBytesAssumption DEF Slices
  <2>2. Len(bytes) \in Nat /\ \A i \in 1..Len(bytes) : bytes[i] \in Byte
    BY <2>1
  <2>3. Meets(write_bytes(data, addr, bytes), data, addr, Len(bytes), bytes)
    BY <2>1, BytesMeet
  <2>. QED
    BY <1>3, <2>2, <2>3, MutatesKeeps DEF WriteBytes
<1>4. ASSUME NEW n \in 0..MaxBytes, FillZeros(addr, n) PROVE Keeps
  <2>1. n \in Nat
    BY MaxBytesAssumption
  <2>2. \A i \in 1..n : [j \in 1..n |-> 0][i] \in Byte
    BY ByteAssumption
  <2>3. Meets(fill_zeros(data, addr, n), data, addr, n, [i \in 1..n |-> 0])
    BY <2>1, FillMeets
  <2>. QED
    BY <1>4, <2>1, <2>2, <2>3, MutatesKeeps DEF FillZeros
<1>. QED
  BY <1>1, <1>2, <1>3, <1>4

\* On any host, each of the four methods (memory.rs:52-125) answers for its range
\* as Answers says: aliased addresses succeed, and only a range that crosses a
\* multiple of UsizeSpace panics.
THEOREM RepliesAnswerHolds == Spec => []RepliesAnswer
<1>1. Init => RepliesAnswer
  <2>. SUFFICES ASSUME Init PROVE RepliesAnswer
    OBVIOUS
  <2>1. data \in Data
    BY ByteAssumption DEF Init, Zeroed, Data
  <2>2. reply.addr = 0 /\ reply.n = 0 /\ reply.tag = "Ok"
    BY DEF Init, Reply
  <2>3. 0 \in Address /\ 0 + 0 <= AddrSpace
    BY SizesAssumption DEF Address
  <2>. QED
    BY <2>1, <2>2, <2>3 DEF RepliesAnswer, Answers
<1>2. RepliesAnswer /\ [Next]_vars => RepliesAnswer'
  <2>1. ASSUME RepliesAnswer, Next PROVE RepliesAnswer'
    BY <2>1, NextKeeps DEF Keeps
  <2>2. ASSUME RepliesAnswer, UNCHANGED vars PROVE RepliesAnswer'
    BY <2>2 DEF vars, RepliesAnswer
  <2>. QED
    BY <2>1, <2>2
<1>. QED
  BY <1>1, <1>2, PTL DEF Spec

\* On any host, a call changes at most the range its address is converted to.
THEOREM OnlyTheConvertedRangeHolds == Spec => OnlyTheConvertedRange
<1>. DEFINE A == \A i \in Index :
       data'[i] = IF reply'.tag = "Ok" /\ i \in Span(as_usize(reply'.addr), reply'.n)
                  THEN reply'.bytes[i - as_usize(reply'.addr) + 1]
                  ELSE data[i]
<1>1. RepliesAnswer /\ [Next]_vars => [A]_vars
  <2>1. ASSUME RepliesAnswer, Next PROVE A
    BY <2>1, NextKeeps DEF Keeps
  <2>. QED
    BY <2>1
<1>. QED
  BY <1>1, RepliesAnswerHolds, PTL DEF Spec, OnlyTheConvertedRange

-----------------------------------------------------------------------------
(* Addresses a usize can hold *)

\* On any host, a call whose range ends within UsizeSpace does not panic and
\* succeeds exactly when the range is in memory: on a 32-bit host too the bounds
\* are those of the doc comments for the addresses of the first 4 GiB.
ExactBelowUsize ==
  reply.addr + reply.n <= UsizeSpace =>
    /\ reply.tag \in {"Ok", "OutOfBounds"}
    /\ reply.tag = "Ok" <=> Span(reply.addr, reply.n) \subseteq Index

LEMMA AnswersExactly ==
  ASSUME RepliesAnswer,
         reply.addr + reply.n <= UsizeSpace \/ UsizeSpace = AddrSpace
  PROVE  /\ reply.tag \in {"Ok", "OutOfBounds"}
         /\ reply.tag = "Ok" <=> Span(reply.addr, reply.n) \subseteq Index
<1>. DEFINE addr == reply.addr
           n == reply.n
           base == as_usize(addr)
<1>1. addr \in Nat /\ addr < AddrSpace /\ n \in Nat
  BY SizesAssumption DEF RepliesAnswer, Address
<1>2. Answers(reply.tag, addr, n)
  BY DEF RepliesAnswer
<1>. HIDE DEF addr, n
<1>3. /\ Size \in Nat /\ UsizeSpace \in Nat /\ AddrSpace \in Nat
      /\ Size < UsizeSpace /\ UsizeSpace <= AddrSpace
  BY SizesAssumption
<1>4. n # 0 => base = addr
  <2>1. n # 0 => addr < UsizeSpace
    BY <1>1, <1>3 DEF addr, n
  <2>. QED BY <1>1, <2>1, Converted
<1>5. base \in Nat
  BY <1>1, Converted
<1>6. Span(addr, n) \subseteq Index <=> n = 0 \/ addr + n <= Size
  BY <1>1, SpanIndex
<1>7. addr + n <= UsizeSpace \/ UsizeSpace = AddrSpace
  BY DEF addr, n
<1>. HIDE DEF base
<1>8. \/ reply.tag = "Ok" /\ (n = 0 \/ base + n <= Size)
      \/ reply.tag = "OutOfBounds" /\ n # 0 /\ (base + n > Size \/ addr + n >= AddrSpace)
      \/ reply.tag = "Panic" /\ base + n > UsizeSpace /\ addr + n <= AddrSpace
  BY <1>2 DEF Answers, base
<1>9. n = 0 => ~(base + n > UsizeSpace)
  <2>1. base < UsizeSpace
    BY <1>1, Converted DEF base
  <2>. QED BY <1>3, <1>5, <2>1
<1>. QED BY <1>1, <1>3, <1>4, <1>5, <1>6, <1>7, <1>8, <1>9 DEF addr, n

THEOREM ExactBelowUsizeHolds == Spec => []ExactBelowUsize
<1>1. RepliesAnswer => ExactBelowUsize
  BY AnswersExactly DEF ExactBelowUsize
<1>. QED
  BY <1>1, RepliesAnswerHolds, PTL

\* No operation of Memory panics or changes its length.
THEOREM MemoryNeverPanics == ASSUME WideHost PROVE Spec => []MemoryTypeOK
<1>1. RepliesAnswer => MemoryTypeOK
  BY AnswersExactly DEF WideHost, MemoryTypeOK, RepliesAnswer
<1>. QED
  BY <1>1, RepliesAnswerHolds, PTL

\* Each call succeeds exactly when its range is in memory.
THEOREM BoundsHold == ASSUME WideHost PROVE Spec => []BoundsAreExact
<1>1. RepliesAnswer => BoundsAreExact
  BY AnswersExactly DEF WideHost, BoundsAreExact
<1>. QED
  BY <1>1, RepliesAnswerHolds, PTL

\* A call changes nothing outside its range.
THEOREM OnlyTheRangeHolds == ASSUME WideHost PROVE Spec => OnlyTheRange
<1>. DEFINE A == \A i \in Index :
       data'[i] = IF reply'.tag = "Ok" /\ i \in Span(reply'.addr, reply'.n)
                  THEN reply'.bytes[i - reply'.addr + 1]
                  ELSE data[i]
<1>1. RepliesAnswer /\ [Next]_vars => [A]_vars
  <2>1. ASSUME RepliesAnswer, Next PROVE A
    <3>1. Keeps
      BY <2>1, NextKeeps
    <3>2. reply'.addr \in Nat /\ reply'.addr < UsizeSpace
      BY <3>1, SizesAssumption DEF Keeps, RepliesAnswer, Address, WideHost
    <3>. DEFINE addr == reply'.addr
    <3>3. as_usize(addr) = addr
      BY <3>2, Converted
    <3>. HIDE DEF addr
    <3>. QED
      BY <3>1, <3>3 DEF Keeps, addr
  <2>. QED
    BY <2>1
<1>. QED
  BY <1>1, RepliesAnswerHolds, PTL DEF Spec, OnlyTheRange
=============================================================================
