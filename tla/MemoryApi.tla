------------------------------- MODULE MemoryApi -------------------------------
(***************************************************************************)
(* A Memory and its caller.  `reply' is the last call: its range, the      *)
(* bytes it was to write or has read, and the outcome.                     *)
(***************************************************************************)
EXTENDS Memory

CONSTANT MaxBytes  \* bound on the length of a slice and of a fill

ASSUME MaxBytesAssumption == MaxBytes \in Nat

VARIABLES data, reply

vars == <<data, reply>>

Words == [1..4 -> Byte]
Slices == UNION {[1..n -> Byte] : n \in 0..MaxBytes}

Reply(addr, n, bytes, tag) == [addr |-> addr, n |-> n, bytes |-> bytes, tag |-> tag]

Init == data = Zeroed /\ reply = Reply(0, 0, <<>>, "Ok")

ReadU32(addr) ==
  LET done == read_u32(data, addr)
  IN data' = data /\ reply' = Reply(addr, 4, done.data, done.tag)

Mutates(addr, n, bytes, done) ==
  data' = done.data /\ reply' = Reply(addr, n, bytes, done.tag)

WriteU32(addr, word) == Mutates(addr, 4, word, write_u32(data, addr, word))
WriteBytes(addr, bytes) ==
  Mutates(addr, Len(bytes), bytes, write_bytes(data, addr, bytes))
FillZeros(addr, n) ==
  Mutates(addr, n, [i \in 1..n |-> 0], fill_zeros(data, addr, n))

Next ==
  \E addr \in Address :
    \/ ReadU32(addr)
    \/ \E word \in Words : WriteU32(addr, word)
    \/ \E bytes \in Slices : WriteBytes(addr, bytes)
    \/ \E n \in 0..MaxBytes : FillZeros(addr, n)

Spec == Init /\ [][Next]_vars

-----------------------------------------------------------------------------
\* Types: the length of memory never changes, and no call panics.
MemoryTypeOK ==
  /\ data \in Data
  /\ reply.tag \in {"Ok", "OutOfBounds"}

Span(addr, n) == addr..(addr + n - 1)

\* A call succeeds exactly when all the bytes of its range are in memory, as
\* the doc comments of the four methods say (memory.rs:52, 68, 82, 106).
BoundsAreExact ==
  reply.tag = "Ok" <=> Span(reply.addr, reply.n) \subseteq Index

\* A call that succeeds leaves in its range the bytes it was given, or that it
\* returns, and whatever the outcome nothing else in memory changes.
OnlyTheRange ==
  [][\A i \in Index :
       data'[i] = IF reply'.tag = "Ok" /\ i \in Span(reply'.addr, reply'.n)
                  THEN reply'.bytes[i - reply'.addr + 1]
                  ELSE data[i]]_vars
=============================================================================
