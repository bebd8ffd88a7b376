------------------------------ MODULE DecodeProofs ------------------------------
(***************************************************************************)
(* The properties of decode for all 2^32 words: the fields are recovered   *)
(* from the halves by division, and the halves from the fields.  Then the  *)
(* same the other way round, for every instruction.                        *)
(***************************************************************************)
EXTENDS Decode, TLAPS

Words == [hi : Half, lo : Half]
IsWord == word \in Words

\* A field of a half is as wide as its bits say.
LEMMA FieldWidths ==
  ASSUME NEW h \in Half
  PROVE  /\ Bits(h, 0, 4) = h % 32
         /\ Bits(h, 0, 5) = h % 64
         /\ Bits(h, 5, 6) = (h \div 32) % 4
         /\ Bits(h, 6, 7) = (h \div 64) % 4
         /\ Bits(h, 5, 9) = (h \div 32) % 32
         /\ Bits(h, 5, 15) = (h \div 32) % 2048
         /\ Bits(h, 10, 15) = (h \div 1024) % 64
         /\ Bits(h, 7, 12) = (h \div 128) % 64
         /\ Bits(h, 8, 12) = (h \div 256) % 32
         /\ Bits(h, 13, 13) = (h \div 8192) % 2
         /\ Bits(h, 13, 14) = (h \div 8192) % 4
         /\ Bits(h, 14, 14) = (h \div 16384) % 2
         /\ Bits(h, 15, 15) = (h \div 32768) % 2
  BY DEF Bits, Half

LEMMA FieldRanges ==
  ASSUME NEW h \in Half
  PROVE  /\ Bits(h, 0, 4) \in 0..31
         /\ Bits(h, 0, 5) \in 0..63
         /\ Bits(h, 5, 6) \in 0..3
         /\ Bits(h, 5, 9) \in 0..31
         /\ Bits(h, 5, 15) \in 0..2047
         /\ Bits(h, 10, 15) \in 0..63
         /\ Bits(h, 13, 14) \in 0..3
  BY DEF Bits, Half

\* Membership in a range of a given width.
LEMMA InRange ==
  ASSUME NEW n \in Nat, NEW k \in Nat, n < k
  PROVE  n \in 0..(k - 1)
  OBVIOUS

\* The widths of the immediates, as numbers.
LEMMA Immediates == 2 ^ FieldBits = 65536 /\ 2 ^ ImmBits = 4096
<1>1. 2 ^ 16 = 65536 /\ 2 ^ 12 = 4096
  OBVIOUS
<1>. QED
  BY <1>1, DecodedWidths

LEMMA InitWords == Init => IsWord
  BY HalvesAssumption DEF Init, Words, IsWord

LEMMA NextWords == IsWord /\ [Fetched]_word => IsWord'
  BY HalvesAssumption DEF Fetched, Words, IsWord

LEMMA DisjointPatterns == IsWord => PatternsAreDisjoint
<1>. SUFFICES ASSUME word \in Words PROVE PatternsAreDisjoint
  BY DEF IsWord
<1>. DEFINE h == word.hi
<1>1. h \in Half
  BY DEF Words
<1>2. /\ IsHlt(word) <=> h = 54275
      /\ IsAddSub(word) <=> (h \div 256) % 32 = 17
      /\ IsMovWide(word) <=> (h \div 128) % 64 = 37
  BY <1>1, FieldWidths DEF IsHlt, IsAddSub, IsMovWide
<1>. HIDE DEF h
<1>3. /\ ~(h = 54275 /\ (h \div 256) % 32 = 17)
      /\ ~(h = 54275 /\ (h \div 128) % 64 = 37)
      /\ ~((h \div 256) % 32 = 17 /\ (h \div 128) % 64 = 37)
  BY <1>1 DEF Half
<1>. QED
  BY <1>2, <1>3 DEF PatternsAreDisjoint

LEMMA AddSubDecoded ==
  ASSUME word \in Words
  PROVE  IsInstruction(AddSubFields(word), 0..30)
<1>. DEFINE hi == word.hi  lo == word.lo
            high == Bits(hi, 0, 5)  low == Bits(lo, 10, 15)
            imm == high * 2 ^ 6 + low
<1>1. hi \in Half /\ lo \in Half
  BY DEF Words
<1>2. Bits(lo, 5, 9) \in 0..31 /\ Bits(lo, 0, 4) \in 0..31
  BY <1>1, FieldRanges
<1>3. high \in 0..63 /\ low \in 0..63
  BY <1>1, FieldRanges
<1>4. imm \in Nat /\ imm < 4096
  <2>. HIDE DEF high, low
  <2>1. 2 ^ 6 = 64
    OBVIOUS
  <2>. QED
    BY <1>3, <2>1
<1>5. imm \in 0..(2 ^ ImmBits - 1)
  <2>1. 2 ^ ImmBits \in Nat /\ imm < 2 ^ ImmBits
    BY <1>4, Immediates
  <2>. HIDE DEF imm
  <2>. QED
    BY <1>4, <2>1, InRange
<1>6. AddSubFields(word).imm = imm
  BY DEF AddSubFields
<1>7. AddSubFields(word).rn \in 0..31 /\ AddSubFields(word).rd \in 0..31
  BY <1>2 DEF AddSubFields
<1>8. /\ AddSubFields(word).kind = "AddSub"
      /\ AddSubFields(word).sf \in BOOLEAN
      /\ AddSubFields(word).op \in BOOLEAN
      /\ AddSubFields(word).s \in BOOLEAN
      /\ AddSubFields(word).shift \in BOOLEAN
  BY DEF AddSubFields
<1>. HIDE DEF imm
<1>9. AddSubFields(word).imm \in 0..(2 ^ ImmBits - 1)
  BY <1>5, <1>6
<1>10. /\ AddSubFields(word).rn \in 0..30 \cup {ZR}
       /\ AddSubFields(word).rd \in 0..30 \cup {ZR}
  BY <1>7 DEF ZR
<1>. QED
  BY <1>8, <1>9, <1>10 DEF IsInstruction

LEMMA MovWideDecoded ==
  ASSUME word \in Words
  PROVE  IsInstruction(MovWideFields(word), 0..30)
<1>. DEFINE hi == word.hi  lo == word.lo
            high == Bits(hi, 0, 4)  low == Bits(lo, 5, 15)
            imm == high * 2 ^ 11 + low
<1>1. hi \in Half /\ lo \in Half
  BY DEF Words
<1>2. Bits(lo, 0, 4) \in 0..31 /\ Bits(hi, 5, 6) \in 0..3
        /\ Bits(hi, 13, 14) \in 0..3
  BY <1>1, FieldRanges
<1>3. high \in 0..31 /\ low \in 0..2047
  BY <1>1, FieldRanges
<1>4. imm \in Nat /\ imm < 65536
  <2>. HIDE DEF high, low
  <2>1. 2 ^ 11 = 2048
    OBVIOUS
  <2>. QED
    BY <1>3, <2>1
<1>5. imm \in 0..(2 ^ FieldBits - 1)
  <2>1. 2 ^ FieldBits \in Nat /\ imm < 2 ^ FieldBits
    BY <1>4, Immediates
  <2>. HIDE DEF imm
  <2>. QED
    BY <1>4, <2>1, InRange
<1>6. MovWideFields(word).imm = imm
  BY DEF MovWideFields
<1>7. MovWideFields(word).hw \in {field * FieldBits : field \in 0..3}
  BY <1>2, DecodedWidths DEF MovWideFields
<1>8. /\ MovWideFields(word).kind = "MovWide"
      /\ MovWideFields(word).sf \in BOOLEAN
      /\ MovWideFields(word).opc \in 0..3
  BY <1>2 DEF MovWideFields
<1>9. MovWideFields(word).rd \in 0..30 \cup {ZR}
  BY <1>2 DEF MovWideFields, ZR
<1>. HIDE DEF imm
<1>10. MovWideFields(word).imm \in 0..(2 ^ FieldBits - 1)
  BY <1>5, <1>6
<1>. QED
  BY <1>7, <1>8, <1>9, <1>10 DEF IsInstruction

LEMMA InstructionDecoded == IsWord => DecodedIsInstruction
<1>. SUFFICES ASSUME word \in Words, Decodes(word)
              PROVE  IsInstruction(decode(word), 0..30)
  BY DEF DecodedIsInstruction, IsWord
<1>1. CASE IsHlt(word)
  BY <1>1 DEF decode, IsInstruction
<1>2. CASE ~IsHlt(word) /\ IsAddSub(word)
  BY <1>2, AddSubDecoded DEF decode
<1>3. CASE ~IsHlt(word) /\ ~IsAddSub(word) /\ IsMovWide(word)
  BY <1>3, MovWideDecoded DEF decode
<1>. QED
  BY <1>1, <1>2, <1>3 DEF decode, Decodes

\* A half is the sum of its fields, as the two instructions that are not HLT
\* divide it.
LEMMA Sums ==
  ASSUME NEW h \in Half
  PROVE  /\ h = ((h \div 32768) % 2) * 32768 + ((h \div 16384) % 2) * 16384
                 + ((h \div 8192) % 2) * 8192 + ((h \div 256) % 32) * 256
                 + ((h \div 64) % 4) * 64 + (h % 64)
         /\ h = ((h \div 32768) % 2) * 32768 + ((h \div 8192) % 4) * 8192
                 + ((h \div 128) % 64) * 128 + ((h \div 32) % 4) * 32 + (h % 32)
         /\ h = ((h \div 1024) % 64) * 1024 + ((h \div 32) % 32) * 32 + (h % 32)
         /\ h = ((h \div 32) % 2048) * 32 + (h % 32)
<1>1. h = (h \div 8192) * 8192 + ((h \div 256) % 32) * 256
          + ((h \div 64) % 4) * 64 + (h % 64)
  BY DEF Half
<1>2. h \div 8192 = ((h \div 32768) % 2) * 4 + ((h \div 16384) % 2) * 2
                   + ((h \div 8192) % 2)
  BY DEF Half
<1>3. h = (h \div 8192) * 8192 + ((h \div 128) % 64) * 128
          + ((h \div 32) % 4) * 32 + (h % 32)
  BY DEF Half
<1>4. h \div 8192 = ((h \div 32768) % 2) * 4 + ((h \div 8192) % 4)
  BY DEF Half
<1>5. h = ((h \div 1024) % 64) * 1024 + ((h \div 32) % 32) * 32 + (h % 32)
  BY DEF Half
<1>6. h = ((h \div 32) % 2048) * 32 + (h % 32)
  BY DEF Half
<1>. QED
  BY <1>1, <1>2, <1>3, <1>4, <1>5, <1>6 DEF Half

\* A flag is encoded as the bit it was read from.
LEMMA FlagBit == ASSUME NEW n \in {0, 1} PROVE B(n = 1) = n
  BY DEF B

\* An immediate is taken apart where its two fields were put together.
LEMMA ImmediateApart ==
  ASSUME NEW high \in Nat, NEW low \in Nat
  PROVE  /\ low < 64 => /\ (high * 64 + low) \div 64 = high
                        /\ (high * 64 + low) % 64 = low
         /\ low < 2048 => /\ (high * 2048 + low) \div 2048 = high
                          /\ (high * 2048 + low) % 2048 = low
  OBVIOUS

LEMMA AddSubInvertible ==
  ASSUME word \in Words, IsAddSub(word), ~ReservedShift(word)
  PROVE  Encoding(AddSubFields(word)) = word
<1>. DEFINE h == word.hi  l == word.lo  ins == AddSubFields(word)
            high == h % 64  low == (l \div 1024) % 64
<1>1. h \in Half /\ l \in Half /\ word = [hi |-> h, lo |-> l]
  BY DEF Words
<1>2. /\ (h \div 256) % 32 = 17
      /\ (h \div 64) % 4 \in {0, 1}
  BY <1>1, FieldWidths DEF IsAddSub, ReservedShift
<1>3. /\ ins.kind = "AddSub"
      /\ ins.sf = ((h \div 32768) % 2 = 1) /\ ins.op = ((h \div 16384) % 2 = 1)
      /\ ins.s = ((h \div 8192) % 2 = 1) /\ ins.shift = ((h \div 64) % 4 = 1)
      /\ ins.imm = high * 64 + low
      /\ ins.rn = (l \div 32) % 32 /\ ins.rd = l % 32
  <2>1. 2 ^ 6 = 64
    OBVIOUS
  <2>. QED
    BY <1>1, <2>1, FieldWidths DEF AddSubFields
<1>4. /\ (h \div 32768) % 2 \in {0, 1} /\ (h \div 16384) % 2 \in {0, 1}
      /\ (h \div 8192) % 2 \in {0, 1}
      /\ high \in Nat /\ low \in Nat /\ low < 64
  BY <1>1 DEF Half
<1>5. Encoding(ins) =
        [hi |-> B(ins.sf) * 32768 + B(ins.op) * 16384 + B(ins.s) * 8192
                 + 4352 + B(ins.shift) * 64 + ins.imm \div 64,
         lo |-> (ins.imm % 64) * 1024 + ins.rn * 32 + ins.rd]
  BY <1>3 DEF Encoding
<1>6. ins.imm \div 64 = high /\ ins.imm % 64 = low
  <2>. HIDE DEF high, low, ins
  <2>. QED
    BY <1>3, <1>4, ImmediateApart
<1>7. /\ B(ins.sf) = (h \div 32768) % 2 /\ B(ins.op) = (h \div 16384) % 2
      /\ B(ins.s) = (h \div 8192) % 2 /\ B(ins.shift) = (h \div 64) % 4
  BY <1>2, <1>3, <1>4, FlagBit
<1>. HIDE DEF h, l, ins
<1>8. Encoding(ins) = [hi |-> h, lo |-> l]
  <2>1. h = ((h \div 32768) % 2) * 32768 + ((h \div 16384) % 2) * 16384
             + ((h \div 8192) % 2) * 8192 + 4352 + ((h \div 64) % 4) * 64 + (h % 64)
    BY <1>1, <1>2, Sums
  <2>2. l = ((l \div 1024) % 64) * 1024 + ((l \div 32) % 32) * 32 + (l % 32)
    BY <1>1, Sums
  <2>. QED
    BY <1>3, <1>5, <1>6, <1>7, <2>1, <2>2
<1>. QED
  BY <1>1, <1>8 DEF h, l, ins

LEMMA MovWideInvertible ==
  ASSUME word \in Words, IsMovWide(word)
  PROVE  Encoding(MovWideFields(word)) = word
<1>. DEFINE h == word.hi  l == word.lo  ins == MovWideFields(word)
            high == h % 32  low == (l \div 32) % 2048
<1>1. h \in Half /\ l \in Half /\ word = [hi |-> h, lo |-> l]
  BY DEF Words
<1>2. (h \div 128) % 64 = 37
  BY <1>1, FieldWidths DEF IsMovWide
<1>3. /\ ins.kind = "MovWide"
      /\ ins.sf = ((h \div 32768) % 2 = 1) /\ ins.opc = (h \div 8192) % 4
      /\ ins.hw = ((h \div 32) % 4) * 16
      /\ ins.imm = high * 2048 + low
      /\ ins.rd = l % 32
  <2>1. 2 ^ 11 = 2048
    OBVIOUS
  <2>. QED
    BY <1>1, <2>1, FieldWidths DEF MovWideFields
<1>4. /\ (h \div 32768) % 2 \in {0, 1}
      /\ high \in Nat /\ low \in Nat /\ low < 2048
  BY <1>1 DEF Half
<1>5. Encoding(ins) =
        [hi |-> B(ins.sf) * 32768 + ins.opc * 8192 + 4736
                 + (ins.hw \div 16) * 32 + ins.imm \div 2048,
         lo |-> (ins.imm % 2048) * 32 + ins.rd]
  BY <1>3 DEF Encoding
<1>6. ins.imm \div 2048 = high /\ ins.imm % 2048 = low
  <2>. HIDE DEF high, low, ins
  <2>. QED
    BY <1>3, <1>4, ImmediateApart
<1>7. /\ B(ins.sf) = (h \div 32768) % 2
      /\ ins.hw \div 16 = (h \div 32) % 4
  <2>1. \A n \in 0..3 : (n * 16) \div 16 = n
    OBVIOUS
  <2>2. (h \div 32) % 4 \in 0..3
    BY <1>1 DEF Half
  <2>. QED
    BY <1>3, <1>4, <2>1, <2>2, FlagBit
<1>. HIDE DEF h, l, ins
<1>8. Encoding(ins) = [hi |-> h, lo |-> l]
  <2>1. h = ((h \div 32768) % 2) * 32768 + ((h \div 8192) % 4) * 8192
             + 4736 + ((h \div 32) % 4) * 32 + (h % 32)
    BY <1>1, <1>2, Sums
  <2>2. l = ((l \div 32) % 2048) * 32 + (l % 32)
    BY <1>1, Sums
  <2>. QED
    BY <1>3, <1>5, <1>6, <1>7, <2>1, <2>2
<1>. QED
  BY <1>1, <1>8 DEF h, l, ins

LEMMA NothingLost == IsWord => DecodingIsInvertible
<1>. SUFFICES ASSUME word \in Words, Decodes(word), ~ReservedShift(word)
              PROVE  Encoding(decode(word)) = word
  BY DEF DecodingIsInvertible, IsWord
<1>1. CASE IsHlt(word)
  BY <1>1 DEF decode, Encoding, IsHlt, Words
<1>2. CASE ~IsHlt(word) /\ IsAddSub(word)
  BY <1>2, AddSubInvertible DEF decode
<1>3. CASE ~IsHlt(word) /\ ~IsAddSub(word) /\ IsMovWide(word)
  BY <1>3, MovWideInvertible DEF decode
<1>. QED
  BY <1>1, <1>2, <1>3 DEF decode, Decodes

-----------------------------------------------------------------------------
(* Every instruction has a word *)

\* The numbers of a field.
Upto(n) == 0..n

\* The instructions, with no more than their fields.
AddSubs == [kind : {"AddSub"}, sf : BOOLEAN, op : BOOLEAN, s : BOOLEAN,
            shift : BOOLEAN, imm : Upto(4095), rn : Upto(31), rd : Upto(31)]
MovWides == [kind : {"MovWide"}, sf : BOOLEAN, opc : Upto(3), hw : {0, 16, 32, 48},
             imm : Half, rd : Upto(31)]
Hlts == [kind : {"Hlt"}, imm : Half]

LEMMA BitFlag ==
  ASSUME NEW b \in BOOLEAN
  PROVE  B(b) \in Upto(1) /\ (B(b) = 1) = b
  BY DEF B, Upto

\* The halves, from the fields in the order of their bits.
AddSubUpper(sf, op, s, shift, high) ==
  sf * 32768 + op * 16384 + s * 8192 + 4352 + shift * 64 + high
AddSubLower(low, rn, rd) == low * 1024 + rn * 32 + rd
MovWideUpper(sf, opc, field, high) ==
  sf * 32768 + opc * 8192 + 4736 + field * 32 + high
MovWideLower(low, rd) == low * 32 + rd

\* The fields are found where decode looks for them.
LEMMA AddSubHalf ==
  ASSUME NEW sf \in Upto(1), NEW op \in Upto(1), NEW s \in Upto(1),
         NEW shift \in Upto(1), NEW high \in Upto(63)
  PROVE  LET h == AddSubUpper(sf, op, s, shift, high)
         IN /\ h \in Half /\ h # 54275
            /\ (h \div 256) % 32 = 17 /\ (h \div 32768) % 2 = sf
            /\ (h \div 16384) % 2 = op /\ (h \div 8192) % 2 = s
            /\ (h \div 64) % 4 = shift /\ h % 64 = high
<1>. DEFINE h == AddSubUpper(sf, op, s, shift, high)
<1>1. /\ h \in Int
      /\ h = sf * 32768 + op * 16384 + s * 8192 + 4352 + shift * 64 + high
  BY DEF AddSubUpper, Upto
<1>. HIDE DEF h
<1>2. /\ h \in Nat /\ h < 65536
      /\ h \div 32768 = sf /\ h \div 16384 = 2 * sf + op
      /\ h \div 8192 = 4 * sf + 2 * op + s
      /\ h \div 256 = 32 * (4 * sf + 2 * op + s) + 17
      /\ h \div 64 = 4 * (32 * (4 * sf + 2 * op + s) + 17) + shift
      /\ h % 64 = high
  BY <1>1 DEF Upto
<1>3. (h \div 256) % 32 = 17 /\ (h \div 64) % 4 = shift
  BY <1>2 DEF Upto
<1>4. (54275 \div 256) % 32 = 20
  OBVIOUS
<1>. QED BY <1>2, <1>3, <1>4 DEF Half, h, Upto

LEMMA MovWideHalf ==
  ASSUME NEW sf \in Upto(1), NEW opc \in Upto(3), NEW field \in Upto(3), NEW high \in Upto(31)
  PROVE  LET h == MovWideUpper(sf, opc, field, high)
         IN /\ h \in Half /\ h # 54275
            /\ (h \div 256) % 32 = 18 /\ (h \div 128) % 64 = 37
            /\ (h \div 32768) % 2 = sf /\ (h \div 8192) % 4 = opc
            /\ (h \div 32) % 4 = field /\ h % 32 = high
<1>. DEFINE h == MovWideUpper(sf, opc, field, high)
<1>1. h \in Int /\ h = sf * 32768 + opc * 8192 + 4736 + field * 32 + high
  BY DEF MovWideUpper, Upto
<1>. HIDE DEF h
<1>2. /\ h \in Nat /\ h < 65536
      /\ h \div 32768 = sf /\ h \div 8192 = 4 * sf + opc
      /\ h \div 256 = 32 * (4 * sf + opc) + 18
      /\ h \div 128 = 64 * (4 * sf + opc) + 37
      /\ h \div 32 = 4 * (64 * (4 * sf + opc) + 37) + field
      /\ h % 32 = high
  BY <1>1 DEF Upto
<1>3. (h \div 256) % 32 = 18 /\ (h \div 128) % 64 = 37 /\ (h \div 32) % 4 = field
  BY <1>2 DEF Upto
<1>4. (54275 \div 256) % 32 = 20
  OBVIOUS
<1>. QED BY <1>2, <1>3, <1>4 DEF Half, h, Upto

LEMMA AddSubLowerHalf ==
  ASSUME NEW low \in Upto(63), NEW rn \in Upto(31), NEW rd \in Upto(31)
  PROVE  LET l == AddSubLower(low, rn, rd)
         IN /\ l \in Half /\ (l \div 1024) % 64 = low
            /\ (l \div 32) % 32 = rn /\ l % 32 = rd
<1>. DEFINE l == AddSubLower(low, rn, rd)
<1>1. l \in Int /\ l = low * 1024 + rn * 32 + rd
  BY DEF AddSubLower, Upto
<1>. HIDE DEF l
<1>2. /\ l \in Half /\ (l \div 1024) % 64 = low
      /\ (l \div 32) % 32 = rn /\ l % 32 = rd
  BY <1>1 DEF Half, Upto
<1>. QED BY <1>2 DEF l

LEMMA MovWideLowerHalf ==
  ASSUME NEW low \in Upto(2047), NEW rd \in Upto(31)
  PROVE  LET l == MovWideLower(low, rd)
         IN l \in Half /\ (l \div 32) % 2048 = low /\ l % 32 = rd
<1>. DEFINE l == MovWideLower(low, rd)
<1>1. l \in Int /\ l = low * 32 + rd
  BY DEF MovWideLower, Upto
<1>. HIDE DEF l
<1>2. l \in Half /\ (l \div 32) % 2048 = low /\ l % 32 = rd
  BY <1>1 DEF Half, Upto
<1>. QED BY <1>2 DEF l

LEMMA AddSubEncoding ==
  ASSUME NEW ins, ins.kind = "AddSub"
  PROVE  Encoding(ins) =
           [hi |-> AddSubUpper(B(ins.sf), B(ins.op), B(ins.s), B(ins.shift), ins.imm \div 64),
            lo |-> AddSubLower(ins.imm % 64, ins.rn, ins.rd)]
  BY DEF Encoding, AddSubUpper, AddSubLower

LEMMA MovWideEncoding ==
  ASSUME NEW ins, ins.kind = "MovWide"
  PROVE  Encoding(ins) =
           [hi |-> MovWideUpper(B(ins.sf), ins.opc, ins.hw \div 16, ins.imm \div 2048),
            lo |-> MovWideLower(ins.imm % 2048, ins.rd)]
  BY DEF Encoding, MovWideUpper, MovWideLower

\* An immediate is put together where it was taken apart.
LEMMA ShortImmediate ==
  ASSUME NEW imm \in Upto(4095)
  PROVE  /\ imm \div 64 \in Upto(63) /\ imm % 64 \in Upto(63)
         /\ (imm \div 64) * 64 + (imm % 64) = imm
  BY DEF Upto

LEMMA WideImmediate ==
  ASSUME NEW imm \in Half
  PROVE  /\ imm \div 2048 \in Upto(31) /\ imm % 2048 \in Upto(2047)
         /\ (imm \div 2048) * 2048 + (imm % 2048) = imm
  BY DEF Half, Upto

LEMMA AddSubEncoded ==
  ASSUME NEW ins \in AddSubs
  PROVE  Encoding(ins) \in Words /\ decode(Encoding(ins)) = ins
<1>. DEFINE w == Encoding(ins)
            h == w.hi
            l == w.lo
            high == ins.imm \div 64
            low == ins.imm % 64
<1>1. /\ ins.kind = "AddSub" /\ ins.imm \in Upto(4095)
      /\ ins.rn \in Upto(31) /\ ins.rd \in Upto(31)
      /\ ins.sf \in BOOLEAN /\ ins.op \in BOOLEAN
      /\ ins.s \in BOOLEAN /\ ins.shift \in BOOLEAN
  BY DEF AddSubs
<1>2. /\ B(ins.sf) \in Upto(1) /\ B(ins.op) \in Upto(1)
      /\ B(ins.s) \in Upto(1) /\ B(ins.shift) \in Upto(1)
  BY <1>1, BitFlag
<1>3. high \in Upto(63) /\ low \in Upto(63) /\ high * 64 + low = ins.imm
  BY <1>1, ShortImmediate
<1>4. w = [hi |-> AddSubUpper(B(ins.sf), B(ins.op), B(ins.s), B(ins.shift), high),
           lo |-> AddSubLower(low, ins.rn, ins.rd)]
  BY <1>1, AddSubEncoding
<1>. HIDE DEF w, high, low
<1>5. /\ h \in Half /\ h # 54275 /\ (h \div 256) % 32 = 17
      /\ (h \div 32768) % 2 = B(ins.sf) /\ (h \div 16384) % 2 = B(ins.op)
      /\ (h \div 8192) % 2 = B(ins.s) /\ (h \div 64) % 4 = B(ins.shift)
      /\ h % 64 = high
  BY <1>2, <1>3, <1>4, AddSubHalf
<1>6. l \in Half /\ (l \div 1024) % 64 = low /\ (l \div 32) % 32 = ins.rn /\ l % 32 = ins.rd
  BY <1>1, <1>3, <1>4, AddSubLowerHalf
<1>7. w \in Words /\ ~IsHlt(w) /\ IsAddSub(w)
  <2>1. w \in Words
    BY <1>4, <1>5, <1>6 DEF Words
  <2>. QED BY <1>5, <2>1, FieldWidths DEF IsHlt, IsAddSub
<1>8. AddSubFields(w) =
        [kind |-> "AddSub", sf |-> B(ins.sf) = 1, op |-> B(ins.op) = 1,
         s |-> B(ins.s) = 1, shift |-> B(ins.shift) = 1,
         imm |-> ins.imm, rn |-> ins.rn, rd |-> ins.rd]
  <2>1. 2 ^ 6 = 64
    OBVIOUS
  <2>2. /\ Bits(h, 15, 15) = B(ins.sf) /\ Bits(h, 14, 14) = B(ins.op)
        /\ Bits(h, 13, 13) = B(ins.s) /\ Bits(h, 6, 7) = B(ins.shift)
        /\ Bits(h, 0, 5) = high /\ Bits(l, 10, 15) = low
        /\ Bits(l, 5, 9) = ins.rn /\ Bits(l, 0, 4) = ins.rd
    BY <1>5, <1>6, FieldWidths
  <2>. QED BY <1>3, <2>1, <2>2 DEF AddSubFields
<1>9. AddSubFields(w) =
        [kind |-> "AddSub", sf |-> ins.sf, op |-> ins.op, s |-> ins.s,
         shift |-> ins.shift, imm |-> ins.imm, rn |-> ins.rn, rd |-> ins.rd]
  BY <1>1, <1>8, BitFlag
<1>10. AddSubFields(w) = ins
  BY <1>1, <1>9 DEF AddSubs
<1>. QED BY <1>7, <1>10 DEF decode, w

LEMMA MovWideEncoded ==
  ASSUME NEW ins \in MovWides
  PROVE  Encoding(ins) \in Words /\ decode(Encoding(ins)) = ins
<1>. DEFINE w == Encoding(ins)
            h == w.hi
            l == w.lo
            high == ins.imm \div 2048
            low == ins.imm % 2048
            field == ins.hw \div 16
<1>1. /\ ins.kind = "MovWide" /\ ins.imm \in Half /\ ins.opc \in Upto(3)
      /\ ins.hw \in {0, 16, 32, 48} /\ ins.rd \in Upto(31) /\ ins.sf \in BOOLEAN
  BY DEF MovWides
<1>2. B(ins.sf) \in Upto(1)
  BY <1>1, BitFlag
<1>3. high \in Upto(31) /\ low \in Upto(2047) /\ high * 2048 + low = ins.imm
  BY <1>1, WideImmediate
<1>4. field \in Upto(3) /\ field * 16 = ins.hw
  BY <1>1 DEF Upto
<1>5. w = [hi |-> MovWideUpper(B(ins.sf), ins.opc, field, high),
           lo |-> MovWideLower(low, ins.rd)]
  BY <1>1, MovWideEncoding
<1>. HIDE DEF w, high, low, field
<1>6. /\ h \in Half /\ h # 54275
      /\ (h \div 256) % 32 = 18 /\ (h \div 128) % 64 = 37
      /\ (h \div 32768) % 2 = B(ins.sf) /\ (h \div 8192) % 4 = ins.opc
      /\ (h \div 32) % 4 = field /\ h % 32 = high
  BY <1>1, <1>2, <1>3, <1>4, <1>5, MovWideHalf
<1>7. l \in Half /\ (l \div 32) % 2048 = low /\ l % 32 = ins.rd
  BY <1>1, <1>3, <1>5, MovWideLowerHalf
<1>8. w \in Words /\ ~IsHlt(w) /\ ~IsAddSub(w) /\ IsMovWide(w)
  <2>1. w \in Words
    BY <1>5, <1>6, <1>7 DEF Words
  <2>. QED BY <1>6, <2>1, FieldWidths DEF IsHlt, IsAddSub, IsMovWide
<1>9. MovWideFields(w) =
        [kind |-> "MovWide", sf |-> B(ins.sf) = 1, opc |-> ins.opc,
         hw |-> ins.hw, imm |-> ins.imm, rd |-> ins.rd]
  <2>1. 2 ^ 11 = 2048
    OBVIOUS
  <2>2. /\ Bits(h, 15, 15) = B(ins.sf) /\ Bits(h, 13, 14) = ins.opc
        /\ Bits(h, 5, 6) = field /\ Bits(h, 0, 4) = high
        /\ Bits(l, 5, 15) = low /\ Bits(l, 0, 4) = ins.rd
    BY <1>6, <1>7, FieldWidths
  <2>. QED BY <1>3, <1>4, <2>1, <2>2 DEF MovWideFields
<1>10. MovWideFields(w) =
        [kind |-> "MovWide", sf |-> ins.sf, opc |-> ins.opc, hw |-> ins.hw,
         imm |-> ins.imm, rd |-> ins.rd]
  BY <1>1, <1>9, BitFlag
<1>11. MovWideFields(w) = ins
  BY <1>1, <1>10 DEF MovWides
<1>. QED BY <1>8, <1>11 DEF decode, w

\* Every instruction is what decode makes of its encoding, reserved shifts and
\* overlapping patterns notwithstanding: decode (decode.rs:71) misses none, and
\* with InvertibleHolds it is one to one between the words it accepts,
\* reserved shifts aside, and the instructions.
THEOREM EveryInstructionDecodes ==
  \A ins \in AddSubs \cup MovWides \cup Hlts :
    Encoding(ins) \in Words /\ decode(Encoding(ins)) = ins
<1>1. ASSUME NEW ins \in Hlts
      PROVE  Encoding(ins) \in Words /\ decode(Encoding(ins)) = ins
  <2>1. Encoding(ins) = [hi |-> 54275, lo |-> ins.imm] /\ ins.imm \in Half
    BY DEF Encoding, Hlts
  <2>2. 54275 \in Half
    BY DEF Half
  <2>3. decode(Encoding(ins)) = [kind |-> "Hlt", imm |-> ins.imm]
    BY <2>1 DEF decode, IsHlt
  <2>. QED BY <2>1, <2>2, <2>3 DEF Words, Hlts
<1>. QED BY <1>1, AddSubEncoded, MovWideEncoded

-----------------------------------------------------------------------------
(* Theorems of the fetched words *)

\* Whatever words are fetched, none matches two of the patterns decode tests
\* one after the other (decode.rs:74, :79 and :104).
THEOREM PatternsDisjoint == Spec => []PatternsAreDisjoint
<1>1. Spec => []IsWord
  BY InitWords, NextWords, PTL DEF Spec
<1>. QED
  BY <1>1, DisjointPatterns, PTL

\* Whatever words are fetched, an instruction that decode returns is one the
\* executor takes: its registers index the file and its immediates and shifts
\* have the widths the executor assumes.
THEOREM DecodedTaken == Spec => []DecodedIsInstruction
<1>1. Spec => []IsWord
  BY InitWords, NextWords, PTL DEF Spec
<1>. QED
  BY <1>1, InstructionDecoded, PTL

\* Whatever words are fetched, nothing of one that decodes is lost: no two
\* words, reserved shifts aside, are the same instruction.
THEOREM InvertibleHolds == Spec => []DecodingIsInvertible
<1>1. Spec => []IsWord
  BY InitWords, NextWords, PTL DEF Spec
<1>. QED
  BY <1>1, NothingLost, PTL
=============================================================================
