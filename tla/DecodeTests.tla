------------------------------ MODULE DecodeTests ------------------------------
(***************************************************************************)
(* The unit tests of decode.rs: words and what they decode to.             *)
(***************************************************************************)
EXTENDS Decode

\* decode of the word with these halves is to be ins.
Decoding(hi, lo, ins) == <<[hi |-> hi, lo |-> lo], ins>>

Add(sf, s, rd, rn, imm12, shift) == AddSubImmediate(sf, FALSE, s, rd, rn, imm12, shift)
Sub(sf, s, rd, rn, imm12, shift) == AddSubImmediate(sf, TRUE, s, rd, rn, imm12, shift)
Movn(sf, hw, imm16, rd) == MovWideImmediate(sf, 0, hw, imm16, rd)
Movz(sf, hw, imm16, rd) == MovWideImmediate(sf, 2, hw, imm16, rd)
Movk(sf, hw, imm16, rd) == MovWideImmediate(sf, 3, hw, imm16, rd)

AddTests ==
  {Decoding(\h9100, \h1420, Add(TRUE, FALSE, 0, 1, 5, FALSE)),
   Decoding(\h1100, \hA8C5, Add(FALSE, FALSE, 5, 6, 42, FALSE)),
   Decoding(\h9140, \h1420, Add(TRUE, FALSE, 0, 1, 5, TRUE)),
   Decoding(\h1140, \h056A, Add(FALSE, FALSE, 10, 11, 1, TRUE)),
   Decoding(\h913F, \hFC00, Add(TRUE, FALSE, 0, 0, 4095, FALSE))}

SubTests ==
  {Decoding(\hD17F, \hFC62, Sub(TRUE, FALSE, 2, 3, 4095, TRUE)),
   Decoding(\hD100, \h056A, Sub(TRUE, FALSE, 10, 11, 1, FALSE)),
   Decoding(\h5100, \hA8C5, Sub(FALSE, FALSE, 5, 6, 42, FALSE)),
   Decoding(\h5140, \h1EB4, Sub(FALSE, FALSE, 20, 21, 7, TRUE))}

MovzTests ==
  {Decoding(\hD2B5, \h79A4, Movz(TRUE, 16, \hABCD, 4)),
   Decoding(\hD280, \h0840, Movz(TRUE, 0, \h42, 0)),
   Decoding(\hD2E0, \h0025, Movz(TRUE, 48, 1, 5)),
   Decoding(\hD2D7, \hDDE8, Movz(TRUE, 32, \hBEEF, 8)),
   Decoding(\h5280, \h0840, Movz(FALSE, 0, \h42, 0)),
   Decoding(\h52B5, \h79A3, Movz(FALSE, 16, \hABCD, 3))}

MovnMovkHltTests ==
  {Decoding(\h9280, \h0840, Movn(TRUE, 0, \h42, 0)),
   Decoding(\h92E0, \h0025, Movn(TRUE, 48, 1, 5)),
   Decoding(\hB280, \h0840, MovWideImmediate(TRUE, 1, 0, \h42, 0)),
   Decoding(\hF2D7, \hDDE7, Movk(TRUE, 32, \hBEEF, 7)),
   Decoding(\h72A2, \h468A, Movk(FALSE, 16, \h1234, 10)),
   Decoding(\hD403, 0, Hlt(0)),
   Decoding(\hD403, \h002A, Hlt(42)),
   Decoding(\hD403, \hFFFF, Hlt(65535))}

UnknownTests ==
  {Decoding(halves[1], halves[2], UnknownOpcode) :
     halves \in {<<0, 0>>, <<\hDEAD, \hBEEF>>, <<\hD402, 0>>, <<\hD220, \h0020>>,
                 <<\h9000, 0>>, <<\hFFFF, \hFFFF>>}}

EdgeTests ==
  {Decoding(\hB100, \h0107, Add(TRUE, TRUE, 7, 8, 0, FALSE)),
   Decoding(\hF101, \h9149, Sub(TRUE, TRUE, 9, 10, 100, FALSE)),
   Decoding(\h9100, \h03FF, Add(TRUE, FALSE, ZR, ZR, 0, FALSE)),
   Decoding(\hB140, \h0420, Add(TRUE, TRUE, 0, 1, 1, TRUE)),
   Decoding(\hF17F, \hFC62, Sub(TRUE, TRUE, 2, 3, 4095, TRUE)),
   Decoding(\h9180, \h1420, Add(TRUE, FALSE, 0, 1, 5, FALSE)),
   Decoding(\hD280, \h0020, Movz(TRUE, 0, 1, 0)),
   Decoding(\hD2A0, \h0020, Movz(TRUE, 16, 1, 0)),
   Decoding(\hD2C0, \h0020, Movz(TRUE, 32, 1, 0)),
   Decoding(\hD2E0, \h0020, Movz(TRUE, 48, 1, 0))}

Tests == AddTests \cup SubTests \cup MovzTests \cup MovnMovkHltTests
         \cup UnknownTests \cup EdgeTests

\* The repository's own tests hold of the model: a word with the upper half of
\* a test's decodes to what the test expects, with the test's lower half.
UnitTestsPass ==
  \A test \in Tests :
    test[1].hi = word.hi => decode([word EXCEPT !.lo = test[1].lo]) = test[2]
=============================================================================
