-------------------------------- MODULE MCDecode --------------------------------
(* Every upper half, with lower halves in which each bit is set and clear.  *)
EXTENDS DecodeTests

AllHis == 0..65535
SomeLos == {0, 35381, 30154, 65535}
=============================================================================
