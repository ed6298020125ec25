--------------------------- MODULE MCBleFirmware ---------------------------
(* Instances of BleFirmware for TLC.  Bytes of two bits are enough for an  *)
(* erased byte, a cleared one and two that differ without one containing   *)
(* the other.                                                              *)
EXTENDS BleFirmware
MCBits == {0, 1}
MCRandomBytes == {{0, 1}, {0}}
MCCompany == <<{1}, {0, 1}, {}>>
MCRandomStatic == {1}
MCFactory == {0}
=============================================================================
