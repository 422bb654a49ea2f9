---------------------------- MODULE MCCShake256 ----------------------------
(* CShake256 for TLC: blocks of four bytes.  A name of two bytes makes the   *)
(* preamble a whole number of blocks; one of 32 needs two bytes of length.    *)
(* The data are made of zeros, like the padding, and of the byte the padding  *)
(* of a digest begins with.                                                   *)
EXTENDS CShake256

MCStrings == {<<>>, <<0>>, <<4, 1>>, [i \in 1..32 |-> 1]}
=============================================================================
