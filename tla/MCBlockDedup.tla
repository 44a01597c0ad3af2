---------------------------- MODULE MCBlockDedup ----------------------------
(***************************************************************************)
(* BlockDedup for TLC.                                                     *)
(***************************************************************************)
EXTENDS BlockDedup, TLC

CONSTANTS s1, s2, s3, b1, b2, src1

\* Streams of one certificate class are interchangeable, as are broadcasters.
StreamSymmetry == Permutations(Streams) \cup Permutations(Broadcasters)
=============================================================================
