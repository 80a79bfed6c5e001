------------------------------ MODULE MCLines ------------------------------
(***************************************************************************)
(* Small instances of LineHistory for TLC.                                 *)
(***************************************************************************)
EXTENDS LineHistoryProps, TLC

\* malloc() may give any unused object, so the objects are interchangeable.
BufferSymmetry == Permutations(Buffers)
=============================================================================
