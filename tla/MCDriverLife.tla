---------------------------- MODULE MCDriverLife ----------------------------
(***************************************************************************)
(* DriverLife for TLC: the writers of /proc/bt803 are interchangeable, and *)
(* only safety is checked.                                                 *)
(***************************************************************************)
EXTENDS DriverLife, TLC

WriterSymmetry == Permutations(Writers)
=============================================================================
