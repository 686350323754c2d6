----------------------------- MODULE MCSfpModule ------------------------------
(***************************************************************************)
(* An instance of SfpModule for TLC: two threads, so that a call comes     *)
(* between the two selections of a calibrated read, and between the calls  *)
(* of one thread.                                                          *)
(***************************************************************************)
EXTENDS SfpModule, TLC

CONSTANTS t1, t2
==============================================================================
