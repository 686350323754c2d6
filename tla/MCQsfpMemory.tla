---------------------------- MODULE MCQsfpMemory -----------------------------
(***************************************************************************)
(* An instance of QsfpMemory for TLC: two threads and two of the four      *)
(* lanes, enough for one thread to read or switch while another one has    *)
(* page 3 selected or switches the other lane.                             *)
(***************************************************************************)
EXTENDS QsfpMemory, TLC

CONSTANTS t1, t2, l1, l2
==============================================================================
