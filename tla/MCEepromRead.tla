----------------------------- MODULE MCEepromRead -----------------------------
(***************************************************************************)
(* An instance of EepromRead for TLC.  The TLV image of u1 has two fields  *)
(* without a value, the shortest ones the walk could miss; that of u2 goes *)
(* beyond what a one-byte address reaches, and does not fit a small chip;  *)
(* that of u3 has one field and the walk ends before the CRC; after that   *)
(* of u4 the walk comes to zeros.  The driver accepts the chain of u1.     *)
(* That of u2 has a software id that is too long, that of u3 an unknown    *)
(* part, and that of u4 no room for EOI.                                   *)
(***************************************************************************)
EXTENDS EepromRead, TLC

CONSTANTS t1, t2, u1, u2, u3, u4

MCFields == u1 :> <<0, 0>> @@ u2 :> <<1, 4>> @@ u3 :> <<0>> @@ u4 :> <<2>>
MCTotalLen == u1 :> 7 @@ u2 :> 12 @@ u3 :> 5 @@ u4 :> 7

TlvHead(type, len) == [type |-> type, len |-> len]
MCTlv ==
  u1 :> (0 :> TlvHead("size", 4) @@ 8 :> TlvHead("software", 2) @@
         14 :> TlvHead("part", 1) @@ 19 :> TlvHead("known", 0) @@
         23 :> TlvHead("eoi", 0)) @@
  u2 :> (0 :> TlvHead("size", 4) @@ 8 :> TlvHead("software", 5) @@
         17 :> TlvHead("eoi", 0)) @@
  u3 :> (0 :> TlvHead("size", 4) @@ 8 :> TlvHead("part", 1) @@
         13 :> TlvHead("unknown", 0) @@ 17 :> TlvHead("eoi", 0)) @@
  u4 :> (0 :> TlvHead("size", 4) @@ 8 :> TlvHead("software", 2) @@
         14 :> TlvHead("eoi", 0))
MCDeviceSize == u1 :> 27 @@ u2 :> 40 @@ u3 :> 40 @@ u4 :> 17

Symmetry == Permutations(Threads)
===============================================================================
