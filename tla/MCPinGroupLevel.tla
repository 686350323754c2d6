--------------------------- MODULE MCPinGroupLevel ---------------------------
(***************************************************************************)
(* An instance of PinGroupLevel for TLC: every placement of a group in     *)
(* one, two and three registers of BITS_PER_BYTE bits (three have a middle *)
(* byte) that starts at bit 0 if it has several.                           *)
(***************************************************************************)
EXTENDS PinGroupLevel

AllGroups(lengths) ==
  {g \in [length : lengths, start : 0..(BITS_PER_BYTE - 1),
          end : 0..(BITS_PER_BYTE - 1), inverted : BOOLEAN] :
     g.length = 1 => g.start <= g.end}

\* Groups as in conf/device.xml: those of several registers start at bit 0.
AlignedGroups == {g \in AllGroups(1..3) : g.length > 1 => g.start = 0}
==============================================================================
