---------------------------- MODULE PinGroupLevel ----------------------------
(***************************************************************************)
(* How a CPLD pin group spreads its level over registers and collects it   *)
(* again.                                                                  *)
(*                                                                         *)
(* A group is a run of bits that starts at bit start_offset of its first   *)
(* register and ends at bit end_offset of its last one; its level is an    *)
(* unsigned number, stored inverted when the polarity is.  CpldLines       *)
(* treats a level as the set of the group's cells; this module says which  *)
(* bit of the number is which cell.  Numbers are sets of bit positions, so *)
(* that a shift, a mask and a complement are what they are in C.  A call   *)
(* is one step here: what interleaves with it, and bus errors, are the     *)
(* subject of CpldLines.                                                   *)
(***************************************************************************)
EXTENDS Naturals

CONSTANTS
  BITS_PER_BYTE,   \* bits of a register, 8 in the code
  Groups           \* the configurations of a pin group

\* A level is a uint_t, four bytes, so a group spans at most four registers.
ASSUME GroupAssumption ==
  /\ BITS_PER_BYTE \in Nat \ {0}
  /\ Groups \subseteq [length : 1..4, start : 0..(BITS_PER_BYTE - 1),
                       end : 0..(BITS_PER_BYTE - 1), inverted : BOOLEAN]
  /\ \A g \in Groups : g.length = 1 => g.start <= g.end

\* A group of several registers starts at bit 0 of the first one.
Aligned == \A g \in Groups : g.length > 1 => g.start = 0

VARIABLES
  group,   \* the configuration
  regs,    \* the registers of the group
  asked,   \* {the last level written}, or {} at first
  got      \* {the level read since}, or {}

groupVars == <<group, regs, asked, got>>

Shl(s, n) == {b + n : b \in s}
Shr(s, n) == {b - n : b \in {x \in s : x >= n}}

Byte(s) == {b \in s : b < BITS_PER_BYTE}

\* First and last bit of the group in register i.
Lo(g, i) == IF i = 1 THEN g.start ELSE 0

\* Mutant of Hi: end_offset bounds every register of the group.
HiIsEnd(g, i) == g.end

Hi(g, i) == IF i = g.length THEN g.end ELSE BITS_PER_BYTE - 1

Width(g) == (g.length - 1) * BITS_PER_BYTE + g.end + 1 - g.start

\* Mutant of Toggle: the complement is not masked.
ToggleByte(s, lo, hi) == 0..(BITS_PER_BYTE - 1) \ s

\* SDI_CPLD_TOGGLE_AND_MASK
Toggle(s, lo, hi) == 0..(hi - lo) \ s

\* Mutant of SubBitstream: one bit too many is cleared.
SubBitstreamInclusive(dst, src, lo, hi) ==
  {b \in dst : b < lo \/ b > hi} \cup Shl(src, lo)

\* sdi_cpld_bit_set_sub_bitstream
SubBitstream(dst, src, lo, hi) == {b \in dst : b < lo \/ b >= hi} \cup Shl(src, lo)

\* The register i that the write loop computes from its old value.
NewRegister(g, old, v, i) ==
  LET byte == Byte(Shr(v, (i - 1) * BITS_PER_BYTE))
      data == IF g.inverted THEN Toggle(byte, Lo(g, i), Hi(g, i)) ELSE byte
  IN Byte(SubBitstream(old, data, Lo(g, i), Hi(g, i) + 1))

\* What the read loop takes from register i.  The only register of a group is
\* shifted down before it is masked and toggled; the first of several is
\* toggled as it is, and the sum is shifted at the end.
RegisterData(g, reg, i) ==
  LET data == IF g.length = 1
              THEN {b \in Shr(reg, g.start) : b <= g.end - g.start}
              ELSE {b \in reg : b <= Hi(g, i)}
  IN IF g.inverted THEN Toggle(data, Lo(g, i), Hi(g, i)) ELSE data

LevelOf(g, r) ==
  LET level == UNION {Shl(RegisterData(g, r[i], i), (i - 1) * BITS_PER_BYTE) :
                      i \in 1..g.length}
  IN IF g.length = 1 THEN level ELSE Shr(level, g.start)

GroupInit ==
  /\ group \in Groups
  /\ regs \in [1..group.length -> SUBSET (0..(BITS_PER_BYTE - 1))]
  /\ asked = {}
  /\ got = {}

\* Callers pass levels that fit the group.
Write ==
  /\ \E v \in SUBSET (0..(Width(group) - 1)) :
       /\ regs' = [i \in 1..group.length |-> NewRegister(group, regs[i], v, i)]
       /\ asked' = {v}
  /\ got' = {}
  /\ UNCHANGED group

Read ==
  /\ got' = {LevelOf(group, regs)}
  /\ UNCHANGED <<group, regs, asked>>

GroupNext == Write \/ Read

GroupSpec == GroupInit /\ [][GroupNext]_groupVars
-----------------------------------------------------------------------------

\* Types of the state.
GroupTypeOK ==
  /\ group \in Groups
  /\ regs \in [1..group.length -> SUBSET (0..(BITS_PER_BYTE - 1))]
  /\ \A v \in asked \cup got : v \subseteq Nat

\* The level read from a group is the level written to it.  It needs Aligned
\* groups and levels no wider than their group.
ReadBack == \A v \in asked, w \in got : w = v

\* Bit p of the level that is read is the p-th bit of the group, counted from
\* start_offset of the first register, as the figures in the code lay it out.
\* It needs Aligned groups.
Layout ==
  \A w \in got :
    w = {p \in 0..(Width(group) - 1) :
             LET at == p + group.start
             IN (at % BITS_PER_BYTE \in regs[at \div BITS_PER_BYTE + 1])
                  # group.inverted}

\* Writing a level leaves the other bits of the group's registers, which
\* belong to other lines, alone.  It needs levels no wider than the group.
NeighboursKept ==
  [][\A i \in 1..group.length :
       {b \in regs'[i] : b < Lo(group, i) \/ b > Hi(group, i)} =
       {b \in regs[i] : b < Lo(group, i) \/ b > Hi(group, i)}]_groupVars
==============================================================================
