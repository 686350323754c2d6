------------------------------ MODULE EepromRead ------------------------------
(***************************************************************************)
(* How the entity information of a power supply, a fan tray or the system  *)
(* is read from its EEPROM.                                                *)
(*                                                                         *)
(* A call reads the EEPROM in many bus transactions, with no mutex over    *)
(* them: other calls on the same EEPROM come in between, transactions fail *)
(* and the unit is pulled and another one plugged.  The configuration      *)
(* picks one of five ways to read:                                         *)
(*   onie_small  a TLV image under a CRC, bytes at explicit addresses;     *)
(*   onie_large  the same from a chip of 8192 or 16384 bytes, whose        *)
(*               address is written in a transaction of its own before     *)
(*               each byte is received;                                    *)
(*   exos_psu    one block under a checksum;                               *)
(*   dell        a table of fields, not under a checksum (Delta too);      *)
(*   exos_fan    a chain of TLVs, not under a checksum.                    *)
(* The checksums are taken to be perfect.                                  *)
(***************************************************************************)
EXTENDS Integers, Sequences

CONSTANTS
  Threads,            \* threads that ask for the entity information
  Units,              \* units that can be plugged
  NoUnit,             \* the slot is empty; nothing has been read
  Mixed,              \* what was read is not from one unit and in its place
  SMALL,              \* bytes a one-byte address reaches (256)
  LARGE,              \* bytes of the large chip (8192 or 16384)
  HEADER,             \* bytes of the TLV header
  CRC_SIZE,           \* bytes of the CRC
  Fields,             \* lengths of the TLV fields of a unit, without the CRC
  TotalLen,           \* total_len in the TLV header of a unit
  Pieces,             \* pieces read by exos_psu, and fields of the dell table
  KnownPart,          \* the units whose part number the driver knows
  Tlv,                \* the chain of a fan tray: heads by their offset
  DeviceSize,         \* the device size in the chain of a fan tray
  Fantray,            \* the units whose software id is FANTRAY
  MAX_TLV_VALUE_LEN   \* the longest value of a chain (256)

Parsers == {"onie_small", "onie_large", "exos_psu", "dell", "exos_fan"}
Onie == {"onie_small", "onie_large"}
Checked == Onie \cup {"exos_psu"}

TLV_FIELD_SIZE == 2  \* sizeof(sdi_onie_tlv_field)
TL_FIELD_SIZE == 1   \* SDI_TL_FIELD_SIZE, one less
MIN_TLV_LEN == 4     \* type and length of an EXOS TLV

Types == {"size", "software", "part", "known", "unknown", "eoi"}

ASSUME NameAssumption ==
  /\ NoUnit \notin Units
  /\ Mixed \notin Units \cup {NoUnit}

ASSUME ImageAssumption ==
  /\ SMALL \in Nat \ {0} /\ LARGE \in Nat \ {0} /\ SMALL <= LARGE
  /\ HEADER \in 1..SMALL
  /\ CRC_SIZE \in Nat
  /\ Fields \in [Units -> Seq(Nat)]
  /\ TotalLen \in [Units -> Nat \ {0}]
  /\ Pieces \in Nat \ {0}

\* A chain starts at 0 and goes from a head to the next; nothing follows EOI.
ASSUME ChainAssumption ==
  /\ DeviceSize \in [Units -> Nat]
  /\ MAX_TLV_VALUE_LEN \in Nat
  /\ \A u \in Units :
       /\ DOMAIN Tlv[u] \subseteq Nat
       /\ 0 \in DOMAIN Tlv[u]
       /\ \A o \in DOMAIN Tlv[u] :
            /\ Tlv[u][o].type \in Types
            /\ Tlv[u][o].len \in Nat
            /\ LET next == o + MIN_TLV_LEN + Tlv[u][o].len
               IN  /\ \A p \in DOMAIN Tlv[u] : p <= o \/ p >= next
                   /\ Tlv[u][o].type = "eoi" =>
                        \A p \in DOMAIN Tlv[u] : p <= o
                   /\ Tlv[u][o].type # "eoi" => next \in DOMAIN Tlv[u]

VARIABLES
  parser,   \* how the EEPROM of this slot is read
  unit,     \* the unit in the slot, or NoUnit
  counter,  \* the address counter of the large chip
  pc,       \* where a thread is
  pos,      \* the next byte, piece or offset of its call
  end,      \* where the current part ends
  aimed,    \* the address of the next byte has been written
  src,      \* whose bytes have been read: a unit, NoUnit or Mixed
  shown,    \* the fields put into the entity information
  clean,    \* history: nothing has come in between the steps of the call
  result    \* how the last call ended

vars == <<parser, unit, counter, pc, pos, end, aimed, src, shown, clean,
          result>>

(***************************************************************************)
(* The images.                                                             *)
(***************************************************************************)
Size == IF parser = "onie_large" THEN LARGE ELSE SMALL

\* The lengths the walk finds: those of the fields, then that of the CRC,
\* then zeros, as the buffer is calloc'ed.
Length(u, i) == IF i <= Len(Fields[u]) THEN Fields[u][i]
                ELSE IF i = Len(Fields[u]) + 1 THEN CRC_SIZE ELSE 0

\* Where field i starts.
Position(u) ==
  LET at[i \in Nat \ {0}] ==
        IF i = 1 THEN HEADER ELSE at[i - 1] + Length(u, i - 1) + TLV_FIELD_SIZE
  IN  at

\* tlv_len when the walk comes to field i: each step subtracts the length of
\* the field it comes to.
Left(u) ==
  LET left[i \in Nat \ {0}] ==
        IF i = 1 THEN TotalLen[u] - (CRC_SIZE + TLV_FIELD_SIZE)
        ELSE left[i - 1] - Length(u, i) - TL_FIELD_SIZE
  IN  left

\* The walk goes on while tlv_len is positive; it gets smaller with each step.
Visited(u) == {i \in 1..TotalLen[u] : Left(u)[i] > 0}

\* The fields of the image the walk puts into the entity information.  What
\* it finds after them, the CRC and zeros, has no tag it knows.
Applied(u) == Visited(u) \cap 1..Len(Fields[u])

\* Images are made of their fields, and the walk, which runs on behind the CRC,
\* stays in the buffer.
ASSUME WalkAssumption ==
  \A u \in Units :
    /\ HEADER + TotalLen[u] = Position(u)[Len(Fields[u]) + 2]
    /\ HEADER + TotalLen[u] <= SMALL =>
         \A i \in Visited(u) :
           Position(u)[i + 1] + TLV_FIELD_SIZE <= SMALL

(***************************************************************************)
(* A transaction.                                                          *)
(***************************************************************************)
Merge(s, u) == IF s \in {NoUnit, u} THEN u ELSE Mixed

\* Whoever is between writing an address and receiving its byte is disturbed.
Interfered(t) == [s \in Threads |-> clean[s] /\ (s = t \/ ~aimed[s])]

Return(t, r) ==
  /\ pc' = [pc EXCEPT ![t] = "idle"]
  /\ result' = [result EXCEPT ![t] = r]

\* A byte or a piece is due.
Reading(t) == pc[t] \in {"header", "body"} /\ pos[t] < end[t]

Init ==
  /\ parser \in Parsers
  /\ unit \in Units \cup {NoUnit}
  /\ counter = 0
  /\ pc = [t \in Threads |-> "idle"]
  /\ pos = [t \in Threads |-> 0]
  /\ end = [t \in Threads |-> 0]
  /\ aimed = [t \in Threads |-> FALSE]
  /\ src = [t \in Threads |-> NoUnit]
  /\ shown = [t \in Threads |-> {}]
  /\ clean = [t \in Threads |-> TRUE]
  /\ result = [t \in Threads |-> "none"]

\* sdi_onie_..., sdi_dell_..., sdi_delta_..., sdi_extreme_..._eeprom_data_get:
\* the call begins.
Start(t) ==
  /\ pc[t] = "idle"
  /\ pc' = [pc EXCEPT ![t] = IF parser \in Onie THEN "header"
                             ELSE IF parser = "exos_fan" THEN "head"
                             ELSE "body"]
  /\ pos' = [pos EXCEPT ![t] = 0]
  /\ end' = [end EXCEPT ![t] = IF parser \in Onie THEN HEADER ELSE Pieces]
  /\ src' = [src EXCEPT ![t] = NoUnit]
  /\ shown' = [shown EXCEPT ![t] = {}]
  /\ clean' = [clean EXCEPT ![t] = TRUE]
  /\ result' = [result EXCEPT ![t] = "none"]
  /\ UNCHANGED <<parser, unit, counter, aimed>>

\* Mutant of Aim: the address is written once and the bytes are received one
\* after the other, as the TODO of sdi_eeprom_read has it.
AimOnce(t) ==
  /\ parser = "onie_large" /\ unit # NoUnit
  /\ Reading(t) /\ ~aimed[t]
  /\ counter' = IF pos[t] \in {0, HEADER} THEN pos[t] % SMALL ELSE counter
  /\ aimed' = [aimed EXCEPT ![t] = TRUE]
  /\ clean' = IF pos[t] \in {0, HEADER} THEN Interfered(t) ELSE clean
  /\ UNCHANGED <<parser, unit, pc, pos, end, src, shown, result>>

\* sdi_eeprom_read: the dummy write.  Only the low byte of the offset is sent.
Aim(t) ==
  /\ parser = "onie_large" /\ unit # NoUnit
  /\ Reading(t) /\ ~aimed[t]
  /\ counter' = pos[t] % SMALL
  /\ aimed' = [aimed EXCEPT ![t] = TRUE]
  /\ clean' = Interfered(t)
  /\ UNCHANGED <<parser, unit, pc, pos, end, src, shown, result>>

\* sdi_eeprom_read: the byte at the address of the chip, which goes on to the
\* next.
Receive(t) ==
  /\ aimed[t] /\ unit # NoUnit
  /\ counter' = (counter + 1) % LARGE
  /\ src' = [src EXCEPT ![t] = IF counter = pos[t] THEN Merge(@, unit)
                               ELSE Mixed]
  /\ pos' = [pos EXCEPT ![t] = @ + 1]
  /\ aimed' = [aimed EXCEPT ![t] = FALSE]
  /\ clean' = Interfered(t)
  /\ UNCHANGED <<parser, unit, pc, end, shown, result>>

\* sdi_smbus_read_multi_byte, one byte, piece or field of it.
ReadPiece(t) ==
  /\ parser \in {"onie_small", "exos_psu", "dell"} /\ unit # NoUnit
  /\ Reading(t)
  /\ src' = [src EXCEPT ![t] = Merge(@, unit)]
  /\ pos' = [pos EXCEPT ![t] = @ + 1]
  /\ shown' = IF parser = "dell" THEN [shown EXCEPT ![t] = @ \cup {pos[t]}]
              ELSE shown
  /\ UNCHANGED <<parser, unit, counter, pc, end, aimed, clean, result>>

\* Mutant of ValidateHeader: total_len is not compared with the size.
ValidateHeaderUnbounded(t) ==
  /\ pc[t] = "header" /\ pos[t] = end[t]
  /\ \E u \in Units :
       /\ src[t] \in {u, Mixed}
       /\ end' = [end EXCEPT ![t] = HEADER + TotalLen[u]]
  /\ pc' = [pc EXCEPT ![t] = "body"]
  /\ UNCHANGED <<parser, unit, counter, pos, aimed, src, shown, clean, result>>

\* sdi_onie_validate_header: a header whose bytes are not in their places can
\* hold any length, if it passes at all.
ValidateHeader(t) ==
  /\ pc[t] = "header" /\ pos[t] = end[t]
  /\ \/ /\ \E u \in Units :
             /\ src[t] \in {u, Mixed}
             /\ HEADER + TotalLen[u] <= Size
             /\ end' = [end EXCEPT ![t] = HEADER + TotalLen[u]]
        /\ pc' = [pc EXCEPT ![t] = "body"]
        /\ UNCHANGED result
     \/ /\ src[t] \in Units => HEADER + TotalLen[src[t]] > Size
        /\ Return(t, "err")
        /\ UNCHANGED end
  /\ UNCHANGED <<parser, unit, counter, pos, aimed, src, shown, clean>>

\* Mutant of ValidateChecksum: its result is not looked at.
ValidateChecksumIgnored(t) ==
  /\ parser \in Onie /\ pc[t] = "body" /\ pos[t] = end[t]
  /\ \E u \in Units : /\ src[t] \in {u, Mixed}
                      /\ shown' = [shown EXCEPT ![t] = Applied(u)]
  /\ Return(t, "ok")
  /\ UNCHANGED <<parser, unit, counter, pos, end, aimed, src, clean>>

\* sdi_onie_eeprom_data_get after the second read, whose result it drops: the
\* CRC, and the walk over the fields.
ValidateChecksum(t) ==
  /\ parser \in Onie /\ pc[t] = "body" /\ pos[t] = end[t]
  /\ IF src[t] \in Units
     THEN /\ shown' = [shown EXCEPT ![t] = Applied(src[t])]
          /\ Return(t, "ok")
     ELSE /\ Return(t, "err")
          /\ UNCHANGED shown
  /\ UNCHANGED <<parser, unit, counter, pos, end, aimed, src, clean>>

\* sdi_extreme_exos_psu_eeprom_data_get after its read: the checksum and the
\* table of part numbers.
LookUpPart(t) ==
  /\ parser = "exos_psu" /\ pc[t] = "body" /\ pos[t] = end[t]
  /\ IF src[t] \in Units /\ src[t] \in KnownPart
     THEN /\ shown' = [shown EXCEPT ![t] = 0..(Pieces - 1)]
          /\ Return(t, "ok")
     ELSE /\ Return(t, "err")
          /\ UNCHANGED shown
  /\ UNCHANGED <<parser, unit, counter, pos, end, aimed, src, clean>>

\* sdi_delta_psu_eeprom_info_fill and sdi_dell_legacy_info_fill: the end of the
\* table.
EndTable(t) ==
  /\ parser = "dell" /\ pc[t] = "body" /\ pos[t] = end[t]
  /\ Return(t, "ok")
  /\ UNCHANGED <<parser, unit, counter, pos, end, aimed, src, shown, clean>>

\* sdi_extreme_exos_tlv_get, type and length.  Where the chain of another unit
\* was left, anything may be found, and the call may end in any way.
ReadHead(t) ==
  /\ pc[t] = "head" /\ unit # NoUnit
  /\ src' = [src EXCEPT ![t] = Merge(@, unit)]
  /\ IF Merge(src[t], unit) = Mixed
     THEN \E r \in {"ok", "err"} : Return(t, r)
     ELSE IF Tlv[unit][pos[t]].len > MAX_TLV_VALUE_LEN
     THEN Return(t, "err")
     ELSE /\ pc' = [pc EXCEPT ![t] = "value"]
          /\ UNCHANGED result
  /\ UNCHANGED <<parser, unit, counter, pos, end, aimed, shown, clean>>

Has(u, heads, type) == \E o \in heads : Tlv[u][o].type = type

\* No more room for another TLV, when heads have been read up to next.
\* eeprom_size is 0 until it has been read.
NoRoom(u, heads, next) ==
  ~Has(u, heads, "size") \/ next + MIN_TLV_LEN > DeviceSize[u]

\* sdi_extreme_exos_tlv_get, the value, and what
\* sdi_extreme_exos_fan_eeprom_data_get makes of it.
ReadValue(t) ==
  /\ pc[t] = "value" /\ unit # NoUnit
  /\ src' = [src EXCEPT ![t] = Merge(@, unit)]
  /\ IF Merge(src[t], unit) = Mixed
     THEN /\ \E r \in {"ok", "err"} : Return(t, r)
          /\ UNCHANGED <<pos, shown>>
     ELSE LET tlv == Tlv[unit][pos[t]]
              heads == shown[t] \cup {pos[t]}
              next == pos[t] + MIN_TLV_LEN + tlv.len
          IN  /\ pos' = [pos EXCEPT ![t] = next]
              /\ shown' = [shown EXCEPT ![t] = heads]
              /\ IF \/ tlv.type = "unknown"
                    \/ tlv.type = "part" /\ unit \notin KnownPart
                 THEN Return(t, "err")
                 ELSE IF tlv.type # "eoi" /\ ~NoRoom(unit, heads, next)
                 THEN /\ pc' = [pc EXCEPT ![t] = "head"]
                      /\ UNCHANGED result
                 ELSE Return(t, IF /\ Has(unit, heads, "software")
                                   /\ unit \in Fantray
                                   /\ tlv.type = "eoi"
                                THEN "ok" ELSE "err")
  /\ UNCHANGED <<parser, unit, counter, end, aimed, clean>>

\* A transaction fails, as all do while the slot is empty; one that moves the
\* address of the chip may have done so.  sdi_onie_eeprom_data_get goes on to
\* the CRC with what it has in place of the rest, zeros.
BusError(t) ==
  /\ Reading(t) \/ pc[t] \in {"head", "value"}
  /\ clean' = [Interfered(t) EXCEPT ![t] = FALSE]
  /\ aimed' = [aimed EXCEPT ![t] = FALSE]
  /\ \/ UNCHANGED counter
     \/ /\ parser = "onie_large" /\ unit # NoUnit
        /\ counter' = IF aimed[t] THEN (counter + 1) % LARGE
                      ELSE pos[t] % SMALL
  /\ IF parser \in Onie /\ pc[t] = "body"
     THEN /\ pos' = [pos EXCEPT ![t] = end[t]]
          /\ src' = [src EXCEPT ![t] = Mixed]
          /\ UNCHANGED <<pc, result>>
     ELSE /\ Return(t, "err")
          /\ UNCHANGED <<pos, src>>
  /\ UNCHANGED <<parser, unit, end, shown>>

\* The unit is pulled.
Pull ==
  /\ unit # NoUnit
  /\ unit' = NoUnit
  /\ clean' = [t \in Threads |-> clean[t] /\ pc[t] = "idle"]
  /\ UNCHANGED <<parser, counter, pc, pos, end, aimed, src, shown, result>>

\* A unit is plugged; its chip starts at address 0.
Plug ==
  /\ unit = NoUnit
  /\ unit' \in Units
  /\ counter' = 0
  /\ UNCHANGED <<parser, pc, pos, end, aimed, src, shown, clean, result>>

Step(t) ==
  \/ Start(t) \/ Aim(t) \/ Receive(t) \/ ReadPiece(t)
  \/ ValidateHeader(t) \/ ValidateChecksum(t)
  \/ LookUpPart(t) \/ EndTable(t)
  \/ ReadHead(t) \/ ReadValue(t) \/ BusError(t)

Next == (\E t \in Threads : Step(t)) \/ Pull \/ Plug

Spec == Init /\ [][Next]_vars

(***************************************************************************)
(* Properties.                                                             *)
(***************************************************************************)
Domains ==
  /\ parser \in Parsers
  /\ unit \in Units \cup {NoUnit}
  /\ counter \in 0..(LARGE - 1)
  /\ pc \in [Threads -> {"idle", "header", "body", "head", "value"}]
  /\ pos \in [Threads -> Nat]
  /\ end \in [Threads -> Nat]
  /\ aimed \in [Threads -> BOOLEAN]
  /\ src \in [Threads -> Units \cup {NoUnit, Mixed}]
  /\ shown \in [Threads -> SUBSET Nat]
  /\ clean \in [Threads -> BOOLEAN]
  /\ result \in [Threads -> {"none", "ok", "err"}]

InBounds(t) ==
  /\ parser \in Onie => end[t] <= Size
  /\ pc[t] \in {"header", "body"} => pos[t] <= end[t]
  /\ aimed[t] => Reading(t)
  /\ pc[t] \in {"head", "value"} /\ src[t] \in Units =>
       pos[t] \in DOMAIN Tlv[src[t]]

\* Types of the variables: what is read stays in the buffer, an address is
\* written only for a byte that is due, and the walk over a chain does not
\* leave it.
TypeOK == Domains /\ \A t \in Threads : InBounds(t)

\* What the entity information has to show of a unit.
AllOf(u) == IF parser \in Onie THEN 1..Len(Fields[u])
            ELSE IF parser = "exos_fan" THEN DOMAIN Tlv[u]
            ELSE 0..(Pieces - 1)

\* A call that succeeds has filled in all fields, and all are from one unit,
\* whatever came in between; readers without a checksum promise this only when
\* nothing did.  This is what the CRC is for: the second read's result is
\* dropped, and an address may be moved by another call (sdi_onie_eeprom.c,
\* sdi_dell_eeprom.c, sdi_extreme_eeprom.c).
InfoOfOneUnit ==
  \A t \in Threads :
    result[t] = "ok" /\ (parser \in Checked \/ clean[t]) =>
      src[t] \in Units /\ shown[t] = AllOf(src[t])

\* The EEPROMs a driver reads: no byte beyond what a one-byte address reaches,
\* a known part, a chain it accepts.
WellFormed(u) ==
  /\ u \in Fantray
  /\ Tlv[u][0].type = "size"
  /\ \E o \in DOMAIN Tlv[u] : Tlv[u][o].type = "software"
  /\ \A o \in DOMAIN Tlv[u] :
       /\ o + MIN_TLV_LEN <= DeviceSize[u]
       /\ Tlv[u][o].len <= MAX_TLV_VALUE_LEN
       /\ Tlv[u][o].type # "unknown"
       /\ Tlv[u][o].type = "part" => u \in KnownPart

Readable(u) ==
  /\ parser \in Onie      => HEADER + TotalLen[u] <= SMALL
  /\ parser = "exos_psu"  => u \in KnownPart
  /\ parser = "exos_fan"  => WellFormed(u)

\* A call on an EEPROM that can be read fails only if a transaction failed, the
\* unit was pulled, or another call moved the address between the two
\* transactions that read a byte: other calls between two bytes are harmless,
\* which is why sdi_eeprom_read writes the address before every byte.
FailsOnlyDisturbed ==
  [][\A t \in Threads :
       result[t] = "none" /\ result'[t] = "err" /\ clean'[t] =>
         ~Readable(unit)]_vars
===============================================================================
