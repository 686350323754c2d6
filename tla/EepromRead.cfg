SPECIFICATION Spec
CONSTANTS
  t1 = t1
  t2 = t2
  u1 = u1
  u2 = u2
  u3 = u3
  u4 = u4
  Threads = {t1, t2}
  Units = {u1, u2, u3, u4}
  NoUnit = NoUnit
  Mixed = Mixed
  SMALL = 12
  LARGE = 24
  HEADER = 1
  CRC_SIZE = 1
  Fields <- MCFields
  TotalLen <- MCTotalLen
  Pieces = 3
  KnownPart = {u1, u2}
  Tlv <- MCTlv
  DeviceSize <- MCDeviceSize
  Fantray = {u1, u2, u3, u4}
  MAX_TLV_VALUE_LEN = 4
SYMMETRY Symmetry
INVARIANTS TypeOK InfoOfOneUnit
PROPERTIES FailsOnlyDisturbed
