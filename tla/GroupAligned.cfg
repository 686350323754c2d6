SPECIFICATION GroupSpec
CONSTANTS
  BITS_PER_BYTE = 3
  Groups <- AlignedGroups
INVARIANTS ReadBack Layout
PROPERTIES NeighboursKept
