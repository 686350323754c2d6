SPECIFICATION Spec
CONSTANTS
  fan1 = fan1
  fan2 = fan2
  Fans = {fan1, fan2}
  NoFan = NoFan
INVARIANTS FaultKept
