SPECIFICATION FairSpec
CONSTANTS
  fan1 = fan1
  fan2 = fan2
  Fans = {fan1, fan2}
  NoFan = NoFan
  NoSpeed = NoSpeed
  MaxSpeed <- MCMaxSpeed
  Pulses <- MCPulses
  NewMax = {0}
  Speeds = {3000, 9000}
  Volts = {511}
  MaxFaults <- MCMaxFaults
INVARIANTS TypeOK FaultsKept NoFalseAlarm NeverUnwatched SpeedHeld
PROPERTIES FaultReported
