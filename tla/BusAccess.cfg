SPECIFICATION FairSpec
CONSTANTS
  t1 = t1
  t2 = t2
  cpld = cpld
  q1 = q1
  q2 = q2
  q3 = q3
  sensor = sensor
  twin = twin
  direct = direct
  mod1 = mod1
  mod2 = mod2
  mux1 = mux1
  NoThread = NoThread
  NoGroup = NoGroup
  Parent = Parent
  Threads = {t1, t2}
  Devices = {cpld, q1, q2, q3, sensor, twin, direct}
  Channels = {0, 2, 3}
  MuxGroups = {mux1}
  ModGroups = {mod1, mod2}
  Place <- MCPlace
  Address <- MCAddress
  MuxSel <- MCMuxSel
  ModSel <- MCModSel
  Cpld <- MCCpld
  Length <- MCLength
  Value <- MCValue
  MaxAccesses = 2
INVARIANTS TypeOK OnlyTheDeviceAnswers NoDeadlock
PROPERTIES ImplementsModuleSelection SomeoneReturns
