SPECIFICATION Spec
CONSTANTS
  t1 = t1
  t2 = t2
  psu = psu
  fan = fan
  eeprom = eeprom
  Parent = Parent
  NoThread = NoThread
  NoAddress = NoAddress
  Threads = {t1, t2}
  Chips = {psu, fan, eeprom}
  Place <- MCPlace
  Address <- MCAddress
  Pec = {psu}
  Registers = 2
  Values = {0, 1}
  PowerOn <- MCPowerOn
  Requests <- MCRequests
  GpioCnt = 2
  DefLevel = {}
  SDI_MAX_IIC_RETRY = 2
INVARIANTS ChannelSelected PecAsAsked
PROPERTIES ImplementsRegisterFile
