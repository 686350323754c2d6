SPECIFICATION Spec
CONSTANTS
  t1 = t1
  t2 = t2
  Threads = {t1, t2}
  Sensors = 2
  Values = {20, 90}
  Configs <- MCConfigs
  Temperatures <- MCTemperatures
  PowerOn = {70}
  MaxCalls = 2
SYMMETRY Symmetry
INVARIANTS TypeOK ThresholdAnswered CacheAgrees DefaultsInForce NoMissedAlarm
CHECK_DEADLOCK FALSE
