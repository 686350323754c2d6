SPECIFICATION Spec
CONSTANTS
  t1 = t1
  t2 = t2
  l1 = l1
  l2 = l2
  NoThread = NoThread
  Threads = {t1, t2}
  Lanes = {l1, l2}
INVARIANTS ThresholdRead
