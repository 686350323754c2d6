SPECIFICATION FairSpec
CONSTANTS
  t1 = t1
  t2 = t2
  NoThread = NoThread
  Threads = {t1, t2}
INVARIANTS TypeOK AutonegGoal SpeedGoal CalibrationOfModule
PROPERTIES AutonegKeepsPowerDown SelectionReleased
