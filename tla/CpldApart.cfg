SPECIFICATION FairSpec
CONSTANTS
  t1 = t1
  t2 = t2
  group = group
  pin = pin
  sense = sense
  r1 = r1
  r2 = r2
  r3 = r3
  c1 = c1
  c2 = c2
  c3 = c3
  c4 = c4
  NoThread = NoThread
  Threads = {t1, t2}
  Lines = {group, pin, sense}
  Regs = {r1, r2, r3}
  Cells = {c1, c2, c3, c4}
  Outputs = {group, pin}
  Pins = {pin, sense}
  Inverted = {pin}
  RegOf <- ApartRegOf
  Order <- ApartOrder
  Field <- ApartField
  Default <- ApartDefault
INVARIANTS TypeOK GoalHolds
PROPERTIES ImplementsIndependentLines CallsReturn
