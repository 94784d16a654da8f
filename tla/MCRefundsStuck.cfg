SPECIFICATION Spec
CONSTANTS
  Amount = 4
  p1 = p1  p2 = p2  p3 = p3  ms1 = ms1  ms2 = ms2
  Tasks = {p1, p2}
  Asks = {2, 4}
  Channels = {"alipay"}
  StampOf <- Stamps
  NoNumber = noNumber
  MaxCrashes = 0
INVARIANTS
  NotStuck
CHECK_DEADLOCK FALSE
