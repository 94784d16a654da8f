SPECIFICATION Spec
CONSTANTS
  Amount = 4
  p1 = p1  p2 = p2  p3 = p3  ms1 = ms1  ms2 = ms2
  Tasks = {p1, p2, p3}
  Asks = {1, 2, 4, 5}
  Channels = {"alipay", "paypal", "native"}
  StampOf <- Stamps
  NoNumber = noNumber
  MaxCrashes = 1
INVARIANTS
  TypeOK
  StatusMatchesBalance
  RecordedIsBacked
  SuccessIsRecorded
  RefundingHasCause
PROPERTIES
  LedgerGrows
  Released
  ImplementsLedger
CHECK_DEADLOCK FALSE
