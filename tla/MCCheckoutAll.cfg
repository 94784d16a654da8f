SPECIFICATION Spec
CONSTANTS
  Amount = 30
  h1 = h1  h2 = h2  h3 = h3  t1 = t1  t2 = t2  t3 = t3
  Handlers = {h1, h2, h3}
  Notifier = notifier
  Tokens = {t1, t2}
  AlipayTrade = alipayTrade
  NoTrade = noTrade
  Quotes = {4, 9}
  FirstQuote <- NoneOpened
  Requests = {"pay", "switch", "callback", "cashier", "confirm"}
  CronRuns = TRUE
  MaxCrashes = 1
SYMMETRY Symmetry
INVARIANTS
  TypeOK
  PaidIsBacked
  AnnouncedIsSettled
CHECK_DEADLOCK FALSE
