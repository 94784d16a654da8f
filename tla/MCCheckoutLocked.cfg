SPECIFICATION Spec
CONSTANTS
  Amount = 30
  h1 = h1  h2 = h2  h3 = h3  t1 = t1  t2 = t2  t3 = t3
  Handlers = {h1, h2}
  Notifier = notifier
  Tokens = {t1, t2, t3}
  AlipayTrade = alipayTrade
  NoTrade = noTrade
  Quotes = {4, 5, 9}
  FirstQuote <- OpenedThrice
  Requests = {"callback", "cashier", "confirm"}
  CronRuns = TRUE
  MaxCrashes = 1
INVARIANTS
  OneBooking
  PaidMatchesQuote
  AckedIsDecided
PROPERTIES
  OnlyCleanupRewrites
  AlipayMoneyDecides
CHECK_DEADLOCK FALSE
