CONSTANTS
  desktop = desktop  phone = phone  wallet = wallet  scanner = scanner  touch = touch
  t1 = t1  t2 = t2
  Pages = {desktop, phone}
  Mobile = {phone}
  Forms = {wallet, scanner, touch}
  Scanners = {scanner}
  PageOf <- MCPageOf
  MaxFlight = 2
  Tabs = {t1, t2}
  MaxLogins = 2
SPECIFICATION Spec
INVARIANTS ClientTypeOK PaidWasBooked StopsWhenDecided StoppedShowsDecision NothingLeft
PROPERTIES PollingEnds
CHECK_DEADLOCK FALSE
