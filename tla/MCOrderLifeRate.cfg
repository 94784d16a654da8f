CONSTANTS
  a = a  b = b  c = c
  first = first  again = again  other = other  wrong = wrong  switch = switch
  early = early  late = late  dear = dear  swapped = swapped
  s1 = s1  s2 = s2  w1 = w1  w2 = w2  q1 = q1  q2 = q2
  o1 = o1  o2 = o2  t1 = t1  t2 = t2  t3 = t3
  bill1 = bill1  bill2 = bill2  erase = erase  reset = reset  stats = stats
  Ids = {1, 2}
  Clerks = {a, b, c}
  Edits = {"toggle", "rename", "reset", "create"}
  MaxSecrets = 3
  Calls = {first, again, other, wrong, switch}
  Messages = {early, late, dear, swapped}
  MessageOf <- MCMessageOf
  AmountOf <- MCAmountOf
  MethodOf <- MCMethodOf
  Window = 1
  Ttl = 2
  MaxSkew = 0
  MaxNow = 3
  Servers = {s1, s2}
  Writes = {w1, w2}
  Quotes = {q1, q2}
  Default <- MCDefault
  Offered = {2}
  Live = {3}
  Keep = 2
  Timeout = 1
  Horizon = 4
  Numbers = {o1, o2}
  Amounts = {10}
  TradeOf <- MCTradeOf
  Bills <- MCBills
  Desks = {bill1, bill2, erase, reset, stats}
  KindOf <- MCKindOf
  f1 = f1  f2 = f2  submit1 = submit1  submit2 = submit2  press = press
  ann = ann  bob = bob  k1 = k1  k2 = k2  k3 = k3  g1 = g1  g2 = g2
  Filters = {f1, f2}
  Turns = 2
  Modal = {submit1, submit2}
  Inline = {press}
  MaxLoads = 3
  MaxRevision = 2
  MaxErrors = 1
  Editors = {ann, bob}
  Fields = {k1, k2, k3}
  GroupOf <- MCGroupOf
  Typed = {1, 2}
  MaxMail = 2
  half = half  whole = whole  requoting = requoting
  Amount = 20
  Tasks = {half, whole}
  Requotes = {requoting}
  Asks = {10, 11, 19, 21}
  Prices = {7, 12}
  NoNumber = NoNumber
SPECIFICATION Spec
INVARIANTS AtCapturedRate
CHECK_DEADLOCK FALSE
