CONSTANTS
  c1 = c1  c2 = c2  k1 = k1  p1 = p1  p2 = p2  m1 = m1  m2 = m2
  NoCall = NoCall
  NoPayment = NoPayment
  Calls = {c1, c2}
  Keys = {k1}
  Payloads = {p1, p2}
  Pollers = {}
  Payments = {m1, m2}
  ExpiresInDays <- ExpiresInOneDay
  PurgeAfterDays = 0
  MaxDay = 2
  MaxRestarts = 1
SPECIFICATION PaidCreateSpec
SYMMETRY Symmetry
INVARIANTS ChargedForResource ProductionIsPaid
