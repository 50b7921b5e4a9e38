CONSTANTS
  c1 = c1  c2 = c2  c3 = c3  k1 = k1  k2 = k2  p1 = p1  p2 = p2  a1 = a1  a2 = a2
  NoCall = NoCall
  Calls = {c1, c2, c3}
  Keys = {k1, k2}
  Payloads = {p1, p2}
  Pollers = {}
  ExpiresInDays <- ExpiryByPayload
  PurgeAfterDays = 0
  MaxDay = 3
  MaxRestarts = 1
SPECIFICATION CreateSpec
SYMMETRY Symmetry
INVARIANTS KeyUnique NoForeignResource RecordedIsSent
PROPERTIES ImplementsStore
