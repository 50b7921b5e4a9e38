CONSTANTS
  c1 = c1  c2 = c2  c3 = c3  k1 = k1  k2 = k2  p1 = p1  p2 = p2  a1 = a1  a2 = a2
  NoCall = NoCall
  Calls = {c1}
  Keys = {k1}
  Payloads = {p1}
  Pollers = {a1}
  ExpiresInDays <- ExpiresInOneDay
  PurgeAfterDays = 0
  MaxDay = 1
  MaxRestarts = 0
SPECIFICATION Spec
PROPERTIES TerminalNotRolledBack
