CONSTANTS
  c1 = c1  c2 = c2  k1 = k1  k2 = k2  p1 = p1
  NoCall = NoCall
  Calls = {c1, c2}
  Keys = {k1, k2}
  Payloads = {p1}
  ExpiresInDays <- ExpiresInOneDay
  PurgeAfterDays = 30
  MaxDay = 3
  AutosignSeconds = 3
  MaxRestarts = 1
SPECIFICATION FakeFairSpec
PROPERTIES StatusForward LostStoreSettles
