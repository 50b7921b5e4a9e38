CONSTANTS
  c1 = c1  k1 = k1  p1 = p1  a1 = a1
  NoCall = NoCall
  Calls = {c1}
  Keys = {k1}
  Payloads = {p1}
  Pollers = {a1}
  ExpiresInDays <- ExpiresInTwoDays
  PurgeAfterDays = 0
  MaxDay = 3
  MaxRestarts = 1
SPECIFICATION FairScriptSpec
INVARIANTS AcknowledgedIsKept AppliedOrPurged FinalStatusTruthful
PROPERTIES PurgedStaysGone OpenIsNotPurged NothingKeptForever
