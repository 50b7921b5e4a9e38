CONSTANTS
  public1 = public1  public2 = public2  private = private
  NoText = NoText
  Addresses = {public1, public2, private}
  Forbidden = {private}
  MAX_REDIRECTS = 3
  MaxBytes = 4
  MaxChunk = 6
  Limits = {4}
  MaxLength = 24
SPECIFICATION InputFairSpec
INVARIANTS OnlyCheckedPeers BoundedConnections BoundedBuffer
  InlineLimitIsExact DecodingIsBounded SentIsTheOnlySource
PROPERTIES FetchKeepsPromise EndsInBoundedSteps AnsweredUnlessHostStalls
