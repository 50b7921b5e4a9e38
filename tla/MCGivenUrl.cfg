CONSTANTS
  public1 = public1  public2 = public2  private = private
  NoText = NoText
  Addresses = {public1, private}
  Forbidden = {private}
  MAX_REDIRECTS = 1
  MaxBytes = 4
  MaxChunk = 6
  Limits = {4}
  MaxLength = 8
SPECIFICATION InputSpec
INVARIANTS GivenUrlIsUsed
