CONSTANTS
  DisplayTime = 2
  ForceTime = 1
  BlueTime = 1
  LockTime = 1
  WaitTime = 1
  Queries = 3
  MaxRounds = 2
  Highest = 3
  Retries = 2
  MaxPresses = 2
  Fields = {1, 2}
  Values = {0, 1}
  Modulus = 3
  WordBits = 15
  MaxBuffer = 6
  Lengths = {2, 6, 8}
  Widths = {1, 4, 8, 14, 15, 16, 30, 31, 32}
SPECIFICATION Spec
INVARIANTS SinksKnown ReportWhole DecodedTrue BitsInOrder
PROPERTIES PreconditionMeant Settles TargetEnds
