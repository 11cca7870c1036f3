CONSTANTS
  NumFiles = 4
  Size = 3
  BlockSize = 2
  Delete = TRUE
SPECIFICATION MCSpec
INVARIANTS RecordingsWhole CompleteOnSuccess
PROPERTY NameKept
