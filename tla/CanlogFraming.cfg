CONSTANTS
  NumFrames = 3
  MaxLen = 1
  BufLen = 6
SPECIFICATION FramingSpec
INVARIANTS RoomToRead ReassembledUnlessSplit
