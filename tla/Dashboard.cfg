CONSTANTS
  LongTime = 3
  DebounceTicks = 2
  MaxTurn = 5
  Items = 20
  Sticky <- MCSticky
  AutoPause = 1
  LastColumn = 9
  FirstColumn = 4
  MaxText = 2
  MaxQueue = 2
  Slots = {1, 2}
  MaxBuilds = 2
  MaxTexts = 1
SPECIFICATION Spec
INVARIANTS NothingMissed OneActionPerHold TurnsTrue MusicResumes PositionsInRange ShownOrNoticed
