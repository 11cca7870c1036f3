CONSTANTS
  Procs = {1, 2, 3}
  MaxBody = 2
SPECIFICATION FairSpec
INVARIANTS NoStray WholeUnitsArrive
PROPERTIES Reconnects
