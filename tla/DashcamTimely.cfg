CONSTANTS
  NumCams = 2
  Storage = {2}
  NoCopy = {}
  UserFlags = {"want-record", "want-mount", "want-mount-ext", "reset-hub"}
  Timely = TRUE
  Crashes = FALSE
SPECIFICATION Spec
INVARIANTS MountedDiskPowered WifiFlagAgrees
