CONSTANTS
  NumCams = 2
  Storage = {2}
  NoCopy = {}
  UserFlags = {"want-record", "want-lcopy"}
  Timely = FALSE
  Crashes = TRUE
SPECIFICATION Spec
INVARIANTS PowerWhileMounted CopyFromMounted
PROPERTY RequestKept
