CONSTANTS
  NumCams = 1
  Storage = {}
  NoCopy = {}
  UserFlags = {"want-record", "want-mount-cam", "abort-all", "copy-restart"}
  Timely = FALSE
  Crashes = TRUE
SPECIFICATION FairSpec
PROPERTIES RecordingStarts AbortServed
