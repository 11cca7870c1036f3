CONSTANTS
  Blocks = 4
  Home = {"h1", "h2"}
SPECIFICATION UploadSpec
INVARIANTS PrefixOnly WholeOnSuccess
PROPERTIES CopyEnds AddressKept
