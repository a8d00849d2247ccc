SPECIFICATION Spec
CONSTANTS
  HashTypes = {"MD5", "SHA1", "SHA256"}
  ImageSizes = {0, 1, 5}
  BufLen = 2
  Paths = 2
  Faults = {"open", "read"}
  None = None
INVARIANTS
  BufferIsSole
  DigestsWhole
  ExitTellsMismatch
PROPERTIES
  Terminates
