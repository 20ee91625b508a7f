CONSTANTS
  Proc = {s1, s2}
  NoFile = NoFile
  ChunkId = {c1}
  Container = {k1}
  Lane = {l1}
  Status = {"pending", "in_progress"}
  Inherits = TRUE
  CloudOn = TRUE
  IOErrors = TRUE
  MaxClock = 3
SPECIFICATION Spec
SYMMETRY Symmetry
CHECK_DEADLOCK FALSE
INVARIANTS AckedWritesSurvive MintingIsRemembered StampsIdentifyVersions
PROPERTIES SavesAreAtomic FileNeverRegresses MemoryNeverRegresses
