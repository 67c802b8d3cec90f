CONSTANTS
  Path <- MCPath
  Root = "/"
  Parent <- MCParent
  Anc <- MCAnc
  Block = {"0", "b", "w"}
  Zero = "0"
  Writes = {"w"}
  Offsets = {0}
  Lengths = {0}
  Images <- RaceImages
  WriteAreas = {"/"}
  Thread = {"t1", "t2"}
  NoThread = "none"
  Verbs = {"pwrite", "truncate", "mkdir", "remove"}
  Exclusive = TRUE
  Crashes = TRUE
  HostFails = FALSE
SPECIFICATION Spec
INVARIANTS AckedWritesKept AckedDeletesSurvive HiddenIsRecorded
PROPERTIES StepTouchesOnlyItsPath CrashTouchesOnlyInFlight
