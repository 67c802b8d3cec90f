CONSTANTS
  Path <- MCPath
  Root = "/"
  Parent <- MCParent
  Anc <- MCAnc
  Block = {"0", "b", "w"}
  Zero = "0"
  Writes = {"w"}
  Offsets = {0}
  Lengths = {0}
  Images <- RaceImages
  WriteAreas = {"/"}
  Thread = {"t1"}
  NoThread = "none"
  Verbs = {"pwrite", "truncate", "mkdir", "remove"}
  Exclusive = TRUE
  Crashes = FALSE
  HostFails = TRUE
SPECIFICATION Spec
INVARIANTS AckedDeletesSurvive
