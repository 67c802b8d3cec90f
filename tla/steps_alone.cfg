CONSTANTS
  Path <- GatedPath
  Root = "/"
  Parent <- GatedParent
  Anc <- GatedAnc
  Block = {"0", "b", "w"}
  Zero = "0"
  Writes = {"w"}
  Offsets = {1}
  Lengths = {0, 2}
  Images <- GatedImages
  WriteAreas = {"d"}
  Thread = {"t1"}
  NoThread = "none"
  Verbs = {"pwrite", "truncate", "mkdir", "remove"}
  Exclusive = TRUE
  Crashes = FALSE
  HostFails = TRUE
SPECIFICATION Spec
INVARIANTS AckedWritesKept
PROPERTIES RefinesCow 
