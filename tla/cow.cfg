CONSTANTS
  Path <- MCPath
  Root <- MCRoot
  Parent <- MCParent
  Anc <- MCAnc
  Block = {"0", "b", "w"}
  Zero = "0"
  Writes = {"w"}
  Offsets = {1}
  Lengths = {0}
  Images <- AllImages
  WriteAreas = {"f"}
SPECIFICATION Spec
INVARIANTS HiddenIsRecorded ListingMatchesStat ShallowDeletesAreRecorded
PROPERTIES NoResurrection FailureIsInvisible RefinesTree ShallowRefinesStrictTree
