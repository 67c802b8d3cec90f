CONSTANTS
  Path <- MCPath
  Root = "/"
  Parent <- MCParent
  Anc <- MCAnc
  Block = {"0", "x", "y", "w"}
  Zero = "0"
  Block0 = "w"
  Needs <- MCNeeds
  Point = {"/", "d"}
  Image <- Mixed
  Surfaces = {"dir"}
  MaxMount = 2
  MaxFd = 1
  MaxDir = 1
  LateMounts = FALSE
  WriteFails = TRUE
CHECK_DEADLOCK FALSE
SPECIFICATION Spec
INVARIANTS DlAnswerIsImage  
