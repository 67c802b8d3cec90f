CONSTANTS
  Path <- MCPath
  Root = "/"
  Parent <- MCParent
  Anc <- MCAnc
  Block = {"0", "x", "y", "w"}
  Zero = "0"
  Block0 = "w"
  Point = {"/", "a"}
  Image <- TwoImages
  Surfaces = {"fd", "dir", "write", "union"}
  MaxMount = 2
  MaxFd = 2
  MaxDir = 1
CHECK_DEADLOCK FALSE
SPECIFICATION VfsSpec
INVARIANTS TypeOK HandlesDieWithMount HandleNamesItsOpenUntilUnmount
PROPERTIES UnmountIsLocal WriteIsServed
