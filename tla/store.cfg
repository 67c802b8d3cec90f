CONSTANTS
  Proc <- MCProc
  Kind <- MCKind
  Nobody = "nobody"
  Inode = {1, 2}
SPECIFICATION Spec
 
PROPERTIES ExecutableIsPublishedOnce EveryCallReturns
