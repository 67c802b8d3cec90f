CONSTANTS
  Proc = {"p", "q"}
  Version = {"v"}
  Digest = {"d1", "d2"}
  Expected = {"none", "d1"}
  Inode <- MCInode
  None = "none"
SPECIFICATION Spec
INVARIANTS MarkerVouches AnswersAgree UnreadableOnlyWhileStamped
PROPERTIES EveryCallReturns
