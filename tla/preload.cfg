CONSTANTS
  Thread = {"s", "t"}
  Host <- MCHost
  Above <- MCAbove
  Floor = {"/l"}
  Argv = {"/d/s"}
  NoJail = NoJail
  Held <- MCHeld
  Requests <- MCRequests
  Users <- MCUsers
  Operation = {"open", "openw", "change", "opendir", "exec", "readdir", "closedir", "mmap", "close"}
  Probe = {"/d/s", "/m/f", "/m"}
  Internal = {"/"}
  MaxCalls = 3
SPECIFICATION Spec
INVARIANTS  MappingsAreReturned
PROPERTIES EveryCallReturns
CHECK_DEADLOCK FALSE
