CONSTANTS
  Proc = {"p", "q"}
  Entry <- MCEntry
  Name <- MCName
  Command <- MCCommand
  NameOf <- MCNameOf
  Rank <- MCRank
  Commands <- MCCommands
  Edges <- MCEdges
  Offered = {"a1", "b2"}
  Root = {"a1", "b1"}
  MaxRemovals = 1
SPECIFICATION Spec
INVARIANTS   ShimsHaveOwner
PROPERTIES EveryInstallReturns
