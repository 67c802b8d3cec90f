------------------------------- MODULE MCHome -------------------------------
(***************************************************************************)
(* A small instance of Home.  "a" needs any "b".  The newer "b", the one   *)
(* that a registry lists, needs "a" again and provides two commands, one   *)
(* by the name of "a".  Users may ask for the older "b", which provides    *)
(* nothing and needs, besides "a", something that nobody lists.            *)
(***************************************************************************)
EXTENDS Home, TLC

MCName == {"a", "b"}
MCCommand == MCName \cup {"x"}

MCNameOf == [a1 |-> "a", b1 |-> "b", b2 |-> "b"]
MCEntry == DOMAIN MCNameOf
MCRank == [a1 |-> 1, b1 |-> 1, b2 |-> 2]
MCCommands == [a1 |-> {"a"}, b1 |-> {}, b2 |-> {"a", "x"}]
MCEdges == [a1 |-> {{"b1", "b2"}}, b1 |-> {{"a1"}, {}}, b2 |-> {{"a1"}}]
=============================================================================
