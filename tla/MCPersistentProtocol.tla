------------------------- MODULE MCPersistentProtocol -------------------------
(*****************************************************************************)
(* Instances for TLC.  The ends are not exchangeable: one opens the sockets, *)
(* the other accepts them.  Sockets are numbered in the order of opening.    *)
(*****************************************************************************)
EXTENDS PersistentProtocol
===============================================================================
