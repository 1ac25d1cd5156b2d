----------------------------- MODULE MCChannelRpc -----------------------------
(*****************************************************************************)
(* Instances for TLC.  Two calls and one event: the shared state is the state *)
(* of the client and the requests that wait for the server to be ready.      *)
(*****************************************************************************)
EXTENDS ChannelRpc
===============================================================================
