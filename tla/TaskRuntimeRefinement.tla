------------------------- MODULE TaskRuntimeRefinement ------------------------
(***************************************************************************)
(* The TaskRuntime implements the SerialSession.  Work that waits is the   *)
(* queued work in the order of its positions; work is open from the step   *)
(* that receives it for dispatch until its end is confirmed, which covers  *)
(* the dispatch that may yet be refused and the result that is unknown.    *)
(***************************************************************************)
EXTENDS TaskRuntime

AheadOf(st, po) == {p \in Queued(st) \X Queued(st) : po[p[1]] < po[p[2]]}

OpenWork(st) ==
    {w \in Work : st[w] \in Dispatched \cup {"requested", "accepted", "unknown"}}

OverWork(st) == {w \in Work : st[w] \in Final}

Promise == INSTANCE SerialSession WITH
             Turns <- Inputs, Maintenance <- Compacts,
             waiting <- Queued(status), ahead <- AheadOf(status, position),
             open <- OpenWork(status), over <- OverWork(status)

(* Every behaviour of the runtime is one of a serial Session: with handlers   *)
(* suspended, receipts lost, turns ending and Hosts restarting in any order,  *)
(* no step overtakes in the queue, opens work beside open work, reopens what  *)
(* is over or gives up a part of the queue that nobody chose.                 *)
ImplementsSerialSession == Promise!Spec

=============================================================================
