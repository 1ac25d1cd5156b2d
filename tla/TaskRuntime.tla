------------------------------ MODULE TaskRuntime -----------------------------
(***************************************************************************)
(* The operations of the TaskRuntime on one Task with one Session: the     *)
(* Host's calls, the continuations of its asynchronous handlers, the       *)
(* events of the Engine's streams, and a restart of the Host.  Each action *)
(* is the code between two awaits, the queue drain it ends with included.  *)
(***************************************************************************)
EXTENDS SessionQueue

Init ==
    /\ task = "active" /\ session = "active" /\ paused = FALSE /\ grant = TRUE
    /\ status = [w \in Work |-> "none"]
    /\ position = [w \in Work |-> NoPosition]
    /\ exec = [i \in Inputs |-> "none"]
    /\ pc = [w \in Work |-> "idle"]
    /\ streams = {} /\ draining = None /\ wakeup = FALSE /\ urgent = None
    /\ native = [w \in Work |-> "none"]
    /\ sends = [w \in Work |-> 0]
    /\ restarts = 0

-----------------------------------------------------------------------------
(* Submitting an Input.                                                      *)

Admits == task = "active" /\ session = "active" /\ grant

(* The Session is idle: the Input is received for immediate dispatch, whether *)
(* the caller asked for startNow or for queue delivery.                       *)
SubmitNow(i) ==
    /\ Admits /\ status[i] = "none"
    /\ QueuedInputs(status) = {} /\ InFlight(status) = {}
    /\ Unknown(status) = {} /\ ActiveCompacts(status) = {}
    /\ status' = [status EXCEPT ![i] = "received"]
    /\ pc' = [pc EXCEPT ![i] = "probe"]
    /\ UNCHANGED <<hostVars, position, exec, streams, draining, wakeup, urgent, engineVars,
                   restarts>>

(* The Session is busy and the caller asked for queue delivery.               *)
SubmitQueued(i) ==
    /\ Admits /\ status[i] = "none"
    /\ QueuedInputs(status) # {} \/ InFlight(status) # {} \/ ActiveCompacts(status) # {}
    /\ Unknown(status) = {}
    /\ Cardinality(InFlight(status)) <= 1
    /\ \E p \in Positions :
         /\ IsNextPosition(p, status, position)
         /\ position' = [position EXCEPT ![i] = p]
    /\ status' = [status EXCEPT ![i] = "queued"]
    /\ UNCHANGED <<hostVars, exec, procVars, engineVars, restarts>>

(* Faulty variant: the guard is not evaluated again after the capability check. *)
DispatchUnguarded(i) ==
    /\ pc[i] = "probe"
    /\ pc' = [pc EXCEPT ![i] = "run"]
    /\ sends' = [sends EXCEPT ![i] = @ + 1]
    /\ \E n \in {"running", "lost"} : native' = [native EXCEPT ![i] = n]
    /\ UNCHANGED <<hostVars, storeVars, streams, draining, wakeup, urgent, restarts>>

(* The dispatch guard holds after the capability check: the native command    *)
(* leaves for the Engine, which may or may not get it.                        *)
Dispatch(i) ==
    /\ pc[i] = "probe" /\ Admits
    /\ pc' = [pc EXCEPT ![i] = "run"]
    /\ sends' = [sends EXCEPT ![i] = @ + 1]
    /\ \E n \in {"running", "lost"} : native' = [native EXCEPT ![i] = n]
    /\ UNCHANGED <<hostVars, storeVars, streams, draining, wakeup, urgent, restarts>>

(* The catch of submitInput.  A known absence of side effects rejects the     *)
(* Input and drains the queue; anything else leaves it unknown and rejects    *)
(* the queued Inputs.  A dispatch made by the drain returns to it ("settle"). *)
SubmitFails(i, s) ==
    LET st == [status EXCEPT ![i] = s]
        k  == [pc EXCEPT ![i] = IF draining = i THEN "settle" ELSE "idle"]
    IN \/ s = "rejected" /\ Drain(st, position, k, paused)
       \/ /\ s = "unknown"
          /\ status' = RejectQueuedInputs(st) /\ pc' = k
          /\ UNCHANGED <<position, draining>>

DispatchRefused(i) ==
    /\ pc[i] = "probe"
    /\ ~Admits \/ "capability" \in Faults
    /\ SubmitFails(i, "rejected")
    /\ UNCHANGED <<hostVars, exec, streams, wakeup, urgent, engineVars, restarts>>

(* engine.run returns: its event stream is consumed from now on.  The drain   *)
(* clears its flag one microtask later, before a terminal event can be read.  *)
RunStarted(i) ==
    /\ pc[i] = "run" /\ native[i] # "lost"
    /\ pc' = [pc EXCEPT ![i] = "idle"]
    /\ streams' = streams \cup {i}
    /\ draining' = IF draining = i THEN None ELSE draining
    /\ UNCHANGED <<hostVars, storeVars, wakeup, urgent, engineVars, restarts>>

(* engine.run throws and reports that it had no side effects.                 *)
RunRefused(i) ==
    /\ pc[i] = "run" /\ native[i] = "lost"
    /\ native' = [native EXCEPT ![i] = "none"]
    /\ SubmitFails(i, "rejected")
    /\ UNCHANGED <<hostVars, exec, streams, wakeup, urgent, sends, restarts>>

(* Faulty variants: a lost receipt is retried, or taken for a refusal.        *)
RunRetried(i) ==
    /\ pc[i] = "run" /\ "receipt" \in Faults
    /\ pc' = [pc EXCEPT ![i] = "probe"]
    /\ UNCHANGED <<hostVars, storeVars, streams, draining, wakeup, urgent, engineVars, restarts>>

RunTakenForRefused(i) ==
    /\ pc[i] = "run" /\ "receipt" \in Faults
    /\ SubmitFails(i, "rejected")
    /\ UNCHANGED <<hostVars, exec, streams, wakeup, urgent, engineVars, restarts>>

(* engine.run throws and cannot tell whether the Engine has the command.      *)
RunUncertain(i) ==
    /\ pc[i] = "run" /\ "receipt" \in Faults
    /\ SubmitFails(i, "unknown")
    /\ UNCHANGED <<hostVars, exec, streams, wakeup, urgent, engineVars, restarts>>

(* Faulty variant: the drain gives up without waking itself again.            *)
DrainSettlesForGood(i) ==
    /\ draining = i /\ pc[i] = "settle"
    /\ draining' = None
    /\ pc' = [pc EXCEPT ![i] = "idle"]
    /\ status' = RejectQueuedInputs(status)
    /\ UNCHANGED <<hostVars, position, exec, streams, wakeup, urgent, engineVars, restarts>>

(* The drain learns that the dispatch of its Input failed.                    *)
DrainSettles(i) ==
    /\ draining = i /\ pc[i] = "settle"
    /\ draining' = None
    /\ pc' = [pc EXCEPT ![i] = "idle"]
    /\ \/ /\ status[i] = "unknown"
          /\ status' = StopQueue(status)
          /\ position' = StopQueuePositions(status, position)
          /\ UNCHANGED wakeup
       \/ /\ status[i] # "unknown"
          /\ status' = RejectQueuedInputs(status)
          /\ wakeup' = TRUE
          /\ UNCHANGED position
    /\ UNCHANGED <<hostVars, exec, streams, urgent, engineVars, restarts>>

(* The microtask that drains again after a failed dispatch.                   *)
DrainAgain ==
    /\ wakeup /\ wakeup' = FALSE
    /\ Drain(status, position, pc, paused)
    /\ UNCHANGED <<hostVars, exec, streams, urgent, engineVars, restarts>>

-----------------------------------------------------------------------------
(* The events of the stream of Input i, applied in one store transaction.     *)

(* Engine evidence of acceptance creates the one Execution of the Input.      *)
EventAccepted(i) ==
    /\ i \in streams /\ exec[i] = "none"
    /\ exec' = [exec EXCEPT ![i] = "accepted"]
    /\ status' = [status EXCEPT ![i] = "native-accepted"]
    /\ UNCHANGED <<hostVars, position, procVars, engineVars, restarts>>

EventStarted(i) ==
    /\ i \in streams /\ exec[i] \in {"accepted", "started", "unknown"}
    /\ exec' = [exec EXCEPT ![i] = "started"]
    /\ status' = [status EXCEPT ![i] = "started"]
    /\ UNCHANGED <<hostVars, position, procVars, engineVars, restarts>>

(* Faulty variant: the end of a turn does not drain the queue.                *)
EventTerminalQuiet(i) ==
    /\ i \in streams /\ i \in LiveExecutions
    /\ native[i] \in TerminalExecution
    /\ exec' = [exec EXCEPT ![i] = native[i]]
    /\ status' = [status EXCEPT ![i] = native[i]]
    /\ UNCHANGED <<hostVars, position, procVars, engineVars, restarts>>

(* Terminal evidence ends an Execution that has not ended and drains the      *)
(* queue; for one that has ended it changes nothing.                          *)
EventTerminal(i) ==
    /\ i \in streams /\ i \in LiveExecutions
    /\ native[i] \in TerminalExecution
    /\ exec' = [exec EXCEPT ![i] = native[i]]
    /\ Drain([status EXCEPT ![i] = native[i]], position, pc, paused)
    /\ UNCHANGED <<hostVars, streams, wakeup, urgent, engineVars, restarts>>

(* Faulty variants: confirmed Inputs or Executions fall back to unknown.      *)
AnyStatusUnknown(i) == [status EXCEPT ![i] = "unknown"]
AnyExecUnknown(i) == [exec EXCEPT ![i] = IF @ = "none" THEN @ ELSE "unknown"]

(* setInputUnknown: neither a confirmed Input nor a confirmed Execution moves. *)
UnknownStatus(i) ==
    [status EXCEPT ![i] = IF @ \in {"completed", "failed", "stopped", "rejected", "cancelled"}
                          THEN @ ELSE "unknown"]
UnknownExec(i) ==
    [exec EXCEPT ![i] = IF @ = "none" \/ @ \in TerminalExecution THEN @ ELSE "unknown"]

(* The Engine says that it does not know; or an event comes before acceptance *)
(* or without Engine evidence.  The queue is left as it is.                   *)
EventUnknown(i) ==
    /\ i \in streams
    /\ \/ "unknown" \in Faults /\ i \in LiveExecutions
       \/ "unmatched" \in Faults /\ exec[i] \notin TerminalExecution
    /\ status' = UnknownStatus(i) /\ exec' = UnknownExec(i)
    /\ UNCHANGED <<hostVars, position, procVars, engineVars, restarts>>

(* Faulty variant: every end of a stream gives the queue up.                  *)
StreamEndsQueue(i) ==
    /\ i \in streams
    /\ status[i] \notin Dispatched
    /\ status' = RejectQueuedInputs(status)
    /\ streams' = streams \ {i}
    /\ UNCHANGED <<hostVars, position, exec, pc, draining, wakeup, urgent, engineVars, restarts>>

(* The stream ends: without terminal evidence the Input is unknown and the    *)
(* queued Inputs are rejected.                                                *)
StreamEnds(i) ==
    /\ i \in streams
    /\ \/ /\ status[i] \in Dispatched \cup {"unknown"}
          /\ "streamEnd" \in Faults
          /\ status' = RejectQueuedInputs(UnknownStatus(i))
          /\ exec' = UnknownExec(i)
       \/ /\ status[i] \notin Dispatched \cup {"unknown"}
          /\ UNCHANGED <<status, exec>>
    /\ streams' = streams \ {i}
    /\ UNCHANGED <<hostVars, position, pc, draining, wakeup, urgent, engineVars, restarts>>

(* The stream throws, before or after terminal evidence.                      *)
StreamFails(i) ==
    /\ i \in streams /\ "streamError" \in Faults
    /\ status' = RejectQueuedInputs(UnknownStatus(i))
    /\ exec' = UnknownExec(i)
    /\ streams' = streams \ {i}
    /\ UNCHANGED <<hostVars, position, pc, draining, wakeup, urgent, engineVars, restarts>>

-----------------------------------------------------------------------------
(* Compactions.                                                              *)

MayCompact(c) ==
    /\ Admits
    /\ Unknown(status) \cap Inputs = {}
    /\ ActiveCompacts(status) \ {c} = {}

(* compactSession, up to its capability check.                                *)
CompactAsk(c) ==
    /\ "compact" \in Calls /\ status[c] = "none" /\ pc[c] = "idle"
    /\ MayCompact(c)
    /\ pc' = [pc EXCEPT ![c] = "ask"]
    /\ UNCHANGED <<hostVars, storeVars, streams, draining, wakeup, urgent, engineVars, restarts>>

CompactAskFails(c) ==
    /\ pc[c] = "ask"
    /\ ~MayCompact(c) \/ "capability" \in Faults
    /\ pc' = [pc EXCEPT ![c] = "idle"]
    /\ UNCHANGED <<hostVars, storeVars, streams, draining, wakeup, urgent, engineVars, restarts>>

(* Earlier Inputs wait for dispatch: the compaction joins the queue.          *)
CompactQueued(c) ==
    /\ pc[c] = "ask" /\ MayCompact(c)
    /\ QueuedInputs(status) # {} \/ \E i \in Inputs : status[i] = "received"
    /\ \E p \in Positions :
         /\ IsNextPosition(p, status, position)
         /\ Drain([status EXCEPT ![c] = "queued"], [position EXCEPT ![c] = p],
                  [pc EXCEPT ![c] = "idle"], paused)
    /\ UNCHANGED <<hostVars, exec, streams, wakeup, urgent, engineVars, restarts>>

(* No Input waits: the compaction is requested at once.  Behind a running     *)
(* turn it has a position and the Engine may queue it; otherwise it has none. *)
CompactRequested(c) ==
    /\ pc[c] = "ask" /\ MayCompact(c)
    /\ QueuedInputs(status) = {} /\ \A i \in Inputs : status[i] # "received"
    /\ Cardinality(InFlight(status)) <= 1
    /\ status' = [status EXCEPT ![c] = "requested"]
    /\ \/ /\ InFlight(status) = {}
          /\ pc' = [pc EXCEPT ![c] = "probe"]
          /\ UNCHANGED position
       \/ /\ InFlight(status) # {}
          /\ pc' = [pc EXCEPT ![c] = "probeBusy"]
          /\ \E p \in Positions :
               /\ IsNextPosition(p, status, position)
               /\ position' = [position EXCEPT ![c] = p]
    /\ UNCHANGED <<hostVars, exec, streams, draining, wakeup, urgent, engineVars, restarts>>

(* Queued Inputs that have to be promoted before compaction c.                *)
EarlierInputs(c) ==
    {i \in QueuedInputs(status) : position[c] = NoPosition \/ position[i] < position[c]}

(* checkDispatch of executeCompactOperation.                                  *)
MayDispatchCompact(c) ==
    /\ MayCompact(c) /\ status[c] = "requested"
    /\ EarlierInputs(c) = {}
    /\ pc[c] = "probeBusy" \/ InFlight(status) = {}

CompactDispatch(c) ==
    /\ pc[c] \in {"probe", "probeBusy"} /\ MayDispatchCompact(c)
    /\ pc' = [pc EXCEPT ![c] = "run"]
    /\ sends' = [sends EXCEPT ![c] = @ + 1]
    /\ \E n \in {"running", "lost"} : native' = [native EXCEPT ![c] = n]
    /\ UNCHANGED <<hostVars, storeVars, streams, draining, wakeup, urgent, restarts>>

CompactAccepted(c) ==
    /\ pc[c] = "run" /\ native[c] # "lost" /\ status[c] = "requested"
    /\ status' = [status EXCEPT ![c] = "accepted"]
    /\ UNCHANGED <<hostVars, position, exec, procVars, engineVars, restarts>>

(* The end of executeCompactOperation: its result, and a drain.               *)
CompactEnds(c, s) ==
    /\ Drain([status EXCEPT ![c] = s], [position EXCEPT ![c] = NoPosition],
             [pc EXCEPT ![c] = "idle"], paused)
    /\ UNCHANGED <<hostVars, exec, streams, wakeup, urgent, engineVars, restarts>>

CompactRefused(c) ==
    /\ pc[c] \in {"probe", "probeBusy"} /\ ~MayDispatchCompact(c)
    /\ CompactEnds(c, "failed")

CompactIncapable(c) ==
    /\ pc[c] \in {"probe", "probeBusy"} /\ "capability" \in Faults
    /\ CompactEnds(c, "failed")

CompactReceipt(c) ==
    /\ pc[c] = "run"
    /\ \/ native[c] \in TerminalExecution /\ CompactEnds(c, native[c])
       \/ native[c] = "lost" /\ CompactEnds(c, "failed")
       \/ "receipt" \in Faults /\ CompactEnds(c, "unknown")

-----------------------------------------------------------------------------
(* The user's view of the queue.                                             *)

(* cancelQueuedInput, and withdrawQueuedInputForEdit under a stronger guard.  *)
CancelQueuedInput(i) ==
    /\ "cancel" \in Calls /\ status[i] = "queued"
    /\ status' = [status EXCEPT ![i] = "cancelled"]
    /\ UNCHANGED <<hostVars, position, exec, procVars, engineVars, restarts>>

(* The queued Inputs numbered 0, 1, ... with i just before b, or last if b is  *)
(* None, and the others in the order they had.                                *)
IsReorder(new, i, b) ==
    LET Q == QueuedInputs(status)
        Precedes(j, l) ==
          IF j = i THEN b # None /\ position[l] >= position[b]
          ELSE IF l = i THEN b = None \/ position[j] < position[b]
          ELSE position[j] < position[l]
    IN /\ {new[j] : j \in Q} = 0..(Cardinality(Q) - 1)
       /\ \A j, l \in Q : j # l => (new[j] < new[l] <=> Precedes(j, l))

(* The positions after moving i before b; no change if it is there already.   *)
Reordered(i, b) ==
    IF b = i THEN {position}
    ELSE {[w \in Work |-> IF w \in QueuedInputs(status) THEN new[w] ELSE position[w]] :
            new \in {n \in [QueuedInputs(status) -> Positions] : IsReorder(n, i, b)}}

MayReorder(i) ==
    /\ Admits /\ draining = None
    /\ \A c \in ActiveCompacts(status) : position[c] = NoPosition
    /\ status[i] = "queued"

MoveQueuedInput(i, b) ==
    /\ "move" \in Calls /\ MayReorder(i)
    /\ b # i /\ b \in QueuedInputs(status) \cup {None}
    /\ position' \in Reordered(i, b)
    /\ UNCHANGED <<hostVars, status, exec, procVars, engineVars, restarts>>

(* The positions after moving i to the front.                                 *)
MovedToFront(i) ==
    UNION {Reordered(i, b) : b \in {f \in QueuedInputs(status) :
                                      \A j \in QueuedInputs(status) : position[f] <= position[j]}}

(* sendQueuedInputNow: a queued Input shall be the next, and the running turn  *)
(* be stopped for it.  One such call at a time.                               *)
MaySendNow(i) ==
    /\ "sendNow" \in Calls /\ urgent = None
    /\ Admits /\ ~paused /\ status[i] = "queued"
    /\ ActiveCompacts(status) = {} /\ Unknown(status) = {}
    /\ Cardinality(LiveExecutions) <= 1
    /\ \A e \in LiveExecutions : exec[e] # "unknown"

(* No turn runs: the Input moves to the front of the queue, which is drained.  *)
SendIdleNow(i) ==
    /\ MaySendNow(i) /\ MayReorder(i)
    /\ LiveExecutions = {} /\ InFlight(status) = {}
    /\ \E po \in MovedToFront(i) : Drain(status, po, pc, paused)
    /\ UNCHANGED <<hostVars, exec, streams, wakeup, urgent, engineVars, restarts>>

(* A turn runs: the call remembers the order of the queue and awaits a         *)
(* capability check.                                                          *)
SendNowAsks(i) ==
    /\ MaySendNow(i)
    /\ \E e \in LiveExecutions :
         urgent' = [input |-> i, active |-> e, moved |-> FALSE,
                    was |-> [j \in QueuedInputs(status) |-> position[j]]]
    /\ UNCHANGED <<hostVars, storeVars, pc, streams, draining, wakeup, engineVars, restarts>>

(* The Input moves to the front.  If the turn has ended meanwhile the queue is *)
(* drained, else the call awaits its stop request.                            *)
SendNowMoves ==
    /\ urgent # None /\ ~urgent.moved /\ MayReorder(urgent.input)
    /\ \E po \in MovedToFront(urgent.input) :
         \/ /\ exec[urgent.active] \in TerminalExecution
            /\ urgent' = None
            /\ Drain(status, po, pc, paused)
         \/ /\ exec[urgent.active] \notin TerminalExecution
            /\ urgent' = [urgent EXCEPT !.moved = TRUE]
            /\ position' = po
            /\ UNCHANGED <<status, pc, draining>>
    /\ UNCHANGED <<hostVars, exec, streams, wakeup, engineVars, restarts>>

(* The capability check fails, or the queue cannot be reordered any more.      *)
SendNowFails ==
    /\ urgent # None /\ ~urgent.moved
    /\ ~MayReorder(urgent.input) \/ "capability" \in Faults
    /\ urgent' = None
    /\ UNCHANGED <<hostVars, storeVars, pc, streams, draining, wakeup, engineVars, restarts>>

(* Faulty variant: only the moved Input is looked for.                         *)
StillQueued(u) == u.input \in QueuedInputs(status)

(* The queue is as the call left it: the same Inputs, the moved one in front   *)
(* and the others in the order they had.                                      *)
QueueAsMoved(u) ==
    LET Q == DOMAIN u.was
    IN /\ QueuedInputs(status) = Q
       /\ \A j, l \in Q : j # l =>
            (position[j] < position[l] <=>
               j = u.input \/ (l # u.input /\ u.was[j] < u.was[l]))

(* The positions after moving the Input back before its old successor.         *)
MovedBack(u) ==
    UNION {Reordered(u.input, b) :
             b \in {f \in DOMAIN u.was \cup {None} :
                      IF f = None THEN \A j \in DOMAIN u.was : u.was[j] <= u.was[u.input]
                      ELSE /\ u.was[u.input] < u.was[f]
                           /\ \A j \in DOMAIN u.was :
                                u.was[j] <= u.was[u.input] \/ u.was[f] <= u.was[j]}}

(* The stop request was delivered: the queue stays as it is.                   *)
SendNowStops ==
    /\ urgent # None /\ urgent.moved
    /\ urgent' = None
    /\ UNCHANGED <<hostVars, storeVars, pc, streams, draining, wakeup, engineVars, restarts>>

(* The stop request failed because the turn had ended: the queue is drained.   *)
SendNowTooLate ==
    /\ urgent # None /\ urgent.moved
    /\ exec[urgent.active] \in TerminalExecution
    /\ urgent' = None
    /\ Drain(status, position, pc, paused)
    /\ UNCHANGED <<hostVars, exec, streams, wakeup, engineVars, restarts>>

(* The stop request was not delivered: the queue gets its old order back,      *)
(* unless somebody else has touched it.                                       *)
SendNowRestores ==
    /\ urgent # None /\ urgent.moved
    /\ urgent' = None
    /\ IF QueueAsMoved(urgent) /\ MayReorder(urgent.input)
       THEN position' \in MovedBack(urgent)
       ELSE position' = position
    /\ UNCHANGED <<hostVars, status, exec, pc, streams, draining, wakeup, engineVars,
                   restarts>>

-----------------------------------------------------------------------------
(* The life of the Task and of the authorization.                            *)

FreezeTask ==
    /\ "freeze" \in Calls /\ grant /\ task = "active"
    /\ task' = "frozen"
    /\ status' = RejectQueuedInputs(status)
    /\ UNCHANGED <<session, paused, grant, position, exec, procVars, engineVars, restarts>>

(* Faulty variant: unknown compactions do not stop a Task from being closed.  *)
CloseTaskEarly ==
    /\ "close" \in Calls /\ grant /\ task \in {"active", "frozen"}
    /\ QueuedInputs(status) = {} /\ InFlight(status) = {}
    /\ Unknown(status) \cap Inputs = {} /\ LiveExecutions = {}
    /\ NativeCompacts(status) = {}
    /\ task' = "completed"
    /\ UNCHANGED <<session, paused, grant, storeVars, procVars, engineVars, restarts>>

(* closeTask with the outcome completed, failed or stopped.                   *)
CloseTask ==
    /\ "close" \in Calls /\ grant /\ task \in {"active", "frozen"}
    /\ QueuedInputs(status) = {} /\ InFlight(status) = {} /\ Unknown(status) = {}
    /\ LiveExecutions = {} /\ ActiveCompacts(status) = {}
    /\ task' = "completed"
    /\ UNCHANGED <<session, paused, grant, storeVars, procVars, engineVars, restarts>>

(* closeTask with the outcome abandoned claims nothing about native work.     *)
AbandonTask ==
    /\ "abandon" \in Calls /\ grant /\ task \in {"active", "frozen"}
    /\ task' = "abandoned"
    /\ status' = RejectQueuedInputs(status)
    /\ UNCHANGED <<session, paused, grant, position, exec, procVars, engineVars, restarts>>

RevokeAuthorization ==
    /\ "revoke" \in Calls /\ grant
    /\ grant' = FALSE
    /\ UNCHANGED <<task, session, paused, storeVars, procVars, engineVars, restarts>>

-----------------------------------------------------------------------------
(* A restart of the Host, and the way back.                                  *)

(* The process dies with every handler; the next one reads the store and      *)
(* marks what was in native hands unknown.  The queue waits for a resume.     *)
Restart ==
    /\ restarts < MaxRestarts /\ restarts' = restarts + 1
    /\ session = "active" /\ session' = "unknown"
    /\ paused' = (paused \/ Queued(status) # {})
    /\ status' = [w \in Work |-> IF w \in InFlight(status) \cup NativeCompacts(status)
                                 THEN "unknown" ELSE status[w]]
    /\ position' = [w \in Work |-> IF w \in NativeCompacts(status)
                                   THEN NoPosition ELSE position[w]]
    /\ exec' = [i \in Inputs |-> IF i \in LiveExecutions THEN "unknown" ELSE exec[i]]
    /\ pc' = [w \in Work |-> "idle"]
    /\ streams' = {} /\ draining' = None /\ wakeup' = FALSE /\ urgent' = None
    /\ UNCHANGED <<task, grant, engineVars>>

NothingUnresolved ==
    /\ InFlight(status) = {} /\ Unknown(status) = {}
    /\ LiveExecutions = {} /\ NativeCompacts(status) = {}

(* restoreTaskSession, after the Engine has reattached the native Session.    *)
RestoreTaskSession ==
    /\ task = "active" /\ grant /\ session = "unknown"
    /\ NothingUnresolved
    /\ session' = "active"
    /\ UNCHANGED <<task, paused, grant, storeVars, procVars, engineVars, restarts>>

(* resumeQueuedInputs, after its capability check.                            *)
ResumeQueuedInputs ==
    /\ Admits /\ paused
    /\ NothingUnresolved /\ Queued(status) # {}
    /\ paused' = FALSE
    /\ Drain(status, position, pc, FALSE)
    /\ UNCHANGED <<task, session, grant, exec, streams, wakeup, urgent, engineVars, restarts>>

(* Reconciliation reads the native outcome of an unknown Input and never      *)
(* sends it again.  Without a terminal outcome nothing changes.               *)
ReconcileInput(i) ==
    /\ session \in ReconcileIn /\ grant
    /\ status[i] = "unknown" /\ exec[i] = "none"
    /\ native[i] \in TerminalExecution
    /\ exec' = [exec EXCEPT ![i] = native[i]]
    /\ status' = [status EXCEPT ![i] = native[i]]
    /\ UNCHANGED <<hostVars, position, procVars, engineVars, restarts>>

ReconcileExecution(i) ==
    /\ session \in ReconcileIn /\ grant
    /\ status[i] = "unknown" /\ exec[i] = "unknown"
    /\ native[i] \in TerminalExecution
    /\ exec' = [exec EXCEPT ![i] = native[i]]
    /\ status' = [status EXCEPT ![i] = native[i]]
    /\ UNCHANGED <<hostVars, position, procVars, engineVars, restarts>>

-----------------------------------------------------------------------------
(* The Engine: a command that reached it ends in its own time.               *)

NativeFinish(w) ==
    /\ native[w] = "running"
    /\ \E o \in IF w \in Inputs THEN Outcomes ELSE {"completed", "failed"} :
         native' = [native EXCEPT ![w] = o]
    /\ UNCHANGED <<hostVars, storeVars, procVars, sends, restarts>>

-----------------------------------------------------------------------------

(* Continuations of handlers that have begun, and the Engine's own progress.  *)
InputStep(i) ==
    \/ Dispatch(i) \/ DispatchRefused(i)
    \/ RunStarted(i) \/ RunRefused(i) \/ RunUncertain(i)
    \/ DrainSettles(i)

StreamStep(i) ==
    \/ EventAccepted(i) \/ EventStarted(i) \/ EventTerminal(i) \/ EventUnknown(i)
    \/ StreamEnds(i) \/ StreamFails(i)

CompactStep(c) ==
    \/ CompactAskFails(c) \/ CompactQueued(c) \/ CompactRequested(c)
    \/ CompactDispatch(c) \/ CompactRefused(c) \/ CompactIncapable(c)
    \/ CompactAccepted(c) \/ CompactReceipt(c)

SendNowStep ==
    SendNowMoves \/ SendNowFails \/ SendNowStops \/ SendNowTooLate \/ SendNowRestores

(* What users and Hosts ask for, whenever they like.                          *)
HostCall ==
    \/ \E i \in Inputs :
         \/ SubmitNow(i) \/ SubmitQueued(i)
         \/ CancelQueuedInput(i) \/ SendIdleNow(i) \/ SendNowAsks(i)
         \/ \E b \in Inputs \cup {None} : MoveQueuedInput(i, b)
         \/ ReconcileInput(i) \/ ReconcileExecution(i)
    \/ \E c \in Compacts : CompactAsk(c)
    \/ FreezeTask \/ CloseTask \/ AbandonTask \/ RevokeAuthorization
    \/ RestoreTaskSession \/ ResumeQueuedInputs

Next ==
    \/ HostCall
    \/ \E i \in Inputs : InputStep(i) \/ StreamStep(i)
    \/ \E c \in Compacts : CompactStep(c)
    \/ DrainAgain \/ SendNowStep
    \/ \E w \in Work : NativeFinish(w)
    \/ Restart

Spec == Init /\ [][Next]_vars

(* The event loop runs every continuation that is ready; the Engine ends every *)
(* command it has, and its stream tells of the acceptance and of the end.     *)
Fairness ==
    /\ WF_vars(DrainAgain) /\ WF_vars(SendNowStep)
    /\ \A i \in Inputs :
         /\ WF_vars(InputStep(i))
         /\ WF_vars(EventAccepted(i)) /\ WF_vars(EventTerminal(i))
    /\ \A c \in Compacts : WF_vars(CompactStep(c))
    /\ \A w \in Work : WF_vars(NativeFinish(w))

FairSpec == Spec /\ Fairness

-----------------------------------------------------------------------------
(* Properties.                                                               *)

TypeOK ==
    /\ task \in TaskStatus /\ session \in {"active", "unknown"}
    /\ paused \in BOOLEAN /\ grant \in BOOLEAN
    /\ status \in [Work -> InputStatus \cup CompactStatus]
    /\ \A i \in Inputs : status[i] \in InputStatus
    /\ \A c \in Compacts : status[c] \in CompactStatus
    /\ position \in [Work -> Positions \cup {NoPosition}]
    /\ exec \in [Inputs -> ExecutionStatus]
    /\ pc \in [Work -> Awaits]
    /\ streams \subseteq Inputs /\ draining \in Inputs \cup {None} /\ wakeup \in BOOLEAN
    /\ urgent \in {None} \cup [input : Inputs, active : Inputs, moved : BOOLEAN,
                             was : UNION {[Q -> Positions \cup {NoPosition}] :
                                            Q \in SUBSET Inputs}]
    /\ native \in [Work -> NativeStatus]
    /\ sends \in [Work -> Nat]
    /\ restarts \in 0..MaxRestarts

(* Inputs whose turn the Session cannot tell to be over.                      *)
OpenTurns == InFlight(status) \cup (Unknown(status) \cap Inputs)

(* A Session runs one turn at a time: whatever the interleaving of direct     *)
(* submissions, drains, lost receipts and restarts, at most one Input is      *)
(* between its dispatch and its confirmed outcome, and the Engine never works *)
(* on two Inputs at once.                                                     *)
OneTurnAtATime ==
    /\ \A i, j \in OpenTurns : i = j
    /\ \A i, j \in Inputs : native[i] = "running" /\ native[j] = "running" => i = j

(* No native command is ever sent twice: not by a drain and a direct          *)
(* submission, not after a lost receipt, not after a restart.                 *)
SentAtMostOnce == \A w \in Work : sends[w] <= 1

(* An Input reported as waiting, rejected or cancelled has had no native      *)
(* effect, and a compaction reported as failed is not running.                *)
UndispatchedHasNoEffect ==
    /\ \A i \in Inputs : status[i] \in {"queued", "rejected", "cancelled"} => native[i] = "none"
    /\ \A c \in Compacts : status[c] \in {"queued", "failed"} => native[c] # "running"

(* A confirmed outcome is the outcome the Engine had, and the Input and its   *)
(* Execution always tell the same story.                                      *)
OutcomesAreNative ==
    \A i \in Inputs :
       /\ status[i] \in TerminalExecution => native[i] = status[i] /\ exec[i] = status[i]
       /\ exec[i] # "none" =>
            status[i] = IF exec[i] = "accepted" THEN "native-accepted" ELSE exec[i]

(* A Task closed with a claimed outcome has nothing left that could still act *)
(* natively: no running turn or compaction and no dispatch on its way.        *)
ClosedTaskIsSettled ==
    task = "completed" =>
      \A w \in Work : native[w] # "running" /\ pc[w] \notin {"probe", "probeBusy", "run"}

(* No two pieces of work that wait share a queue position, whatever mixture   *)
(* of queueing, reordering, promotion and restart assigned them.              *)
QueuePositionsDistinct ==
    \A v, w \in Queued(status) : v # w => position[v] # position[w]

(* A send-now that could not stop the running turn changes positions at its    *)
(* end only if the same Inputs still wait, and then back to the order it found. *)
SendNowIsUndone ==
    [][urgent # None /\ urgent.moved /\ urgent' = None
         /\ exec[urgent.active] \notin TerminalExecution
         /\ (\E i \in Inputs : position'[i] # position[i]) =>
         /\ QueuedInputs(status) = DOMAIN urgent.was
         /\ \A i, j \in QueuedInputs(status) :
              position'[i] < position'[j] <=> urgent.was[i] < urgent.was[j]]_vars

(* Nobody is left to drain the queue of an idle Session.                      *)
Quiescent ==
    /\ Eligible /\ ~paused
    /\ draining = None /\ ~wakeup
    /\ \A w \in Work : pc[w] \in {"idle", "ask"}
    /\ NothingUnresolved

(* Lost wakeup: queued work of an idle, attached, unpaused Session always has *)
(* somebody left to promote it.                                               *)
QueueNotStranded == Quiescent => Queued(status) = {}

(* The native command of a piece of work goes out in this step.               *)
Sent(w) == sends'[w] # sends[w]

(* Whatever happened while a handler was suspended, a native command leaves   *)
(* only for an active Task with an attached Session and a current grant.      *)
SendsAreQualified == [][\A w \in Work : Sent(w) => Admits]_vars

(* An Input is dispatched only into a Session in which no other work is       *)
(* natively unresolved: no other open turn, no compaction in native hands.    *)
SendsAreSerial ==
    [][\A i \in Inputs : Sent(i) =>
         /\ OpenTurns \subseteq {i}
         /\ NativeCompacts(status) \cup (Unknown(status) \cap Compacts) = {}]_vars

(* A compaction keeps its place between the Inputs: it reaches the Engine       *)
(* neither before an Input that was received or queued earlier and has not     *)
(* been sent, nor, promoted from the queue, beside a turn.                    *)
CompactsKeepOrder ==
    [][\A c \in Compacts : Sent(c) =>
         /\ \A i \in Inputs : pc[i] # "probe"
         /\ pc[c] = "probe" => OpenTurns = {}
         /\ \A i \in QueuedInputs(status) :
              position[c] # NoPosition => position[c] < position[i]]_vars

(* A confirmed outcome, a rejection or a cancellation is never undone, not by *)
(* late or contradictory events, reconciliation or a restart.                 *)
Final == {"completed", "failed", "stopped", "rejected", "cancelled"}
FinalIsFinal ==
    [][/\ \A w \in Work : status[w] \in Final => status'[w] = status[w]
       /\ \A i \in Inputs : exec[i] \in TerminalExecution => exec'[i] = exec[i]]_vars

(* Work that was queued when the Host died waits for the user: an unattached  *)
(* Session holds its queue, a held queue promotes nothing, and the hold goes  *)
(* only when no turn and no compaction is natively unresolved.                *)
HeldUntilResumed ==
    [][\A w \in Work : status[w] = "queued" =>
         /\ session' = "unknown" /\ status'[w] = "queued" => paused'
         /\ status'[w] \in {"received", "requested"} => ~paused'
         /\ paused /\ ~paused' => NothingUnresolved]_vars

(* Queued Inputs are given up only for a reason that is real: the Task has    *)
(* ended, some work has an unknown result, or a dispatch has just failed.     *)
QueueStopsForCause ==
    [][\A i \in Inputs : status[i] = "queued" /\ status'[i] = "rejected" =>
         \/ ~Eligible' \/ Unknown(status') # {}
         \/ \E j \in Inputs : pc[j] = "settle"]_vars

(* A queued Input is promoted or told that it will not be, unless the user has *)
(* to resume the queue first.                                                 *)
QueuedInputsLeave ==
    \A i \in Inputs : status[i] = "queued" ~> status[i] # "queued" \/ paused

=============================================================================
