----------------------------- MODULE SessionQueue -----------------------------
(***************************************************************************)
(* The state of one Session of the TaskRuntime and its work queue.         *)
(*                                                                         *)
(* A Task owns one Session.  Inputs (user turns) and compactions (native   *)
(* maintenance commands) are the session's work.  Both are rows of the     *)
(* runtime store with a status and, while they wait, a position in one     *)
(* shared FIFO queue.  At most one handler drains the queue at a time.     *)
(*                                                                         *)
(* The runtime is one JavaScript thread: the code between two awaits is    *)
(* one atomic step.  pc[w] says which await the handler of w stands at.    *)
(* The store survives a restart of the Host; pc, streams, draining, wakeup *)
(* and urgent do not.                                                      *)
(***************************************************************************)
EXTENDS Integers, FiniteSets

CONSTANTS Inputs,      \* user turns that may be submitted
          Compacts,    \* compactions that may be requested
          None,        \* "no Input": the drain flag is clear
          Outcomes,    \* terminal outcomes the Engine may report for an Input
          MaxPosition, \* bound on queue positions (one per piece of work is enough)
          MaxRestarts, \* bound on Host restarts
          Calls,       \* which optional Host calls users make
          ReconcileIn, \* Session states in which users ask for reconciliation
          Faults       \* which faults the Engine and its Adapter show

Work == Inputs \cup Compacts

AllOutcomes == {"completed", "failed", "stopped"}
AllCalls == {"compact", "cancel", "move", "sendNow", "freeze", "close", "abandon",
             "revoke"}
AllFaults == {"receipt",      \* the dispatch receipt is lost
              "capability",   \* a capability check fails
              "attachment",   \* a queued attachment has expired
              "unknown",      \* the Engine reports an unknown execution
              "unmatched",    \* an event arrives without the evidence it needs
              "streamEnd",    \* the event stream ends without a terminal event
              "streamError"}  \* the event stream throws

ASSUME ConstantAssumption ==
    /\ IsFiniteSet(Inputs) /\ IsFiniteSet(Compacts)
    /\ Inputs \cap Compacts = {}
    /\ None \notin Work
    /\ Outcomes \subseteq AllOutcomes
    /\ MaxPosition \in Nat /\ MaxRestarts \in Nat
    /\ Calls \subseteq AllCalls
    /\ ReconcileIn \subseteq {"active", "unknown"}
    /\ Faults \subseteq AllFaults

NoPosition == -1
Positions == 0..MaxPosition

VARIABLES task,      \* status of the Task
          session,   \* status of the Session: attached ("active") or "unknown"
          paused,    \* Session.queuePaused: the queue waits for an explicit resume
          grant,     \* TRUE while the Host authorization is current
          status,    \* [Work -> status of the Input or compaction]
          position,  \* [Work -> queuePosition, or NoPosition]
          exec,      \* [Inputs -> status of its Execution, or "none"]
          pc,        \* [Work -> await at which its handler stands]
          streams,   \* Inputs whose Engine event stream is being consumed
          draining,  \* the Input the queue drain is dispatching, or None
          wakeup,    \* TRUE while a microtask that drains the queue is scheduled
          urgent,    \* the send-now call that awaits something, or None
          native,    \* [Work -> what the Engine did with the native command]
          sends,     \* [Work -> how often its native command was dispatched]
          restarts   \* number of Host restarts so far

hostVars   == <<task, session, paused, grant>>
storeVars  == <<status, position, exec>>
procVars   == <<pc, streams, draining, wakeup, urgent>>
engineVars == <<native, sends>>
vars == <<hostVars, storeVars, procVars, engineVars, restarts>>

-----------------------------------------------------------------------------
(* Status vocabularies.  "none" is a record that does not exist yet.         *)

TerminalExecution == {"completed", "failed", "stopped"}
Dispatched == {"received", "native-accepted", "started"}
InputStatus == {"none", "queued", "unknown", "rejected", "cancelled"}
                 \cup Dispatched \cup TerminalExecution
CompactStatus == {"none", "queued", "requested", "accepted", "unknown",
                  "completed", "failed"}
ExecutionStatus == {"none", "accepted", "started", "unknown"} \cup TerminalExecution
TaskStatus == {"active", "frozen", "completed", "abandoned"}

(* idle: no handler.  ask: compactSession awaits its first capability check.  *)
(* probe: the capability check before dispatch.  probeBusy: the same for a    *)
(* compaction the Engine may queue behind its running turn.  run: the Engine  *)
(* call itself.  settle: the drain is about to see its Input's dispatch fail. *)
Awaits == {"idle", "ask", "probe", "probeBusy", "run", "settle"}

(* none: not sent.  lost: sent, never arrived.  Otherwise what it became.     *)
NativeStatus == {"none", "lost", "running"} \cup TerminalExecution

-----------------------------------------------------------------------------
(* Queries over the session's records; st and po are a status and a position  *)
(* function, current or in the middle of a step.                              *)

Queued(st) == {w \in Work : st[w] = "queued"}
QueuedInputs(st) == Queued(st) \cap Inputs
InFlight(st) == {i \in Inputs : st[i] \in Dispatched}
Unknown(st) == {w \in Work : st[w] = "unknown"}
NativeCompacts(st) == {c \in Compacts : st[c] \in {"requested", "accepted"}}
ActiveCompacts(st) == {c \in Compacts : st[c] \in {"queued", "requested", "accepted", "unknown"}}
LiveExecutions == {i \in Inputs : exec[i] \in {"accepted", "started", "unknown"}}

(* Faulty variant: an Input is compared with Inputs only.                     *)
HeadOfInputs(w, st, po) == /\ w \in Queued(st)
                           /\ \A v \in QueuedInputs(st) : po[w] <= po[v]

(* The next queued work: the least position of Inputs and compactions alike.  *)
IsHead(w, st, po) == /\ w \in Queued(st)
                     /\ \A v \in Queued(st) : po[w] <= po[v]

(* Unresolved compactions that the head of the queue has to wait for.         *)
Barrier(w, st, po) ==
    {c \in NativeCompacts(st) : po[c] = NoPosition \/ po[c] <= po[w]}

(* The positions a new one must exceed: an active compaction without a        *)
(* position counts as 0.                                                      *)
TakenPositions(st, po) ==
    {po[w] : w \in Queued(st)}
      \cup {IF po[c] = NoPosition THEN 0 ELSE po[c] : c \in ActiveCompacts(st)}

IsNextPosition(p, st, po) ==
    /\ \A q \in TakenPositions(st, po) : q < p
    /\ p = 0 \/ p - 1 \in TakenPositions(st, po)

(* Ends every queued Input without dispatching it.                            *)
RejectQueuedInputs(st) ==
    [w \in Work |-> IF w \in QueuedInputs(st) THEN "rejected" ELSE st[w]]

(* Ends every queued piece of work without dispatching it.                    *)
StopQueue(st) ==
    [w \in Work |-> IF w \in QueuedInputs(st) THEN "rejected"
                    ELSE IF w \in Queued(st) THEN "failed" ELSE st[w]]

StopQueuePositions(st, po) ==
    [w \in Work |-> IF w \in Queued(st) \cap Compacts THEN NoPosition ELSE po[w]]

Eligible == task = "active" /\ session = "active"

-----------------------------------------------------------------------------
(* The queue drain, as the tail of the step that calls it: st, po, k are the  *)
(* status, position and pc that step has reached, hold its queuePaused.       *)

(* Nothing to do now: another drain holds the flag, the queue is empty or     *)
(* paused, or the Session is busy with earlier work.                          *)
DrainWaits(st, po, k, hold) ==
    /\ \/ draining # None
       \/ Queued(st) = {}
       \/ Eligible /\ hold
       \/ /\ Eligible /\ Unknown(st) = {}
          /\ \/ InFlight(st) # {}
             \/ \E w \in Work : IsHead(w, st, po) /\ Barrier(w, st, po) # {}
    /\ status' = st /\ position' = po /\ pc' = k
    /\ UNCHANGED draining

(* The Task or Session no longer admits work, or some earlier work has an     *)
(* unknown native result: the whole queue is given up.                        *)
DrainStops(st, po, k, hold) ==
    /\ draining = None /\ Queued(st) # {}
    /\ ~Eligible \/ (~hold /\ Unknown(st) # {})
    /\ status' = StopQueue(st)
    /\ position' = StopQueuePositions(st, po)
    /\ pc' = k
    /\ UNCHANGED draining

(* Faulty variants: an unknown result, or the hold, does not stop promotion.  *)
PromotesPastUnknown(w, st, po, hold) ==
    /\ draining = None /\ Eligible /\ ~hold
    /\ InFlight(st) = {}
    /\ IsHead(w, st, po) /\ Barrier(w, st, po) = {}

PromotesWhenHeld(w, st, po, hold) ==
    /\ draining = None /\ Eligible /\ hold \in BOOLEAN
    /\ Unknown(st) = {} /\ InFlight(st) = {}
    /\ IsHead(w, st, po) /\ Barrier(w, st, po) = {}

MayPromote(w, st, po, hold) ==
    /\ draining = None /\ Eligible /\ ~hold
    /\ Unknown(st) = {} /\ InFlight(st) = {}
    /\ IsHead(w, st, po) /\ Barrier(w, st, po) = {}

(* A queued compaction becomes requested and starts its own handler.          *)
DrainCompaction(c, st, po, k, hold) ==
    /\ MayPromote(c, st, po, hold)
    /\ status' = [st EXCEPT ![c] = "requested"]
    /\ pc' = [k EXCEPT ![c] = "probe"]
    /\ position' = po
    /\ UNCHANGED draining

(* A queued Input is received for dispatch; the drain flag stays set until    *)
(* its dispatch is settled.                                                   *)
DrainInput(i, st, po, k, hold) ==
    /\ MayPromote(i, st, po, hold)
    /\ draining' = i
    /\ \/ /\ grant
          /\ status' = [st EXCEPT ![i] = "received"]
          /\ position' = [po EXCEPT ![i] = NoPosition]
          /\ pc' = [k EXCEPT ![i] = "probe"]
       \/ /\ ~grant \/ "attachment" \in Faults   \* it does not qualify any more
          /\ status' = st /\ position' = po
          /\ pc' = [k EXCEPT ![i] = "settle"]

Drain(st, po, k, hold) ==
    \/ DrainWaits(st, po, k, hold)
    \/ DrainStops(st, po, k, hold)
    \/ \E c \in Compacts : DrainCompaction(c, st, po, k, hold)
    \/ \E i \in Inputs : DrainInput(i, st, po, k, hold)

=============================================================================
