--------------------------- MODULE TaskRuntimeProofs ---------------------------
(***************************************************************************)
(* Safety of TaskRuntime for every set of Inputs and compactions, every    *)
(* bound and every choice of calls and faults.                             *)
(*                                                                         *)
(* The inductive invariant describes each piece of work by itself: what    *)
(* its status, its Execution, its handler, the Engine and its stream may   *)
(* say together.  The queue drain, which most steps end with, is dealt     *)
(* with once, in two lemmas.                                               *)
(***************************************************************************)
EXTENDS TaskRuntimeRefinement, TLAPS

Open == Dispatched \cup {"unknown"}

(* What an Input's status s, Execution e, handler p, native fate n, number of  *)
(* sends x and stream (t: it has one) may be at the same time.                *)
InputOK(s, e, p, n, x, t) ==
    /\ s \in {"none", "queued"} => x = 0 /\ n = "none" /\ e = "none" /\ ~t
    /\ p = "probe" => s = "received" /\ x = 0 /\ n = "none" /\ e = "none" /\ ~t
    /\ p = "run" => s = "received" /\ x = 1 /\ e = "none" /\ ~t
    /\ p \notin {"ask", "probeBusy"}
    /\ x \in {0, 1}
    /\ t /\ e = "none" => s \in {"received", "unknown"}
    /\ s \in {"rejected", "cancelled"} => n = "none"
    /\ n = "running" => s \in Open
    /\ s \in TerminalExecution => n = s /\ e = s
    /\ e # "none" => s = IF e = "accepted" THEN "native-accepted" ELSE e

(* The same for a compaction.                                                 *)
CompactOK(s, p, n, x) ==
    /\ s \in {"none", "queued"} => x = 0 /\ n = "none" /\ p \in {"idle", "ask"}
    /\ p = "ask" => s = "none"
    /\ p \in {"probe", "probeBusy"} => s = "requested" /\ x = 0 /\ n = "none"
    /\ p = "run" => s \in {"requested", "accepted"} /\ x = 1
    /\ p # "settle"
    /\ x \in {0, 1}
    /\ s \in {"completed", "failed"} => n # "running"
    /\ n # "stopped"

WorkOK(st, e, k, n, x, str) ==
    /\ \A i \in Inputs : InputOK(st[i], e[i], k[i], n[i], x[i], i \in str)
    /\ \A c \in Compacts : CompactOK(st[c], k[c], n[c], x[c])
    /\ \A i, j \in Inputs : st[i] \in Open /\ st[j] \in Open => i = j

StatusOK(st) ==
    /\ st \in [Work -> InputStatus \cup CompactStatus]
    /\ \A i \in Inputs : st[i] \in InputStatus
    /\ \A c \in Compacts : st[c] \in CompactStatus

(* The inductive invariant: a turn's status, handler and native command agree, *)
(* and at most one turn is open.                                              *)
IInv == TypeOK /\ WorkOK(status, exec, pc, native, sends, streams)

(* The types of what the drain leaves alone.                                  *)
RestOK ==
    /\ task \in TaskStatus /\ session \in {"active", "unknown"}
    /\ paused \in BOOLEAN /\ grant \in BOOLEAN
    /\ exec \in [Inputs -> ExecutionStatus]
    /\ streams \subseteq Inputs /\ wakeup \in BOOLEAN
    /\ urgent \in {None} \cup [input : Inputs, active : Inputs, moved : BOOLEAN,
                             was : UNION {[Q -> Positions \cup {NoPosition}] :
                                            Q \in SUBSET Inputs}]
    /\ native \in [Work -> NativeStatus]
    /\ sends \in [Work -> Nat]
    /\ restarts \in 0..MaxRestarts

DrainedOK == /\ StatusOK(status)
             /\ position \in [Work -> Positions \cup {NoPosition}]
             /\ pc \in [Work -> Awaits]
             /\ draining \in Inputs \cup {None}

-----------------------------------------------------------------------------

(* Giving queued Inputs up, or the whole queue, disturbs nothing that has been *)
(* promoted.                                                                  *)
LEMMA RejectWork ==
    ASSUME NEW st, NEW e, NEW k, NEW n, NEW x, NEW str,
           StatusOK(st), WorkOK(st, e, k, n, x, str)
    PROVE  /\ StatusOK(RejectQueuedInputs(st))
           /\ WorkOK(RejectQueuedInputs(st), e, k, n, x, str)
<1> DEFINE r == RejectQueuedInputs(st)
<1> USE ConstantAssumption DEF ConstantAssumption
<1>1. /\ r \in [Work -> InputStatus \cup CompactStatus]
      /\ \A i \in Inputs : r[i] = IF st[i] = "queued" THEN "rejected" ELSE st[i]
      /\ \A c \in Compacts : r[c] = st[c]
  BY DEF RejectQueuedInputs, QueuedInputs, Queued, Work, StatusOK, InputStatus
<1> HIDE DEF r
<1>2. StatusOK(r)
  BY <1>1 DEF StatusOK, InputStatus
<1>3. \A i \in Inputs : InputOK(r[i], e[i], k[i], n[i], x[i], i \in str)
  BY <1>1 DEF WorkOK, InputOK, TerminalExecution
<1>4. \A c \in Compacts : CompactOK(r[c], k[c], n[c], x[c])
  BY <1>1 DEF WorkOK
<1>5. \A i, j \in Inputs : r[i] \in Open /\ r[j] \in Open => i = j
  BY <1>1 DEF WorkOK, Open, Dispatched
<1> QED BY <1>2, <1>3, <1>4, <1>5 DEF WorkOK, r

LEMMA StopWork ==
    ASSUME NEW st, NEW e, NEW k, NEW n, NEW x, NEW str,
           StatusOK(st), WorkOK(st, e, k, n, x, str)
    PROVE  /\ StatusOK(StopQueue(st))
           /\ WorkOK(StopQueue(st), e, k, n, x, str)
<1> DEFINE r == StopQueue(st)
<1> USE ConstantAssumption DEF ConstantAssumption
<1>1. /\ r \in [Work -> InputStatus \cup CompactStatus]
      /\ \A i \in Inputs : r[i] = IF st[i] = "queued" THEN "rejected" ELSE st[i]
      /\ \A c \in Compacts : r[c] = IF st[c] = "queued" THEN "failed" ELSE st[c]
  BY DEF StopQueue, QueuedInputs, Queued, Work, StatusOK, InputStatus, CompactStatus
<1> HIDE DEF r
<1>2. StatusOK(r)
  BY <1>1 DEF StatusOK, InputStatus, CompactStatus
<1>3. \A i \in Inputs : InputOK(r[i], e[i], k[i], n[i], x[i], i \in str)
  BY <1>1 DEF WorkOK, InputOK, TerminalExecution
<1>4. \A c \in Compacts : CompactOK(r[c], k[c], n[c], x[c])
  BY <1>1 DEF WorkOK, CompactOK
<1>5. \A i, j \in Inputs : r[i] \in Open /\ r[j] \in Open => i = j
  BY <1>1 DEF WorkOK, Open, Dispatched
<1> QED BY <1>2, <1>3, <1>4, <1>5 DEF WorkOK, r

LEMMA StopPositions ==
    ASSUME NEW st, NEW po, po \in [Work -> Positions \cup {NoPosition}]
    PROVE  StopQueuePositions(st, po) \in [Work -> Positions \cup {NoPosition}]
BY DEF StopQueuePositions

-----------------------------------------------------------------------------

(* Whatever the drain does, the records it leaves have their types.           *)
LEMMA DrainTypes ==
    ASSUME NEW st, NEW po, NEW k, NEW hold,
           StatusOK(st),
           po \in [Work -> Positions \cup {NoPosition}],
           k \in [Work -> Awaits],
           draining \in Inputs \cup {None},
           Drain(st, po, k, hold)
    PROVE  /\ StatusOK(status')
           /\ position' \in [Work -> Positions \cup {NoPosition}]
           /\ pc' \in [Work -> Awaits]
           /\ draining' \in Inputs \cup {None}
<1> USE ConstantAssumption
<1>1. CASE DrainWaits(st, po, k, hold)
  BY <1>1 DEF DrainWaits
<1>2. CASE DrainStops(st, po, k, hold)
  <2>1. StatusOK(StopQueue(st))
    BY DEF StopQueue, QueuedInputs, Queued, StatusOK, InputStatus, CompactStatus, Work,
           ConstantAssumption
  <2> QED BY <1>2, <2>1, StopPositions DEF DrainStops, StatusOK
<1>3. ASSUME NEW c \in Compacts, DrainCompaction(c, st, po, k, hold)
      PROVE  /\ StatusOK(status')
             /\ position' \in [Work -> Positions \cup {NoPosition}]
             /\ pc' \in [Work -> Awaits]
             /\ draining' \in Inputs \cup {None}
  BY <1>3 DEF DrainCompaction, StatusOK, InputStatus, CompactStatus, Work, Awaits
<1>4. ASSUME NEW i \in Inputs, DrainInput(i, st, po, k, hold)
      PROVE  /\ StatusOK(status')
             /\ position' \in [Work -> Positions \cup {NoPosition}]
             /\ pc' \in [Work -> Awaits]
             /\ draining' \in Inputs \cup {None}
  BY <1>4 DEF DrainInput, StatusOK, InputStatus, CompactStatus, Work, Awaits, Dispatched
<1> QED BY <1>1, <1>2, <1>3, <1>4 DEF Drain

(* The drain keeps every piece of work in order, and starts at most one turn. *)
LEMMA DrainWork ==
    ASSUME NEW st, NEW po, NEW k, NEW hold, NEW e, NEW n, NEW x, NEW str,
           StatusOK(st), k \in [Work -> Awaits],
           WorkOK(st, e, k, n, x, str),
           Drain(st, po, k, hold)
    PROVE  WorkOK(status', e, pc', n, x, str)
<1> USE ConstantAssumption
<1>1. CASE DrainWaits(st, po, k, hold)
  BY <1>1 DEF DrainWaits
<1>2. CASE DrainStops(st, po, k, hold)
  BY <1>2, StopWork DEF DrainStops
<1>3. ASSUME NEW c \in Compacts, DrainCompaction(c, st, po, k, hold)
      PROVE  WorkOK(status', e, pc', n, x, str)
  <2>1. /\ st[c] = "queued"
        /\ status' = [st EXCEPT ![c] = "requested"]
        /\ pc' = [k EXCEPT ![c] = "probe"]
    BY <1>3 DEF DrainCompaction, MayPromote, IsHead, Queued
  <2> QED BY <2>1 DEF WorkOK, CompactOK, StatusOK, Work
<1>4. ASSUME NEW i \in Inputs, DrainInput(i, st, po, k, hold)
      PROVE  WorkOK(status', e, pc', n, x, str)
  <2>1. /\ st[i] = "queued"
        /\ \A j \in Inputs : st[j] \notin Open
    BY <1>4 DEF DrainInput, MayPromote, IsHead, Queued, InFlight, Unknown, Open, Work
  <2>2. CASE /\ status' = [st EXCEPT ![i] = "received"]
             /\ pc' = [k EXCEPT ![i] = "probe"]
    <3>1. \A j \in Inputs : InputOK(status'[j], e[j], pc'[j], n[j], x[j], j \in str)
      BY <2>1, <2>2 DEF WorkOK, InputOK, StatusOK, Work, TerminalExecution, Open, Dispatched
    <3>2. \A c \in Compacts : CompactOK(status'[c], pc'[c], n[c], x[c])
      BY <2>2 DEF WorkOK, StatusOK, Work
    <3>3. \A j, l \in Inputs : status'[j] \in Open /\ status'[l] \in Open => j = l
      BY <2>1, <2>2 DEF StatusOK, Work
    <3> QED BY <3>1, <3>2, <3>3 DEF WorkOK
  <2>3. CASE status' = st /\ pc' = [k EXCEPT ![i] = "settle"]
    BY <2>1, <2>3 DEF WorkOK, InputOK, CompactOK, Work
  <2> QED BY <1>4, <2>2, <2>3 DEF DrainInput
<1> QED BY <1>1, <1>2, <1>3, <1>4 DEF Drain

LEMMA TypeParts == TypeOK <=> RestOK /\ DrainedOK
BY DEF TypeOK, RestOK, DrainedOK, StatusOK

LEMMA Assemble ==
    ASSUME RestOK', DrainedOK', WorkOK(status', exec', pc', native', sends', streams')
    PROVE  IInv'
BY DEF IInv, TypeOK, RestOK, DrainedOK, StatusOK, WorkOK

(* A step that ends with a drain keeps the invariant if the state it drains    *)
(* from does.                                                                 *)
LEMMA DrainStep ==
    ASSUME NEW st, NEW po, NEW k, NEW hold,
           IInv, RestOK',
           StatusOK(st),
           po \in [Work -> Positions \cup {NoPosition}],
           k \in [Work -> Awaits],
           WorkOK(st, exec', k, native', sends', streams'),
           Drain(st, po, k, hold)
    PROVE  IInv'
<1>1. DrainedOK'
  <2>1. draining \in Inputs \cup {None}
    BY DEF IInv, TypeOK
  <2> QED BY <2>1, DrainTypes DEF DrainedOK, StatusOK
<1>2. WorkOK(status', exec', pc', native', sends', streams')
  BY DrainWork
<1> QED BY <1>1, <1>2, Assemble

-----------------------------------------------------------------------------

LEMMA InitOK == Init => IInv
<1> SUFFICES ASSUME Init PROVE IInv
  OBVIOUS
<1> USE ConstantAssumption
<1>1. TypeOK
  <2>1. RestOK
    <3>1. restarts \in 0..MaxRestarts
      BY DEF Init, ConstantAssumption
    <3>2. urgent \in {None} \cup [input : Inputs, active : Inputs, moved : BOOLEAN,
                             was : UNION {[Q -> Positions \cup {NoPosition}] :
                                            Q \in SUBSET Inputs}]
      BY Zenon DEF Init
    <3> QED
      BY <3>1, <3>2 DEF Init, RestOK, TaskStatus, ExecutionStatus, NativeStatus
  <2>2. DrainedOK
    BY DEF Init, DrainedOK, StatusOK, InputStatus, CompactStatus, Awaits, Work
  <2> QED BY <2>1, <2>2, TypeParts
<1>2. WorkOK(status, exec, pc, native, sends, streams)
  BY DEF Init, WorkOK, InputOK, CompactOK, Open, Dispatched, Work, TerminalExecution
<1> QED BY <1>1, <1>2 DEF IInv

-----------------------------------------------------------------------------
(* One lemma per group of actions.                                           *)

(* Submitting an Input.                                                      *)
LEMMA SubmitStep ==
    ASSUME IInv, NEW i \in Inputs, SubmitNow(i) \/ SubmitQueued(i)
    PROVE  IInv'
<1> USE ConstantAssumption DEF ConstantAssumption
<1>1. /\ RestOK /\ DrainedOK
      /\ WorkOK(status, exec, pc, native, sends, streams)
  BY TypeParts DEF IInv
<1>2. CASE SubmitNow(i)
  <2>1. /\ status[i] = "none"
        /\ \A j \in Inputs : status[j] \notin Open
    BY <1>2 DEF SubmitNow, InFlight, Unknown, Open, Work
  <2>2. RestOK'
    BY <1>1, <1>2 DEF SubmitNow, RestOK, hostVars, engineVars
  <2>3. DrainedOK'
    BY <1>1, <1>2 DEF SubmitNow, DrainedOK, StatusOK, InputStatus, Dispatched, Awaits, Work
  <2>4. WorkOK(status', exec', pc', native', sends', streams')
    BY <1>1, <1>2, <2>1 DEF SubmitNow, DrainedOK, StatusOK, WorkOK, InputOK, CompactOK,
                            engineVars, Work, TerminalExecution
  <2> QED BY <2>2, <2>3, <2>4, Assemble
<1>3. CASE SubmitQueued(i)
  <2>1. RestOK'
    BY <1>1, <1>3 DEF SubmitQueued, RestOK, hostVars, procVars, engineVars
  <2>2. DrainedOK'
    BY <1>1, <1>3 DEF SubmitQueued, DrainedOK, StatusOK, procVars, InputStatus, Work
  <2>3. WorkOK(status', exec', pc', native', sends', streams')
    BY <1>1, <1>3 DEF SubmitQueued, DrainedOK, StatusOK, WorkOK, InputOK, procVars,
                      engineVars, Work, TerminalExecution, Open, Dispatched
  <2> QED BY <2>1, <2>2, <2>3, Assemble
<1> QED BY <1>2, <1>3

(* The native command of an Input leaves, and its receipt arrives.            *)
LEMMA DispatchStep ==
    ASSUME IInv, NEW i \in Inputs, Dispatch(i) \/ RunStarted(i)
    PROVE  IInv'
<1> USE ConstantAssumption DEF ConstantAssumption
<1>1. /\ RestOK /\ DrainedOK
      /\ WorkOK(status, exec, pc, native, sends, streams)
  BY TypeParts DEF IInv
<1>2. CASE Dispatch(i)
  <2>1. RestOK'
    BY <1>1, <1>2 DEF Dispatch, RestOK, hostVars, storeVars, NativeStatus, Work
  <2>2. DrainedOK'
    BY <1>1, <1>2 DEF Dispatch, DrainedOK, StatusOK, storeVars, Awaits, Work
  <2>3. WorkOK(status', exec', pc', native', sends', streams')
    BY <1>1, <1>2 DEF Dispatch, RestOK, DrainedOK, StatusOK, WorkOK, InputOK, storeVars, Work,
                      TerminalExecution, Open, Dispatched
  <2> QED BY <2>1, <2>2, <2>3, Assemble
<1>3. CASE RunStarted(i)
  <2>1. RestOK'
    BY <1>1, <1>3 DEF RunStarted, RestOK, hostVars, storeVars, engineVars
  <2>2. DrainedOK'
    BY <1>1, <1>3 DEF RunStarted, DrainedOK, StatusOK, storeVars, Awaits, Work
  <2>3. WorkOK(status', exec', pc', native', sends', streams')
    BY <1>1, <1>3 DEF RunStarted, RestOK, DrainedOK, StatusOK, WorkOK, InputOK, storeVars,
                      engineVars, Work, TerminalExecution
  <2> QED BY <2>1, <2>2, <2>3, Assemble
<1> QED BY <1>2, <1>3

(* The catch of submitInput: a rejected Input is known to be without effect.   *)
LEMMA FailStep ==
    ASSUME IInv, NEW i \in Inputs, NEW s \in {"rejected", "unknown"},
           SubmitFails(i, s), RestOK',
           exec' = exec, streams' = streams, sends' = sends,
           \A w \in Work \ {i} : native'[w] = native[w],
           \/ s = "rejected" /\ pc[i] \in {"probe", "run"} /\ native'[i] = "none"
           \/ s = "unknown" /\ pc[i] = "run" /\ native'[i] = native[i]
    PROVE  IInv'
<1> USE ConstantAssumption DEF ConstantAssumption
<1> DEFINE st == [status EXCEPT ![i] = s]
           k  == [pc EXCEPT ![i] = IF draining = i THEN "settle" ELSE "idle"]
<1>1. /\ RestOK /\ DrainedOK
      /\ WorkOK(status, exec, pc, native, sends, streams)
  BY TypeParts DEF IInv
<1>2. StatusOK(st)
  BY <1>1 DEF DrainedOK, StatusOK, InputStatus, Work
<1>3. k \in [Work -> Awaits]
  BY <1>1 DEF DrainedOK, Awaits, Work
<1>4. WorkOK(st, exec', k, native', sends', streams')
  <2>1. ASSUME NEW j \in Inputs
        PROVE  InputOK(st[j], exec'[j], k[j], native'[j], sends'[j], j \in streams')
    BY <1>1, <2>1 DEF RestOK, DrainedOK, StatusOK, WorkOK, InputOK, Work, TerminalExecution,
                      Open, Dispatched
  <2>2. ASSUME NEW c \in Compacts
        PROVE  CompactOK(st[c], k[c], native'[c], sends'[c])
    BY <1>1, <2>2 DEF DrainedOK, StatusOK, WorkOK, Work
  <2>3. \A j, l \in Inputs : st[j] \in Open /\ st[l] \in Open => j = l
    BY <1>1 DEF DrainedOK, StatusOK, WorkOK, InputOK, Work, Open, Dispatched
  <2> QED BY <2>1, <2>2, <2>3 DEF WorkOK
<1>5. CASE s = "rejected" /\ Drain(st, position, k, paused)
  <2>1. position \in [Work -> Positions \cup {NoPosition}]
    BY <1>1 DEF DrainedOK
  <2> QED BY <1>2, <1>3, <1>4, <1>5, <2>1, DrainStep
<1>6. CASE /\ s = "unknown"
           /\ status' = RejectQueuedInputs(st) /\ pc' = k
           /\ UNCHANGED <<position, draining>>
  <2>1. StatusOK(status') /\ WorkOK(status', exec', pc', native', sends', streams')
    BY <1>2, <1>4, <1>6, RejectWork
  <2>2. DrainedOK'
    BY <1>1, <1>3, <1>6, <2>1 DEF DrainedOK, StatusOK
  <2> QED BY <2>1, <2>2, Assemble
<1> QED BY <1>5, <1>6 DEF SubmitFails

LEMMA RunFailsStep ==
    ASSUME IInv, NEW i \in Inputs,
           DispatchRefused(i) \/ RunRefused(i) \/ RunUncertain(i)
    PROVE  IInv'
<1> USE ConstantAssumption DEF ConstantAssumption
<1>1. /\ RestOK /\ DrainedOK
      /\ WorkOK(status, exec, pc, native, sends, streams)
  BY TypeParts DEF IInv
<1>2. CASE DispatchRefused(i)
  <2>1. RestOK'
    BY <1>1, <1>2 DEF DispatchRefused, RestOK, hostVars, engineVars
  <2>2. native[i] = "none" /\ native' = native
    BY <1>1, <1>2 DEF DispatchRefused, WorkOK, InputOK, engineVars
  <2> QED BY <1>2, <2>1, <2>2, FailStep DEF DispatchRefused, engineVars
<1>3. CASE RunRefused(i)
  <2>1. RestOK'
    BY <1>1, <1>3 DEF RunRefused, RestOK, hostVars, NativeStatus, Work
  <2>2. native'[i] = "none" /\ \A w \in Work \ {i} : native'[w] = native[w]
    BY <1>1, <1>3 DEF RunRefused, RestOK, Work
  <2> QED BY <1>3, <2>1, <2>2, FailStep DEF RunRefused
<1>4. CASE RunUncertain(i)
  <2>1. RestOK'
    BY <1>1, <1>4 DEF RunUncertain, RestOK, hostVars, engineVars
  <2> QED BY <1>4, <2>1, FailStep DEF RunUncertain, engineVars
<1> QED BY <1>2, <1>3, <1>4

(* The drain gets its Input back, or is run again.                            *)
LEMMA DrainerStep ==
    ASSUME IInv, (\E i \in Inputs : DrainSettles(i)) \/ DrainAgain
    PROVE  IInv'
<1> USE ConstantAssumption DEF ConstantAssumption
<1>1. /\ RestOK /\ DrainedOK
      /\ WorkOK(status, exec, pc, native, sends, streams)
  BY TypeParts DEF IInv
<1>2. ASSUME NEW i \in Inputs, DrainSettles(i)
      PROVE  IInv'
  <2>1. RestOK'
    BY <1>1, <1>2 DEF DrainSettles, RestOK, hostVars, engineVars
  <2>2. WorkOK(status, exec, pc', native, sends, streams)
    BY <1>1, <1>2 DEF DrainSettles, DrainedOK, WorkOK, InputOK, CompactOK, Work
  <2>3. StatusOK(status)
    BY <1>1 DEF DrainedOK
  <2>4. StatusOK(status') /\ WorkOK(status', exec', pc', native', sends', streams')
    BY <1>2, <2>2, <2>3, RejectWork, StopWork DEF DrainSettles, engineVars
  <2>5. position' \in [Work -> Positions \cup {NoPosition}]
    BY <1>1, <1>2, StopPositions DEF DrainSettles, DrainedOK
  <2>6. DrainedOK'
    BY <1>1, <1>2, <2>4, <2>5 DEF DrainSettles, DrainedOK, StatusOK, Awaits, Work
  <2> QED BY <2>1, <2>4, <2>6, Assemble
<1>3. CASE DrainAgain
  <2>1. RestOK'
    BY <1>1, <1>3 DEF DrainAgain, RestOK, hostVars, engineVars
  <2>2. WorkOK(status, exec', pc, native', sends', streams')
    BY <1>1, <1>3 DEF DrainAgain, engineVars
  <2> QED BY <1>1, <1>3, <2>1, <2>2, DrainStep DEF DrainAgain, DrainedOK
<1> QED BY <1>2, <1>3

(* The events of a stream, and its end.                                       *)
LEMMA StreamWork ==
    ASSUME IInv, NEW i \in Inputs, StreamStep(i)
    PROVE  IInv'
<1> USE ConstantAssumption DEF ConstantAssumption
<1>1. /\ RestOK /\ DrainedOK
      /\ WorkOK(status, exec, pc, native, sends, streams)
  BY TypeParts DEF IInv
<1>2. CASE EventAccepted(i)
  <2>1. RestOK'
    BY <1>1, <1>2 DEF EventAccepted, RestOK, hostVars, procVars, engineVars, ExecutionStatus
  <2>2. DrainedOK'
    BY <1>1, <1>2 DEF EventAccepted, DrainedOK, StatusOK, procVars, InputStatus, Dispatched, Work
  <2>3. WorkOK(status', exec', pc', native', sends', streams')
    BY <1>1, <1>2 DEF EventAccepted, RestOK, DrainedOK, StatusOK, WorkOK, InputOK, procVars,
                      engineVars, Work, TerminalExecution, Open, Dispatched
  <2> QED BY <2>1, <2>2, <2>3, Assemble
<1>3. CASE EventStarted(i)
  <2>1. RestOK'
    BY <1>1, <1>3 DEF EventStarted, RestOK, hostVars, procVars, engineVars, ExecutionStatus
  <2>2. DrainedOK'
    BY <1>1, <1>3 DEF EventStarted, DrainedOK, StatusOK, procVars, InputStatus, Dispatched, Work
  <2>3. WorkOK(status', exec', pc', native', sends', streams')
    BY <1>1, <1>3 DEF EventStarted, RestOK, DrainedOK, StatusOK, WorkOK, InputOK, procVars,
                      engineVars, Work, TerminalExecution, Open, Dispatched
  <2> QED BY <2>1, <2>2, <2>3, Assemble
<1>4. CASE EventTerminal(i)
  <2> DEFINE st == [status EXCEPT ![i] = native[i]]
  <2>1. RestOK'
    BY <1>1, <1>4 DEF EventTerminal, RestOK, hostVars, engineVars, ExecutionStatus
  <2>2. StatusOK(st)
    BY <1>1, <1>4 DEF EventTerminal, DrainedOK, StatusOK, InputStatus, Work
  <2>3. WorkOK(st, exec', pc, native', sends', streams')
    BY <1>1, <1>4 DEF EventTerminal, RestOK, DrainedOK, StatusOK, WorkOK, InputOK, engineVars,
                      Work, TerminalExecution, Open, Dispatched
  <2>4. Drain(st, position, pc, paused)
    BY <1>4 DEF EventTerminal
  <2> QED BY <1>1, <2>1, <2>2, <2>3, <2>4, DrainStep DEF DrainedOK
<1>5. ASSUME i \in streams, exec' = UnknownExec(i)
      PROVE  /\ StatusOK(UnknownStatus(i))
             /\ exec' \in [Inputs -> ExecutionStatus]
             /\ WorkOK(UnknownStatus(i), exec', pc, native, sends, streams)
  <2> DEFINE st == UnknownStatus(i)
  <2>1. StatusOK(st)
    BY <1>1 DEF DrainedOK, UnknownStatus, StatusOK, InputStatus, Work
  <2>2. exec' \in [Inputs -> ExecutionStatus]
    BY <1>1, <1>5 DEF RestOK, UnknownExec, ExecutionStatus
  <2>3. /\ \A j \in Inputs : InputOK(st[j], exec'[j], pc[j], native[j], sends[j], j \in streams)
        /\ \A c \in Compacts : st[c] = status[c]
    <3>1. /\ \A w \in Work \ {i} : st[w] = status[w]
          /\ \A j \in Inputs \ {i} : exec'[j] = exec[j]
      BY <1>1, <1>5 DEF UnknownExec, UnknownStatus, RestOK, DrainedOK, StatusOK, Work
    <3>2. st[i] = IF status[i] \in {"completed", "failed", "stopped", "rejected", "cancelled"}
                  THEN status[i] ELSE "unknown"
      BY <1>1 DEF UnknownStatus, DrainedOK, StatusOK, Work
    <3>3. exec'[i] = IF exec[i] = "none" \/ exec[i] \in TerminalExecution
                     THEN exec[i] ELSE "unknown"
      BY <1>1, <1>5 DEF UnknownExec, RestOK
    <3>4. InputOK(status[i], exec[i], pc[i], native[i], sends[i], TRUE)
      BY <1>1, <1>5 DEF WorkOK, InputOK
    <3>5. status[i] \in InputStatus /\ exec[i] \in ExecutionStatus
      BY <1>1 DEF RestOK, DrainedOK, StatusOK
    <3>6. InputOK(st[i], exec'[i], pc[i], native[i], sends[i], TRUE)
      BY <3>2, <3>3, <3>4, <3>5 DEF InputOK, InputStatus, ExecutionStatus, TerminalExecution,
                                        Open, Dispatched
    <3>7. \A j \in Inputs :
            InputOK(st[j], exec'[j], pc[j], native[j], sends[j], j \in streams)
      <4> HIDE DEF st
      <4> QED BY <1>1, <1>5, <3>1, <3>6 DEF WorkOK, InputOK, Work
    <3> QED BY <3>1, <3>7 DEF Work
  <2>4. \A j, l \in Inputs : st[j] \in Open /\ st[l] \in Open => j = l
    BY <1>1, <1>5 DEF UnknownStatus, DrainedOK, StatusOK, WorkOK, InputOK, InputStatus, Work,
                      TerminalExecution, Open, Dispatched
  <2> QED BY <1>1, <2>1, <2>2, <2>3, <2>4 DEF WorkOK
<1>6. CASE EventUnknown(i)
  <2>1. i \in streams /\ exec' = UnknownExec(i) /\ status' = UnknownStatus(i)
    BY <1>6 DEF EventUnknown
  <2>2. RestOK'
    BY <1>1, <1>5, <1>6, <2>1 DEF EventUnknown, RestOK, hostVars, procVars, engineVars
  <2>3. DrainedOK'
    BY <1>1, <1>5, <1>6, <2>1 DEF EventUnknown, DrainedOK, StatusOK, procVars
  <2>4. WorkOK(status', exec', pc', native', sends', streams')
    BY <1>5, <1>6, <2>1 DEF EventUnknown, procVars, engineVars
  <2> QED BY <2>2, <2>3, <2>4, Assemble
<1>7. ASSUME NEW st, NEW e, NEW str, WorkOK(st, e, pc, native, sends, str)
      PROVE  WorkOK(st, e, pc, native, sends, str \ {i})
  BY <1>7 DEF WorkOK, InputOK
<1>8. CASE /\ i \in streams /\ streams' = streams \ {i}
           /\ status' = RejectQueuedInputs(UnknownStatus(i)) /\ exec' = UnknownExec(i)
           /\ UNCHANGED <<hostVars, position, pc, draining, wakeup, urgent, engineVars, restarts>>
  <2>1. RestOK'
    BY <1>1, <1>5, <1>8 DEF RestOK, hostVars, engineVars
  <2>2. StatusOK(status') /\ WorkOK(status', exec', pc, native, sends, streams)
    BY <1>5, <1>8, RejectWork
  <2>3. DrainedOK'
    BY <1>1, <1>8, <2>2 DEF DrainedOK, StatusOK
  <2>4. WorkOK(status', exec', pc', native', sends', streams')
    BY <1>7, <1>8, <2>2 DEF engineVars
  <2> QED BY <2>1, <2>3, <2>4, Assemble
<1>9. CASE /\ streams' = streams \ {i}
           /\ UNCHANGED <<status, exec>>
           /\ UNCHANGED <<hostVars, position, pc, draining, wakeup, urgent, engineVars, restarts>>
  <2>1. RestOK' /\ DrainedOK'
    BY <1>1, <1>9 DEF RestOK, DrainedOK, StatusOK, hostVars, engineVars
  <2>2. WorkOK(status', exec', pc', native', sends', streams')
    BY <1>1, <1>7, <1>9 DEF engineVars
  <2> QED BY <2>1, <2>2, Assemble
<1> QED BY <1>2, <1>3, <1>4, <1>6, <1>8, <1>9 DEF StreamStep, StreamEnds, StreamFails

(* The compaction handler.                                                    *)
LEMMA CompactQuietStep ==
    ASSUME IInv, NEW c \in Compacts,
           \/ CompactAsk(c) \/ CompactAskFails(c) \/ CompactRequested(c)
           \/ CompactDispatch(c) \/ CompactAccepted(c)
    PROVE  IInv'
<1> USE ConstantAssumption DEF ConstantAssumption
<1>1. /\ RestOK /\ DrainedOK
      /\ WorkOK(status, exec, pc, native, sends, streams)
  BY TypeParts DEF IInv
<1>2. CASE CompactAsk(c) \/ CompactAskFails(c)
  <2>1. RestOK'
    BY <1>1, <1>2 DEF CompactAsk, CompactAskFails, RestOK, hostVars, storeVars, engineVars
  <2>2. DrainedOK'
    BY <1>1, <1>2 DEF CompactAsk, CompactAskFails, DrainedOK, StatusOK, storeVars, Awaits, Work
  <2>3. WorkOK(status', exec', pc', native', sends', streams')
    BY <1>1, <1>2 DEF CompactAsk, CompactAskFails, DrainedOK, WorkOK, CompactOK, storeVars,
                      engineVars, Work
  <2> QED BY <2>1, <2>2, <2>3, Assemble
<1>3. CASE CompactRequested(c)
  <2>1. RestOK'
    BY <1>1, <1>3 DEF CompactRequested, RestOK, hostVars, engineVars
  <2>2. DrainedOK'
    BY <1>1, <1>3 DEF CompactRequested, DrainedOK, StatusOK, CompactStatus, Awaits, Work
  <2>3. WorkOK(status', exec', pc', native', sends', streams')
    BY <1>1, <1>3 DEF CompactRequested, DrainedOK, StatusOK, WorkOK, CompactOK, engineVars, Work
  <2> QED BY <2>1, <2>2, <2>3, Assemble
<1>4. CASE CompactDispatch(c)
  <2>1. RestOK'
    BY <1>1, <1>4 DEF CompactDispatch, RestOK, hostVars, storeVars, NativeStatus, Work
  <2>2. DrainedOK'
    BY <1>1, <1>4 DEF CompactDispatch, DrainedOK, StatusOK, storeVars, Awaits, Work
  <2>3. WorkOK(status', exec', pc', native', sends', streams')
    BY <1>1, <1>4 DEF CompactDispatch, RestOK, DrainedOK, StatusOK, WorkOK, CompactOK,
                      storeVars, Work
  <2> QED BY <2>1, <2>2, <2>3, Assemble
<1>5. CASE CompactAccepted(c)
  <2>1. RestOK'
    BY <1>1, <1>5 DEF CompactAccepted, RestOK, hostVars, procVars, engineVars
  <2>2. DrainedOK'
    BY <1>1, <1>5 DEF CompactAccepted, DrainedOK, StatusOK, CompactStatus, procVars, Work
  <2>3. WorkOK(status', exec', pc', native', sends', streams')
    BY <1>1, <1>5 DEF CompactAccepted, DrainedOK, StatusOK, WorkOK, CompactOK, procVars,
                      engineVars, Work
  <2> QED BY <2>1, <2>2, <2>3, Assemble
<1> QED BY <1>2, <1>3, <1>4, <1>5

LEMMA CompactEndStep ==
    ASSUME IInv, NEW c \in Compacts, NEW s \in {"completed", "failed", "unknown"},
           CompactEnds(c, s),
           pc[c] # "ask",
           s \in {"completed", "failed"} => native[c] # "running"
    PROVE  IInv'
<1> USE ConstantAssumption DEF ConstantAssumption
<1> DEFINE st == [status EXCEPT ![c] = s]
           po == [position EXCEPT ![c] = NoPosition]
           k  == [pc EXCEPT ![c] = "idle"]
<1>1. /\ RestOK /\ DrainedOK
      /\ WorkOK(status, exec, pc, native, sends, streams)
  BY TypeParts DEF IInv
<1>2. RestOK'
  BY <1>1 DEF CompactEnds, RestOK, hostVars, engineVars
<1>3. StatusOK(st)
  BY <1>1 DEF DrainedOK, StatusOK, CompactStatus, Work
<1>4. /\ po \in [Work -> Positions \cup {NoPosition}]
      /\ k \in [Work -> Awaits]
  BY <1>1 DEF DrainedOK, Awaits, Work
<1>5. WorkOK(st, exec', k, native', sends', streams')
  BY <1>1 DEF CompactEnds, DrainedOK, StatusOK, WorkOK, CompactOK, engineVars, Work
<1>6. Drain(st, po, k, paused)
  BY DEF CompactEnds
<1> QED BY <1>2, <1>3, <1>4, <1>5, <1>6, DrainStep

LEMMA CompactDrainStep ==
    ASSUME IInv, NEW c \in Compacts,
           CompactQueued(c) \/ CompactRefused(c) \/ CompactIncapable(c) \/ CompactReceipt(c)
    PROVE  IInv'
<1> USE ConstantAssumption DEF ConstantAssumption
<1>1. /\ RestOK /\ DrainedOK
      /\ WorkOK(status, exec, pc, native, sends, streams)
  BY TypeParts DEF IInv
<1>2. CASE CompactQueued(c)
  <2>1. PICK p \in Positions :
          Drain([status EXCEPT ![c] = "queued"], [position EXCEPT ![c] = p],
                [pc EXCEPT ![c] = "idle"], paused)
    BY <1>2 DEF CompactQueued
  <2> DEFINE st == [status EXCEPT ![c] = "queued"]
             po == [position EXCEPT ![c] = p]
             k  == [pc EXCEPT ![c] = "idle"]
  <2>2. RestOK'
    BY <1>1, <1>2 DEF CompactQueued, RestOK, hostVars, engineVars
  <2>3. StatusOK(st)
    BY <1>1 DEF DrainedOK, StatusOK, CompactStatus, Work
  <2>4. /\ po \in [Work -> Positions \cup {NoPosition}]
        /\ k \in [Work -> Awaits]
    BY <1>1 DEF DrainedOK, Awaits, Work
  <2>5. WorkOK(st, exec', k, native', sends', streams')
    BY <1>1, <1>2 DEF CompactQueued, DrainedOK, StatusOK, WorkOK, CompactOK, engineVars, Work
  <2> QED BY <2>1, <2>2, <2>3, <2>4, <2>5, DrainStep
<1>3. CASE CompactRefused(c) \/ CompactIncapable(c)
  <2>1. pc[c] # "ask" /\ native[c] # "running" /\ CompactEnds(c, "failed")
    BY <1>1, <1>3 DEF CompactRefused, CompactIncapable, WorkOK, CompactOK
  <2> QED BY <2>1, CompactEndStep
<1>4. CASE CompactReceipt(c)
  <2>1. pc[c] # "ask" /\ native[c] # "stopped"
    BY <1>1, <1>4 DEF CompactReceipt, WorkOK, CompactOK
  <2>2. CASE native[c] \in TerminalExecution /\ CompactEnds(c, native[c])
    BY <2>1, <2>2, CompactEndStep DEF TerminalExecution
  <2>3. CASE native[c] = "lost" /\ CompactEnds(c, "failed")
    BY <2>1, <2>3, CompactEndStep
  <2>4. CASE CompactEnds(c, "unknown")
    BY <2>1, <2>4, CompactEndStep
  <2> QED BY <1>4, <2>2, <2>3, <2>4 DEF CompactReceipt
<1> QED BY <1>2, <1>3, <1>4

(* Reordering yields positions.                                               *)
LEMMA ReorderTypes ==
    ASSUME NEW i \in Inputs, NEW b,
           position \in [Work -> Positions \cup {NoPosition}],
           NEW po \in Reordered(i, b)
    PROVE  po \in [Work -> Positions \cup {NoPosition}]
BY DEF Reordered, QueuedInputs

(* What users do with the queue.                                              *)
LEMMA QueueCallStep ==
    ASSUME IInv, NEW i \in Inputs,
           \/ CancelQueuedInput(i) \/ SendNowAsks(i)
           \/ \E b \in Inputs \cup {None} : MoveQueuedInput(i, b)
    PROVE  IInv'
<1> USE ConstantAssumption DEF ConstantAssumption
<1>1. /\ RestOK /\ DrainedOK
      /\ WorkOK(status, exec, pc, native, sends, streams)
  BY TypeParts DEF IInv
<1>2. CASE CancelQueuedInput(i)
  <2>1. RestOK'
    BY <1>1, <1>2 DEF CancelQueuedInput, RestOK, hostVars, procVars, engineVars
  <2>2. DrainedOK'
    BY <1>1, <1>2 DEF CancelQueuedInput, DrainedOK, StatusOK, InputStatus, procVars, Work
  <2>3. WorkOK(status', exec', pc', native', sends', streams')
    BY <1>1, <1>2 DEF CancelQueuedInput, DrainedOK, StatusOK, WorkOK, InputOK, procVars,
                      engineVars, Work, Open, Dispatched, TerminalExecution
  <2> QED BY <2>1, <2>2, <2>3, Assemble
<1>3. CASE SendNowAsks(i)
  <2>1. PICK a \in LiveExecutions :
          urgent' = [input |-> i, active |-> a, moved |-> FALSE,
                     was |-> [j \in QueuedInputs(status) |-> position[j]]]
    BY <1>3 DEF SendNowAsks
  <2>2. [j \in QueuedInputs(status) |-> position[j]]
          \in [QueuedInputs(status) -> Positions \cup {NoPosition}]
    BY <1>1 DEF DrainedOK, QueuedInputs, Work
  <2>3. [j \in QueuedInputs(status) |-> position[j]]
          \in UNION {[Q -> Positions \cup {NoPosition}] : Q \in SUBSET Inputs}
    BY <2>2 DEF QueuedInputs
  <2>4. urgent' \in [input : Inputs, active : Inputs, moved : BOOLEAN,
                     was : UNION {[Q -> Positions \cup {NoPosition}] : Q \in SUBSET Inputs}]
    <3> HIDE DEF QueuedInputs
    <3> QED BY <2>1, <2>3 DEF LiveExecutions
  <2>5. RestOK'
    BY <1>1, <1>3, <2>4 DEF SendNowAsks, RestOK, hostVars, storeVars, engineVars
  <2>6. DrainedOK'
    BY <1>1, <1>3 DEF SendNowAsks, DrainedOK, StatusOK, storeVars
  <2>7. WorkOK(status', exec', pc', native', sends', streams')
    BY <1>1, <1>3 DEF SendNowAsks, storeVars, engineVars
  <2> QED BY <2>5, <2>6, <2>7, Assemble
<1>4. ASSUME NEW b \in Inputs \cup {None}, MoveQueuedInput(i, b)
      PROVE  IInv'
  <2>1. RestOK'
    BY <1>1, <1>4 DEF MoveQueuedInput, RestOK, hostVars, procVars, engineVars
  <2>2. DrainedOK'
    BY <1>1, <1>4, ReorderTypes DEF MoveQueuedInput, DrainedOK, StatusOK, procVars
  <2>3. WorkOK(status', exec', pc', native', sends', streams')
    BY <1>1, <1>4 DEF MoveQueuedInput, procVars, engineVars
  <2> QED BY <2>1, <2>2, <2>3, Assemble
<1> QED BY <1>2, <1>3, <1>4

(* Moving an Input to the front, or back, yields positions.                   *)
LEMMA MoveTypes ==
    ASSUME position \in [Work -> Positions \cup {NoPosition}],
           NEW i \in Inputs
    PROVE  MovedToFront(i) \subseteq [Work -> Positions \cup {NoPosition}]
BY ReorderTypes DEF MovedToFront

LEMMA MoveBackTypes ==
    ASSUME position \in [Work -> Positions \cup {NoPosition}],
           NEW u, u.input \in Inputs
    PROVE  MovedBack(u) \subseteq [Work -> Positions \cup {NoPosition}]
BY ReorderTypes DEF MovedBack

(* A queued Input is sent now: the queue is reordered, perhaps drained, and    *)
(* perhaps put back.                                                          *)
LEMMA SendNowWork ==
    ASSUME IInv, SendNowStep \/ \E i \in Inputs : SendIdleNow(i)
    PROVE  IInv'
<1> USE ConstantAssumption
<1>1. /\ RestOK /\ DrainedOK
      /\ WorkOK(status, exec, pc, native, sends, streams)
  BY TypeParts DEF IInv
<1>2. position \in [Work -> Positions \cup {NoPosition}] /\ pc \in [Work -> Awaits]
  BY <1>1 DEF DrainedOK
<1>3. StatusOK(status)
  BY <1>1 DEF DrainedOK
<1>4. urgent # None => urgent.input \in Inputs
  BY <1>1 DEF RestOK
<1>5. ASSUME NEW po \in [Work -> Positions \cup {NoPosition}],
             Drain(status, po, pc, paused), urgent' \in {urgent, None},
             UNCHANGED <<hostVars, exec, streams, wakeup, engineVars, restarts>>
      PROVE  IInv'
  <2>1. RestOK'
    BY <1>1, <1>5 DEF RestOK, hostVars, engineVars
  <2>2. WorkOK(status, exec', pc, native', sends', streams')
    BY <1>1, <1>5 DEF engineVars
  <2> QED BY <1>2, <1>3, <1>5, <2>1, <2>2, DrainStep
<1>6. ASSUME position' \in [Work -> Positions \cup {NoPosition}],
             RestOK',
             UNCHANGED <<status, exec, pc, streams, draining, engineVars>>
      PROVE  IInv'
  <2>1. DrainedOK'
    BY <1>1, <1>6 DEF DrainedOK, StatusOK
  <2>2. WorkOK(status', exec', pc', native', sends', streams')
    BY <1>1, <1>6 DEF engineVars
  <2> QED BY <1>6, <2>1, <2>2, Assemble
<1>7. ASSUME NEW i \in Inputs, SendIdleNow(i) PROVE IInv'
  <2>1. PICK po \in MovedToFront(i) : Drain(status, po, pc, paused)
    BY <1>7 DEF SendIdleNow
  <2>2. po \in [Work -> Positions \cup {NoPosition}]
    BY <1>2, MoveTypes
  <2> QED BY <1>5, <1>7, <2>1, <2>2 DEF SendIdleNow
<1>8. CASE SendNowMoves
  <2>1. PICK po \in MovedToFront(urgent.input) :
          \/ urgent' = None /\ Drain(status, po, pc, paused)
          \/ /\ urgent' = [urgent EXCEPT !.moved = TRUE]
             /\ position' = po
             /\ UNCHANGED <<status, pc, draining>>
    BY <1>8 DEF SendNowMoves
  <2>2. po \in [Work -> Positions \cup {NoPosition}]
    BY <1>2, <1>4, <1>8, MoveTypes DEF SendNowMoves
  <2>3. UNCHANGED <<hostVars, exec, streams, wakeup, engineVars, restarts>>
    BY <1>8 DEF SendNowMoves
  <2>4. CASE urgent' = None /\ Drain(status, po, pc, paused)
    BY <1>5, <2>2, <2>3, <2>4
  <2>5. CASE /\ urgent' = [urgent EXCEPT !.moved = TRUE]
             /\ position' = po
             /\ UNCHANGED <<status, pc, draining>>
    <3>1. RestOK'
      <4>1. urgent # None
        BY <1>8 DEF SendNowMoves
      <4> QED BY <1>1, <2>3, <2>5, <4>1 DEF RestOK, hostVars, engineVars
    <3> QED BY <1>6, <2>2, <2>3, <2>5, <3>1
  <2> QED BY <2>1, <2>4, <2>5
<1>9. CASE SendNowFails \/ SendNowStops
  <2>1. RestOK'
    BY <1>1, <1>9 DEF SendNowFails, SendNowStops, RestOK, hostVars, storeVars, engineVars
  <2> QED BY <1>2, <1>6, <1>9, <2>1 DEF SendNowFails, SendNowStops, storeVars
<1>10. CASE SendNowTooLate
  BY <1>2, <1>5, <1>10 DEF SendNowTooLate
<1>11. CASE SendNowRestores
  <2>1. RestOK'
    BY <1>1, <1>11 DEF SendNowRestores, RestOK, hostVars, engineVars
  <2>2. position' \in [Work -> Positions \cup {NoPosition}]
    BY <1>2, <1>4, <1>11, MoveBackTypes DEF SendNowRestores
  <2> QED BY <1>6, <1>11, <2>1, <2>2 DEF SendNowRestores
<1> QED BY <1>7, <1>8, <1>9, <1>10, <1>11 DEF SendNowStep

(* The life of the Task, the authorization and the hold of the queue.         *)
LEMMA HostStep ==
    ASSUME IInv,
           \/ FreezeTask \/ CloseTask \/ AbandonTask \/ RevokeAuthorization
           \/ RestoreTaskSession \/ ResumeQueuedInputs
    PROVE  IInv'
<1> USE ConstantAssumption
<1>1. /\ RestOK /\ DrainedOK
      /\ WorkOK(status, exec, pc, native, sends, streams)
  BY TypeParts DEF IInv
<1>2. CASE FreezeTask \/ AbandonTask
  <2>1. RestOK'
    BY <1>1, <1>2 DEF FreezeTask, AbandonTask, RestOK, TaskStatus, procVars, engineVars
  <2>2. StatusOK(status') /\ WorkOK(status', exec', pc', native', sends', streams')
    BY <1>1, <1>2, RejectWork DEF FreezeTask, AbandonTask, DrainedOK, procVars, engineVars
  <2>3. DrainedOK'
    BY <1>1, <1>2, <2>2 DEF FreezeTask, AbandonTask, DrainedOK, StatusOK, procVars
  <2> QED BY <2>1, <2>2, <2>3, Assemble
<1>3. CASE CloseTask \/ RevokeAuthorization \/ RestoreTaskSession
  <2>1. RestOK'
    BY <1>1, <1>3 DEF CloseTask, RevokeAuthorization, RestoreTaskSession, RestOK, TaskStatus,
                      storeVars, procVars, engineVars
  <2>2. DrainedOK'
    BY <1>1, <1>3 DEF CloseTask, RevokeAuthorization, RestoreTaskSession, DrainedOK, StatusOK,
                      storeVars, procVars
  <2>3. WorkOK(status', exec', pc', native', sends', streams')
    BY <1>1, <1>3 DEF CloseTask, RevokeAuthorization, RestoreTaskSession, storeVars, procVars,
                      engineVars
  <2> QED BY <2>1, <2>2, <2>3, Assemble
<1>4. CASE ResumeQueuedInputs
  <2>1. RestOK'
    BY <1>1, <1>4 DEF ResumeQueuedInputs, RestOK, engineVars
  <2>2. WorkOK(status, exec', pc, native', sends', streams')
    BY <1>1, <1>4 DEF ResumeQueuedInputs, engineVars
  <2> QED BY <1>1, <1>4, <2>1, <2>2, DrainStep DEF ResumeQueuedInputs, DrainedOK
<1> QED BY <1>2, <1>3, <1>4

(* Reconciliation gives an unknown turn the outcome the Engine has.           *)
LEMMA ReconcileStep ==
    ASSUME IInv, NEW i \in Inputs, ReconcileInput(i) \/ ReconcileExecution(i)
    PROVE  IInv'
<1> USE ConstantAssumption DEF ConstantAssumption
<1>1. /\ RestOK /\ DrainedOK
      /\ WorkOK(status, exec, pc, native, sends, streams)
  BY TypeParts DEF IInv
<1>2. /\ status[i] = "unknown" /\ native[i] \in TerminalExecution
      /\ exec' = [exec EXCEPT ![i] = native[i]]
      /\ status' = [status EXCEPT ![i] = native[i]]
      /\ UNCHANGED <<hostVars, position, procVars, engineVars, restarts>>
  BY DEF ReconcileInput, ReconcileExecution
<1>3. RestOK'
  BY <1>1, <1>2 DEF RestOK, hostVars, procVars, engineVars, ExecutionStatus
<1>4. DrainedOK'
  BY <1>1, <1>2 DEF DrainedOK, StatusOK, InputStatus, procVars, Work
<1>5. WorkOK(status', exec', pc', native', sends', streams')
  BY <1>1, <1>2 DEF RestOK, DrainedOK, StatusOK, WorkOK, InputOK, procVars, engineVars, Work,
                    TerminalExecution, Open, Dispatched
<1> QED BY <1>3, <1>4, <1>5, Assemble

(* The Engine ends a command.                                                 *)
LEMMA FinishStep ==
    ASSUME IInv, NEW w \in Work, NativeFinish(w)
    PROVE  IInv'
<1> USE ConstantAssumption DEF ConstantAssumption
<1>1. /\ RestOK /\ DrainedOK
      /\ WorkOK(status, exec, pc, native, sends, streams)
  BY TypeParts DEF IInv
<1>2. PICK o \in IF w \in Inputs THEN Outcomes ELSE {"completed", "failed"} :
        native' = [native EXCEPT ![w] = o]
  BY DEF NativeFinish
<1>3. o \in AllOutcomes /\ (w \in Compacts => o # "stopped")
  BY <1>2 DEF AllOutcomes
<1>4. /\ native[w] = "running"
      /\ UNCHANGED <<hostVars, storeVars, procVars, sends, restarts>>
  BY DEF NativeFinish
<1>5. RestOK'
  BY <1>1, <1>2, <1>3, <1>4 DEF RestOK, hostVars, storeVars, procVars, NativeStatus,
                                TerminalExecution, AllOutcomes
<1>6. DrainedOK'
  BY <1>1, <1>4 DEF DrainedOK, StatusOK, storeVars, procVars
<1>7. ASSUME NEW i \in Inputs
      PROVE  InputOK(status'[i], exec'[i], pc'[i], native'[i], sends'[i], i \in streams')
  <2>1. CASE i # w
    BY <1>1, <1>2, <1>4, <2>1 DEF RestOK, WorkOK, storeVars, procVars, Work
  <2>2. CASE i = w
    <3>1. /\ InputOK(status[i], exec[i], pc[i], "running", sends[i], i \in streams)
          /\ native'[i] = o
      BY <1>1, <1>2, <1>4, <2>2 DEF RestOK, WorkOK, Work
    <3> QED BY <1>3, <1>4, <3>1 DEF InputOK, storeVars, procVars, AllOutcomes,
                                    TerminalExecution, Open, Dispatched
  <2> QED BY <2>1, <2>2
<1>8. ASSUME NEW c \in Compacts
      PROVE  CompactOK(status'[c], pc'[c], native'[c], sends'[c])
  BY <1>1, <1>2, <1>3, <1>4, <1>8 DEF RestOK, WorkOK, CompactOK, storeVars, procVars, Work,
                                     AllOutcomes
<1>9. WorkOK(status', exec', pc', native', sends', streams')
  BY <1>1, <1>4, <1>7, <1>8 DEF WorkOK, storeVars
<1> QED BY <1>5, <1>6, <1>9, Assemble

(* A restart of the Host forgets handlers, not what was sent.                 *)
LEMMA RestartStep ==
    ASSUME IInv, Restart
    PROVE  IInv'
<1> USE ConstantAssumption DEF ConstantAssumption
<1>1. /\ RestOK /\ DrainedOK
      /\ WorkOK(status, exec, pc, native, sends, streams)
  BY TypeParts DEF IInv
<1>2. /\ \A i \in Inputs : status'[i] = IF status[i] \in Dispatched THEN "unknown" ELSE status[i]
      /\ \A c \in Compacts : status'[c] = IF status[c] \in {"requested", "accepted"}
                                        THEN "unknown" ELSE status[c]
      /\ status' \in [Work -> InputStatus \cup CompactStatus]
  BY <1>1 DEF Restart, InFlight, NativeCompacts, DrainedOK, StatusOK, InputStatus,
              CompactStatus, Work
<1>3. /\ exec' \in [Inputs -> ExecutionStatus]
      /\ \A i \in Inputs : exec'[i] = IF exec[i] \in {"accepted", "started", "unknown"}
                                    THEN "unknown" ELSE exec[i]
  BY <1>1 DEF Restart, LiveExecutions, RestOK, ExecutionStatus
<1>4. /\ \A w \in Work : pc'[w] = "idle"
      /\ streams' = {} /\ draining' = None /\ wakeup' = FALSE /\ urgent' = None
      /\ UNCHANGED <<task, grant, native, sends>>
      /\ pc' \in [Work -> Awaits]
  BY DEF Restart, engineVars, Awaits
<1>5. RestOK'
  <2>1. paused' \in BOOLEAN
    BY ZenonT(20) DEF Restart
  <2>2. restarts' \in 0..MaxRestarts
    BY <1>1 DEF Restart, RestOK
  <2>3. session' = "unknown"
    BY DEF Restart
  <2>4. urgent' \in {None}
    BY <1>4
  <2> QED BY <1>1, <1>3, <1>4, <2>1, <2>2, <2>3, <2>4 DEF RestOK
<1>6. DrainedOK'
  <2>1. position' \in [Work -> Positions \cup {NoPosition}]
    BY <1>1 DEF Restart, DrainedOK
  <2>2. /\ \A i \in Inputs : status'[i] \in InputStatus
        /\ \A c \in Compacts : status'[c] \in CompactStatus
    BY <1>1, <1>2 DEF DrainedOK, StatusOK, InputStatus, CompactStatus
  <2> QED BY <1>2, <1>4, <2>1, <2>2 DEF DrainedOK, StatusOK
<1>7. ASSUME NEW i \in Inputs
      PROVE  InputOK(status'[i], exec'[i], pc'[i], native'[i], sends'[i], i \in streams')
  <2>1. /\ InputOK(status[i], exec[i], pc[i], native[i], sends[i], i \in streams)
        /\ exec[i] \in ExecutionStatus
    BY <1>1 DEF RestOK, WorkOK
  <2> QED BY <1>2, <1>3, <1>4, <2>1 DEF InputOK, TerminalExecution, ExecutionStatus, Open,
                                       Dispatched, Work
<1>8. ASSUME NEW c \in Compacts
      PROVE  CompactOK(status'[c], pc'[c], native'[c], sends'[c])
  BY <1>1, <1>2, <1>4 DEF WorkOK, CompactOK, Work
<1>9. \A i, j \in Inputs : status'[i] \in Open /\ status'[j] \in Open => i = j
  BY <1>1, <1>2 DEF WorkOK, Open, Dispatched
<1>10. WorkOK(status', exec', pc', native', sends', streams')
  BY <1>7, <1>8, <1>9 DEF WorkOK
<1> QED BY <1>5, <1>6, <1>10, Assemble

-----------------------------------------------------------------------------

(* Every step keeps the invariant.                                            *)
LEMMA NextOK == IInv /\ [Next]_vars => IInv'
<1> SUFFICES ASSUME IInv, [Next]_vars PROVE IInv'
  OBVIOUS
<1>1. CASE HostCall
  <2>1. ASSUME NEW i \in Inputs, SubmitNow(i) \/ SubmitQueued(i) PROVE IInv'
    BY <2>1, SubmitStep
  <2>2. ASSUME NEW i \in Inputs,
               \/ CancelQueuedInput(i) \/ SendNowAsks(i)
               \/ \E b \in Inputs \cup {None} : MoveQueuedInput(i, b)
        PROVE  IInv'
    BY <2>2, QueueCallStep
  <2>3. ASSUME NEW i \in Inputs, SendIdleNow(i) PROVE IInv'
    BY <2>3, SendNowWork
  <2>4. ASSUME NEW i \in Inputs, ReconcileInput(i) \/ ReconcileExecution(i) PROVE IInv'
    BY <2>4, ReconcileStep
  <2>5. ASSUME NEW c \in Compacts, CompactAsk(c) PROVE IInv'
    BY <2>5, CompactQuietStep
  <2> QED BY <1>1, <2>1, <2>2, <2>3, <2>4, <2>5, HostStep DEF HostCall
<1>2. ASSUME NEW i \in Inputs, InputStep(i) PROVE IInv'
  BY <1>2, DispatchStep, RunFailsStep, DrainerStep DEF InputStep
<1>3. ASSUME NEW i \in Inputs, StreamStep(i) PROVE IInv'
  BY <1>3, StreamWork
<1>4. ASSUME NEW c \in Compacts, CompactStep(c) PROVE IInv'
  BY <1>4, CompactQuietStep, CompactDrainStep DEF CompactStep
<1>5. CASE DrainAgain
  BY <1>5, DrainerStep
<1>6. CASE SendNowStep
  BY <1>6, SendNowWork
<1>7. ASSUME NEW w \in Work, NativeFinish(w) PROVE IInv'
  BY <1>7, FinishStep
<1>8. CASE Restart
  BY <1>8, RestartStep
<1>9. CASE UNCHANGED vars
  <2>1. UNCHANGED <<task, session, paused, grant, status, position, exec, pc, streams,
                    draining, wakeup, urgent, native, sends, restarts>>
    BY <1>9 DEF vars, hostVars, storeVars, procVars, engineVars
  <2>2. TypeOK'
    BY <2>1 DEF IInv, TypeOK
  <2>3. WorkOK(status', exec', pc', native', sends', streams')
    BY <2>1 DEF IInv
  <2> QED BY <2>2, <2>3 DEF IInv, WorkOK
<1> QED BY <1>1, <1>2, <1>3, <1>4, <1>5, <1>6, <1>7, <1>8, <1>9 DEF Next

(* Every reachable state satisfies the inductive invariant.                    *)
THEOREM Invariance == Spec => []IInv
BY InitOK, NextOK, PTL DEF Spec

(* Type correctness: every record of the store, the handlers and the Engine    *)
(* has the values the code gives it.                                          *)
THEOREM TypeCorrect == Spec => []TypeOK
<1>1. IInv => TypeOK
  BY DEF IInv
<1> QED BY <1>1, Invariance, PTL

(* No native command is dispatched twice, neither by the drain beside a direct *)
(* submission nor after a lost receipt or a restart.                          *)
THEOREM SentOnce == Spec => []SentAtMostOnce
<1>1. IInv => SentAtMostOnce
  BY DEF IInv, SentAtMostOnce, WorkOK, InputOK, CompactOK, Work
<1> QED BY <1>1, Invariance, PTL

(* At most one Input lies between its dispatch and its confirmed outcome, and  *)
(* the Engine never runs two Inputs of the Session at once.                   *)
THEOREM SerialTurns == Spec => []OneTurnAtATime
<1>1. IInv => OneTurnAtATime
  <2> SUFFICES ASSUME IInv PROVE OneTurnAtATime
    OBVIOUS
  <2>1. \A i, j \in OpenTurns : i = j
    BY DEF IInv, WorkOK, OpenTurns, InFlight, Unknown, Open, Work
  <2>2. \A i, j \in Inputs : native[i] = "running" /\ native[j] = "running" => i = j
    BY DEF IInv, WorkOK, InputOK
  <2> QED BY <2>1, <2>2 DEF OneTurnAtATime
<1> QED BY <1>1, Invariance, PTL

(* What is reported as waiting, rejected or cancelled never reached the        *)
(* Engine, and what is reported as a failed compaction is not running there.  *)
THEOREM NoHiddenEffect == Spec => []UndispatchedHasNoEffect
<1>1. IInv => UndispatchedHasNoEffect
  BY DEF IInv, UndispatchedHasNoEffect, WorkOK, InputOK, CompactOK
<1> QED BY <1>1, Invariance, PTL

(* A confirmed outcome is the one the Engine had, and an Input agrees with its *)
(* Execution.                                                                 *)
THEOREM TrueOutcomes == Spec => []OutcomesAreNative
<1>1. IInv => OutcomesAreNative
  BY DEF IInv, OutcomesAreNative, WorkOK, InputOK
<1> QED BY <1>1, Invariance, PTL

-----------------------------------------------------------------------------
(***************************************************************************)
(* What single steps of TaskRuntime may do, and what a closed Task can     *)
(* still do, for every value of the constants.                             *)
(***************************************************************************)

(* The statuses under which a piece of work may have a native effect to come.  *)
Busy == Open \cup {"requested", "accepted"}

(* A status moves only if it is not final, and becomes busy only while the     *)
(* Task is active.                                                            *)
Progress(a, b) == a = b \/ (a \notin Final /\ (b \in Busy => a \in Busy \/ task = "active"))

Progresses(st, st2) == \A w \in Work : Progress(st[w], st2[w])

ExecKept == \A i \in Inputs : exec[i] \in TerminalExecution => exec'[i] = exec[i]

(* What is shown of every step.                                               *)
StepOK ==
    /\ Progresses(status, status') /\ ExecKept
    /\ sends' = sends \/ Admits
    /\ task' = task \/ FreezeTask \/ AbandonTask \/ CloseTask

(* A Task that was closed with a claimed outcome has no busy work.            *)
Settled == task = "completed" => \A w \in Work : status[w] \notin Busy

-----------------------------------------------------------------------------

LEMMA Transitive ==
    ASSUME NEW st, NEW st2, NEW st3, Progresses(st, st2), Progresses(st2, st3)
    PROVE  Progresses(st, st3)
BY DEF Progresses, Progress

LEMMA Reflexive == \A st : Progresses(st, st)
BY DEF Progresses, Progress

(* Changing one status is progress if that status may change so.              *)
LEMMA OneProgress ==
    ASSUME NEW st, StatusOK(st), NEW w \in Work, NEW s, Progress(st[w], s)
    PROVE  Progresses(st, [st EXCEPT ![w] = s])
BY DEF StatusOK, Progresses, Progress

LEMMA RejectProgress ==
    ASSUME NEW st
    PROVE  Progresses(st, RejectQueuedInputs(st)) /\ Progresses(st, StopQueue(st))
<1>1. "queued" \notin Final /\ "rejected" \notin Busy /\ "failed" \notin Busy
  BY DEF Final, Busy, Open, Dispatched
<1>2. Progresses(st, RejectQueuedInputs(st))
  BY <1>1 DEF Progresses, Progress, RejectQueuedInputs, QueuedInputs, Queued
<1>3. Progresses(st, StopQueue(st))
  BY <1>1 DEF Progresses, Progress, StopQueue, QueuedInputs, Queued
<1> QED BY <1>2, <1>3

(* The drain undoes nothing, and promotes only for an active Task.            *)
LEMMA DrainProgress ==
    ASSUME NEW st, NEW po, NEW k, NEW hold, StatusOK(st), Drain(st, po, k, hold)
    PROVE  Progresses(st, status')
<1>1. CASE DrainWaits(st, po, k, hold)
  BY <1>1, Reflexive DEF DrainWaits
<1>2. CASE DrainStops(st, po, k, hold)
  BY <1>2, RejectProgress DEF DrainStops
<1>3. ASSUME NEW c \in Compacts, DrainCompaction(c, st, po, k, hold)
      PROVE  Progresses(st, status')
  <2>1. st[c] = "queued" /\ task = "active" /\ c \in Work
    BY <1>3 DEF DrainCompaction, MayPromote, IsHead, Queued, Eligible, Work
  <2>2. Progress(st[c], "requested")
    BY <2>1 DEF Progress, Final
  <2> QED BY <1>3, <2>1, <2>2, OneProgress DEF DrainCompaction
<1>4. ASSUME NEW i \in Inputs, DrainInput(i, st, po, k, hold)
      PROVE  Progresses(st, status')
  <2>1. st[i] = "queued" /\ task = "active" /\ i \in Work
    BY <1>4 DEF DrainInput, MayPromote, IsHead, Queued, Eligible, Work
  <2>2. Progress(st[i], "received")
    BY <2>1 DEF Progress, Final
  <2> QED BY <1>4, <2>1, <2>2, OneProgress, Reflexive DEF DrainInput
<1> QED BY <1>1, <1>2, <1>3, <1>4 DEF Drain

(* A step that changes one status and then drains.                            *)
LEMMA DrainAfter ==
    ASSUME IInv, NEW w \in Work, NEW s, Progress(status[w], s),
           NEW po, NEW k, NEW hold, Drain([status EXCEPT ![w] = s], po, k, hold),
           s \in InputStatus \cup CompactStatus,
           w \in Inputs => s \in InputStatus, w \in Compacts => s \in CompactStatus
    PROVE  Progresses(status, status')
<1> DEFINE st == [status EXCEPT ![w] = s]
<1>1. StatusOK(status)
  BY DEF IInv, TypeOK, StatusOK
<1>2. StatusOK(st)
  BY <1>1 DEF StatusOK, Work
<1>3. Progresses(status, st)
  BY <1>1, OneProgress
<1>4. Progresses(st, status')
  BY <1>2, DrainProgress
<1> QED BY <1>3, <1>4, Transitive

-----------------------------------------------------------------------------
(* One lemma per kind of step.                                               *)

(* Steps that change no status.                                              *)
LEMMA QuietSteps ==
    ASSUME \/ \E i \in Inputs : RunStarted(i) \/ SendNowAsks(i)
           \/ \E i \in Inputs, b \in Inputs \cup {None} : MoveQueuedInput(i, b)
           \/ \E c \in Compacts : CompactAsk(c) \/ CompactAskFails(c)
           \/ SendNowFails \/ SendNowStops \/ SendNowRestores
           \/ CloseTask \/ RevokeAuthorization \/ RestoreTaskSession
           \/ \E w \in Work : NativeFinish(w)
    PROVE  StepOK
<1>1. UNCHANGED <<status, exec, sends>> /\ (task' = task \/ CloseTask)
  BY DEF RunStarted, SendNowAsks, MoveQueuedInput, CompactAsk, CompactAskFails, SendNowFails,
         SendNowStops, SendNowRestores, CloseTask, RevokeAuthorization, RestoreTaskSession,
         NativeFinish, hostVars, storeVars, engineVars
<1> QED BY <1>1, Reflexive DEF StepOK, ExecKept

(* A native command leaves.                                                   *)
LEMMA SendingSteps ==
    ASSUME (\E i \in Inputs : Dispatch(i)) \/ (\E c \in Compacts : CompactDispatch(c))
    PROVE  StepOK
<1>1. UNCHANGED <<status, exec, task>> /\ Admits
  BY DEF Dispatch, CompactDispatch, MayDispatchCompact, MayCompact, hostVars, storeVars
<1> QED BY <1>1, Reflexive DEF StepOK, ExecKept

(* Steps that only drain the queue.                                           *)
LEMMA DrainingSteps ==
    ASSUME IInv,
           \/ DrainAgain \/ ResumeQueuedInputs \/ SendNowMoves \/ SendNowTooLate
           \/ \E i \in Inputs : SendIdleNow(i)
    PROVE  StepOK
<1>1. UNCHANGED <<exec, sends, task>>
  BY DEF DrainAgain, ResumeQueuedInputs, SendNowMoves, SendNowTooLate, SendIdleNow, hostVars,
         engineVars
<1>2. \/ status' = status
      \/ \E po, hold : Drain(status, po, pc, hold)
  BY DEF DrainAgain, ResumeQueuedInputs, SendNowMoves, SendNowTooLate, SendIdleNow
<1>3. StatusOK(status)
  BY DEF IInv, TypeOK, StatusOK
<1>4. Progresses(status, status')
  BY <1>2, <1>3, Reflexive, DrainProgress
<1> QED BY <1>1, <1>4 DEF StepOK, ExecKept

(* Steps that change one status: a submission, a cancellation, an acceptance,  *)
(* or the outcome of a reconciliation.                                        *)
LEMMA SingleSteps ==
    ASSUME IInv,
           \/ \E i \in Inputs : \/ SubmitNow(i) \/ SubmitQueued(i) \/ CancelQueuedInput(i)
                               \/ ReconcileInput(i) \/ ReconcileExecution(i)
           \/ \E c \in Compacts : CompactRequested(c) \/ CompactAccepted(c)
    PROVE  StepOK
<1> USE DEF Final, Busy, Open, Dispatched
<1>1. StatusOK(status) /\ exec \in [Inputs -> ExecutionStatus]
  BY DEF IInv, TypeOK, StatusOK
<1>2. ASSUME NEW i \in Inputs,
             \/ SubmitNow(i) \/ SubmitQueued(i) \/ CancelQueuedInput(i)
             \/ ReconcileInput(i) \/ ReconcileExecution(i)
      PROVE  StepOK
  <2>1. UNCHANGED <<sends, task>>
    BY <1>2 DEF SubmitNow, SubmitQueued, CancelQueuedInput, ReconcileInput,
                ReconcileExecution, hostVars, engineVars
  <2>2. PICK s : /\ status' = [status EXCEPT ![i] = s]
                 /\ status[i] \in {"none", "queued", "unknown"}
                 /\ s \in Busy => status[i] = "unknown" \/ task = "active"
    <3>1. CASE SubmitNow(i) \/ SubmitQueued(i)
      <4>1. \/ status' = [status EXCEPT ![i] = "received"]
            \/ status' = [status EXCEPT ![i] = "queued"]
        BY <3>1 DEF SubmitNow, SubmitQueued
      <4>2. status[i] = "none" /\ task = "active"
        BY <3>1 DEF SubmitNow, SubmitQueued, Admits
      <4> QED BY <4>1, <4>2
    <3>2. CASE CancelQueuedInput(i)
      <4>1. status' = [status EXCEPT ![i] = "cancelled"] /\ status[i] = "queued"
        BY <3>2 DEF CancelQueuedInput
      <4>2. "cancelled" \notin Busy
        OBVIOUS
      <4> QED BY <4>1, <4>2
    <3>3. CASE ReconcileInput(i) \/ ReconcileExecution(i)
      BY <3>3 DEF ReconcileInput, ReconcileExecution
    <3> QED BY <1>2, <3>1, <3>2, <3>3
  <2>3. Progresses(status, status')
    BY <1>1, <2>2, OneProgress DEF Work, Progress
  <2>4. ExecKept
    BY <1>1, <1>2 DEF SubmitNow, SubmitQueued, CancelQueuedInput, ReconcileInput,
                      ReconcileExecution, ExecKept, TerminalExecution
  <2> QED BY <2>1, <2>3, <2>4 DEF StepOK
<1>3. ASSUME NEW c \in Compacts, CompactRequested(c) \/ CompactAccepted(c)
      PROVE  StepOK
  <2>1. UNCHANGED <<exec, sends, task>>
    BY <1>3 DEF CompactRequested, CompactAccepted, hostVars, engineVars
  <2>2. pc[c] = "ask" => status[c] = "none"
    BY DEF IInv, WorkOK, CompactOK
  <2>3. PICK s : /\ status' = [status EXCEPT ![c] = s]
                 /\ status[c] \in {"none", "requested"}
                 /\ s \in Busy => status[c] = "requested" \/ task = "active"
    <3>1. CASE CompactRequested(c)
      BY <2>2, <3>1 DEF CompactRequested, MayCompact, Admits
    <3>2. CASE CompactAccepted(c)
      BY <3>2 DEF CompactAccepted
    <3> QED BY <1>3, <3>1, <3>2
  <2>4. Progresses(status, status')
    BY <1>1, <2>3, OneProgress DEF Work, Progress
  <2> QED BY <2>1, <2>4 DEF StepOK, ExecKept
<1> QED BY <1>2, <1>3

(* The dispatch of an Input fails.                                            *)
LEMMA FailingSteps ==
    ASSUME IInv, NEW i \in Inputs,
           DispatchRefused(i) \/ RunRefused(i) \/ RunUncertain(i) \/ DrainSettles(i)
    PROVE  StepOK
<1>1. UNCHANGED <<exec, sends, task>>
  BY DEF DispatchRefused, RunRefused, RunUncertain, DrainSettles, hostVars, engineVars
<1>2. Progresses(status, status')
  <2>1. CASE DrainSettles(i)
    BY <2>1, RejectProgress DEF DrainSettles
  <2>2. ASSUME NEW s \in {"rejected", "unknown"}, SubmitFails(i, s),
               pc[i] \in {"probe", "run"}
        PROVE  Progresses(status, status')
    <3>1. StatusOK(status) /\ i \in Work
      BY DEF IInv, TypeOK, StatusOK, Work
    <3>2. status[i] = "received"
      BY <2>2 DEF IInv, WorkOK, InputOK
    <3>3. Progress(status[i], s)
      BY <3>2 DEF Progress, Final, Busy, Open, Dispatched
    <3>4. Progresses(status, [status EXCEPT ![i] = s])
      BY <3>1, <3>3, OneProgress
    <3> DEFINE k == [pc EXCEPT ![i] = IF draining = i THEN "settle" ELSE "idle"]
    <3>5. \/ Drain([status EXCEPT ![i] = s], position, k, paused)
          \/ status' = RejectQueuedInputs([status EXCEPT ![i] = s])
      BY <2>2 DEF SubmitFails
    <3>6. StatusOK([status EXCEPT ![i] = s])
      BY <3>1, ConstantAssumption DEF StatusOK, InputStatus, Work, ConstantAssumption
    <3>7. Progresses([status EXCEPT ![i] = s], status')
      BY <3>5, <3>6, DrainProgress, RejectProgress
    <3> QED BY <3>4, <3>7, Transitive
  <2> QED BY <2>1, <2>2 DEF DispatchRefused, RunRefused, RunUncertain
<1> QED BY <1>1, <1>2 DEF StepOK, ExecKept

(* The events of a stream, and its end.                                       *)
LEMMA StreamSteps ==
    ASSUME IInv, NEW i \in Inputs, StreamStep(i)
    PROVE  StepOK
<1>1. UNCHANGED <<sends, task>>
  BY DEF StreamStep, EventAccepted, EventStarted, EventTerminal, EventUnknown, StreamEnds,
         StreamFails, hostVars, engineVars
<1>2. /\ StatusOK(status) /\ i \in Work
      /\ exec \in [Inputs -> ExecutionStatus]
  BY DEF IInv, TypeOK, StatusOK, Work
<1>3. /\ InputOK(status[i], exec[i], pc[i], native[i], sends[i], i \in streams)
      /\ status[i] \in InputStatus /\ exec[i] \in ExecutionStatus
  BY <1>2 DEF IInv, WorkOK, StatusOK
<1>4. i \in streams
  BY DEF StreamStep, EventAccepted, EventStarted, EventTerminal, EventUnknown, StreamEnds,
         StreamFails
<1>5. ExecKept
  BY <1>2 DEF StreamStep, EventAccepted, EventStarted, EventTerminal, EventUnknown, StreamEnds,
              StreamFails, UnknownExec, LiveExecutions, ExecKept, TerminalExecution
<1>6. CASE EventAccepted(i) \/ EventStarted(i)
  <2>1. status[i] \in Open
    BY <1>3, <1>4, <1>6 DEF EventAccepted, EventStarted, InputOK, Open, Dispatched,
                            TerminalExecution
  <2>2. \/ status' = [status EXCEPT ![i] = "native-accepted"]
        \/ status' = [status EXCEPT ![i] = "started"]
    BY <1>6 DEF EventAccepted, EventStarted
  <2>3. \A s : Progress(status[i], s)
    BY <2>1 DEF Progress, Final, Busy, Open, Dispatched
  <2>4. Progresses(status, status')
    BY <1>2, <2>2, <2>3, OneProgress
  <2> QED BY <1>1, <1>5, <2>4 DEF StepOK
<1>7. CASE EventTerminal(i)
  <2>1. status[i] \in Open
    BY <1>3, <1>7 DEF EventTerminal, LiveExecutions, InputOK, Open, Dispatched,
                      TerminalExecution
  <2>2. Progress(status[i], native[i])
    BY <2>1 DEF Progress, Final, Busy, Open, Dispatched
  <2>3. native[i] \in InputStatus
    BY <1>7 DEF EventTerminal, InputStatus
  <2>4. i \notin Compacts
    BY ConstantAssumption DEF ConstantAssumption
  <2>5. Drain([status EXCEPT ![i] = native[i]], position, pc, paused)
    BY <1>7 DEF EventTerminal
  <2>6. Progresses(status, status')
    BY <1>2, <2>2, <2>3, <2>4, <2>5, DrainAfter
  <2> QED BY <1>1, <1>5, <2>6 DEF StepOK
<1>8. Progresses(status, UnknownStatus(i))
  <2>1. status[i] \in Open \cup Final
    BY <1>3, <1>4 DEF InputOK, InputStatus, ExecutionStatus, Open, Final, Dispatched,
                      TerminalExecution
  <2> DEFINE s == IF status[i] \in {"completed", "failed", "stopped", "rejected", "cancelled"}
                  THEN status[i] ELSE "unknown"
  <2>2. Progress(status[i], s)
    BY <2>1 DEF Progress, Final, Busy
  <2>3. UnknownStatus(i) = [status EXCEPT ![i] = s]
    BY DEF UnknownStatus
  <2> HIDE DEF s
  <2>4. Progresses(status, [status EXCEPT ![i] = s])
    BY <1>2, <2>2, OneProgress
  <2> QED BY <2>3, <2>4, Zenon
<1>9. CASE EventUnknown(i) \/ StreamEnds(i) \/ StreamFails(i)
  <2>1. \/ status' = status
        \/ status' = UnknownStatus(i)
        \/ status' = RejectQueuedInputs(UnknownStatus(i))
    BY <1>9 DEF EventUnknown, StreamEnds, StreamFails
  <2>2. Progresses(status, status')
    BY <1>8, <2>1, Reflexive, RejectProgress, Transitive
  <2> QED BY <1>1, <1>5, <2>2 DEF StepOK
<1> QED BY <1>6, <1>7, <1>9 DEF StreamStep

(* A compaction joins the queue or ends, and the queue is drained.            *)
LEMMA CompactEndSteps ==
    ASSUME IInv, NEW c \in Compacts,
           CompactQueued(c) \/ CompactRefused(c) \/ CompactIncapable(c) \/ CompactReceipt(c)
    PROVE  StepOK
<1>1. UNCHANGED <<exec, sends, task>>
  BY DEF CompactQueued, CompactRefused, CompactIncapable, CompactReceipt, CompactEnds, hostVars,
         engineVars
<1>2. c \in Work /\ c \notin Inputs
  BY ConstantAssumption DEF ConstantAssumption, Work
<1>3. CompactOK(status[c], pc[c], native[c], sends[c])
  BY DEF IInv, WorkOK
<1>4. CASE CompactQueued(c)
  <2>1. PICK p \in Positions :
          Drain([status EXCEPT ![c] = "queued"], [position EXCEPT ![c] = p],
                [pc EXCEPT ![c] = "idle"], paused)
    BY <1>4 DEF CompactQueued
  <2>2. status[c] = "none"
    BY <1>3, <1>4 DEF CompactQueued, CompactOK
  <2>3. Progress(status[c], "queued")
    BY <2>2 DEF Progress, Final, Busy, Open, Dispatched
  <2>4. "queued" \in CompactStatus
    BY DEF CompactStatus
  <2>5. Progresses(status, status')
    BY <1>2, <2>1, <2>3, <2>4, DrainAfter
  <2> QED BY <1>1, <2>5 DEF StepOK, ExecKept
<1>5. ASSUME NEW s \in {"completed", "failed", "unknown"}, CompactEnds(c, s),
             status[c] \in {"requested", "accepted"}
      PROVE  StepOK
  <2>1. Drain([status EXCEPT ![c] = s], [position EXCEPT ![c] = NoPosition],
              [pc EXCEPT ![c] = "idle"], paused)
    BY <1>5 DEF CompactEnds
  <2>2. Progress(status[c], s)
    BY <1>5 DEF Progress, Final, Busy
  <2>3. s \in CompactStatus
    BY <1>5 DEF CompactStatus
  <2>4. Progresses(status, status')
    BY <1>2, <2>1, <2>2, <2>3, DrainAfter
  <2> QED BY <1>1, <2>4 DEF StepOK, ExecKept
<1>6. CASE CompactRefused(c) \/ CompactIncapable(c) \/ CompactReceipt(c)
  <2>1. status[c] \in {"requested", "accepted"}
    BY <1>3, <1>6 DEF CompactRefused, CompactIncapable, CompactReceipt, CompactOK
  <2>2. \/ CompactEnds(c, "failed") \/ CompactEnds(c, "unknown")
        \/ native[c] \in {"completed", "failed"} /\ CompactEnds(c, native[c])
    BY <1>3, <1>6 DEF CompactRefused, CompactIncapable, CompactReceipt, CompactOK,
                      TerminalExecution
  <2> QED BY <1>5, <2>1, <2>2
<1> QED BY <1>4, <1>6

(* The Task stops, or the Host restarts.                                      *)
LEMMA HostSteps ==
    ASSUME FreezeTask \/ AbandonTask \/ Restart, IInv
    PROVE  StepOK
<1>1. CASE FreezeTask \/ AbandonTask
  BY <1>1, RejectProgress DEF FreezeTask, AbandonTask, StepOK, ExecKept, engineVars
<1>2. CASE Restart
  <2>1. \A w \in Work : status'[w] = status[w]
                        \/ (status[w] \in Dispatched \cup {"requested", "accepted"})
    BY <1>2 DEF Restart, InFlight, NativeCompacts
  <2>2. Progresses(status, status')
    BY <2>1 DEF Progresses, Progress, Final, Busy, Open, Dispatched
  <2>3. ExecKept
    BY <1>2 DEF Restart, ExecKept, LiveExecutions, TerminalExecution
  <2>4. UNCHANGED <<sends, task>>
    BY <1>2 DEF Restart, engineVars
  <2> QED BY <2>2, <2>3, <2>4 DEF StepOK
<1> QED BY <1>1, <1>2

-----------------------------------------------------------------------------

LEMMA EveryStep == IInv /\ [Next]_vars => StepOK
<1> SUFFICES ASSUME IInv, [Next]_vars PROVE StepOK
  OBVIOUS
<1>1. CASE HostCall
  BY <1>1, QuietSteps, SingleSteps, DrainingSteps, HostSteps DEF HostCall
<1>2. ASSUME NEW i \in Inputs, InputStep(i) PROVE StepOK
  BY <1>2, SendingSteps, QuietSteps, FailingSteps DEF InputStep
<1>3. ASSUME NEW i \in Inputs, StreamStep(i) PROVE StepOK
  BY <1>3, StreamSteps
<1>4. ASSUME NEW c \in Compacts, CompactStep(c) PROVE StepOK
  BY <1>4, QuietSteps, SingleSteps, SendingSteps, CompactEndSteps DEF CompactStep
<1>5. CASE DrainAgain \/ SendNowStep
  BY <1>5, DrainingSteps, QuietSteps DEF SendNowStep
<1>6. ASSUME NEW w \in Work, NativeFinish(w) PROVE StepOK
  BY <1>6, QuietSteps
<1>7. CASE Restart
  BY <1>7, HostSteps
<1>8. CASE UNCHANGED vars
  BY <1>8, Reflexive DEF vars, hostVars, storeVars, engineVars, StepOK, ExecKept
<1> QED BY <1>1, <1>2, <1>3, <1>4, <1>5, <1>6, <1>7, <1>8 DEF Next

(* A confirmed outcome, a rejection or a cancellation is never undone, by no   *)
(* event, reconciliation or restart.                                          *)
THEOREM FinalKept == Spec => FinalIsFinal
<1>1. IInv /\ [Next]_vars =>
        [/\ \A w \in Work : status[w] \in Final => status'[w] = status[w]
         /\ \A i \in Inputs : exec[i] \in TerminalExecution => exec'[i] = exec[i]]_vars
  BY EveryStep DEF StepOK, Progresses, Progress, ExecKept
<1> QED BY <1>1, Invariance, PTL DEF Spec, FinalIsFinal

(* However long a handler was suspended, its native command leaves only for an *)
(* active Task with an attached Session and a current grant.                  *)
THEOREM QualifiedSends == Spec => SendsAreQualified
<1>1. IInv /\ [Next]_vars => [\A w \in Work : Sent(w) => Admits]_vars
  BY EveryStep DEF StepOK, Sent
<1> QED BY <1>1, Invariance, PTL DEF Spec, SendsAreQualified

LEMMA SettledStep == IInv /\ Settled /\ [Next]_vars => Settled'
<1> SUFFICES ASSUME IInv, Settled, [Next]_vars PROVE Settled'
  OBVIOUS
<1>1. StepOK
  BY EveryStep
<1>2. CASE task' = task
  <2> SUFFICES ASSUME task' = "completed", NEW w \in Work PROVE status'[w] \notin Busy
    BY DEF Settled
  <2> QED BY <1>1, <1>2 DEF StepOK, Progresses, Progress, Settled
<1>3. CASE FreezeTask \/ AbandonTask
  BY <1>3 DEF FreezeTask, AbandonTask, Settled
<1>4. CASE CloseTask
  <2>1. status' = status
    BY <1>4 DEF CloseTask, storeVars
  <2>2. \A w \in Work : status[w] \notin Busy
    <3>1. /\ \A i \in Inputs : status[i] \in InputStatus
          /\ \A i \in Inputs : status[i] \notin Open
          /\ \A c \in Compacts : status[c] \in CompactStatus
          /\ \A c \in Compacts : status[c] \notin {"queued", "requested", "accepted", "unknown"}
      BY <1>4 DEF IInv, TypeOK, CloseTask, InFlight, Unknown, ActiveCompacts, Open, Work
    <3> QED BY <3>1 DEF Busy, Open, Dispatched, InputStatus, CompactStatus, TerminalExecution,
                        Work
  <2> QED BY <2>1, <2>2 DEF Settled
<1> QED BY <1>1, <1>2, <1>3, <1>4 DEF StepOK

(* A Task closed with a claimed outcome has nothing left that could still act  *)
(* natively.                                                                  *)
THEOREM ClosedSettled == Spec => []ClosedTaskIsSettled
<1>1. Init => Settled
  BY DEF Init, Settled
<1>2. Spec => []Settled
  BY <1>1, Invariance, SettledStep, PTL DEF Spec
<1>3. IInv /\ Settled => ClosedTaskIsSettled
  <2> SUFFICES ASSUME IInv, Settled, task = "completed", NEW w \in Work
               PROVE  native[w] # "running" /\ pc[w] \notin {"probe", "probeBusy", "run"}
    BY DEF ClosedTaskIsSettled
  <2>1. status[w] \notin Busy
    BY DEF Settled
  <2>2. CASE w \in Inputs
    BY <2>1, <2>2 DEF IInv, WorkOK, InputOK, Busy, Open, Dispatched
  <2>3. CASE w \in Compacts
    <3>1. CompactOK(status[w], pc[w], native[w], sends[w]) /\ status[w] \in CompactStatus
      BY <2>3 DEF IInv, TypeOK, WorkOK
    <3> QED BY <2>1, <3>1 DEF CompactOK, CompactStatus, Busy, Open, Dispatched
  <2> QED BY <2>2, <2>3 DEF Work
<1> QED BY <1>2, <1>3, Invariance, PTL

-----------------------------------------------------------------------------
(***************************************************************************)
(* The order of the queue, for every value of the constants: positions are *)
(* distinct, and no native command is dispatched out of turn.              *)
(***************************************************************************)

Unresolved == {"requested", "accepted", "unknown"}

(* Work that waits has a position of its own; there is one active compaction   *)
(* at most; one in native hands that has a position is ahead of the queue; and *)
(* no Input is about to be dispatched beside an unresolved compaction.        *)
LineOK(st, po) ==
    /\ \A w \in Work : st[w] = "queued" => po[w] # NoPosition
    /\ \A v, w \in Work : st[v] = "queued" /\ st[w] = "queued" /\ v # w => po[v] # po[w]
    /\ \A c, d \in Compacts :
         st[c] \in Unresolved \cup {"queued"} /\ st[d] \in Unresolved \cup {"queued"} => c = d
    /\ \A c \in Compacts, w \in Work :
         st[c] \in {"requested", "accepted"} /\ po[c] # NoPosition /\ st[w] = "queued" =>
           po[c] < po[w]
    /\ \A i \in Inputs, c \in Compacts : st[i] = "received" => st[c] \notin Unresolved

PositionOK(po) == po \in [Work -> Positions \cup {NoPosition}]

(* The inductive invariant of the queue, beside IInv.                         *)
QInv == LineOK(status, position)

-----------------------------------------------------------------------------

(* Work that leaves the queue, and compactions that end, disturb nobody.      *)
LEMMA LineShrinks ==
    ASSUME NEW st, NEW po, NEW st2, NEW po2, LineOK(st, po),
           \A w \in Work : st2[w] = "queued" => st[w] = "queued" /\ po2[w] = po[w],
           \A c \in Compacts : st2[c] \in {"requested", "accepted"} =>
             st[c] \in {"requested", "accepted"} /\ po2[c] \in {po[c], NoPosition},
           \A c \in Compacts : st2[c] = "unknown" => st[c] \in Unresolved,
           \A i \in Inputs : st2[i] = "received" =>
             st[i] = "received" \/ \A c \in Compacts : st[c] \notin Unresolved
    PROVE  LineOK(st2, po2)
<1>1. \A c \in Compacts : c \in Work
  BY DEF Work
<1>2. \A c \in Compacts : st2[c] \in Unresolved => st[c] \in Unresolved
  BY DEF Unresolved
<1>3. \A w \in Work : st2[w] = "queued" => po2[w] # NoPosition
  BY DEF LineOK
<1>4. \A v, w \in Work : st2[v] = "queued" /\ st2[w] = "queued" /\ v # w => po2[v] # po2[w]
  BY DEF LineOK
<1>5. \A c, d \in Compacts :
        st2[c] \in Unresolved \cup {"queued"} /\ st2[d] \in Unresolved \cup {"queued"} => c = d
  BY <1>1, <1>2 DEF LineOK
<1>6. \A c \in Compacts, w \in Work :
        st2[c] \in {"requested", "accepted"} /\ po2[c] # NoPosition /\ st2[w] = "queued" =>
          po2[c] < po2[w]
  BY <1>1 DEF LineOK
<1>7. \A i \in Inputs, c \in Compacts : st2[i] = "received" => st2[c] \notin Unresolved
  BY <1>2 DEF LineOK
<1> QED BY <1>3, <1>4, <1>5, <1>6, <1>7 DEF LineOK

LEMMA RejectLine ==
    ASSUME NEW st, NEW po, StatusOK(st), LineOK(st, po)
    PROVE  /\ LineOK(RejectQueuedInputs(st), po)
           /\ LineOK(StopQueue(st), StopQueuePositions(st, po))
           /\ LineOK(StopQueue(st), po)
<1>1. \A w \in Work : RejectQueuedInputs(st)[w] = st[w] \/ RejectQueuedInputs(st)[w] = "rejected"
  BY DEF RejectQueuedInputs
<1>2. LineOK(RejectQueuedInputs(st), po)
  BY <1>1, LineShrinks DEF Work, Unresolved
<1>3. \A w \in Work : StopQueue(st)[w] \in {st[w], "rejected", "failed"}
                      /\ StopQueue(st)[w] # "queued"
  BY DEF StopQueue, QueuedInputs, Queued
<1>4. \A w \in Work : st[w] # "queued" => StopQueuePositions(st, po)[w] = po[w]
  BY DEF StopQueuePositions, Queued
<1>5. LineOK(StopQueue(st), StopQueuePositions(st, po))
  BY <1>3, <1>4, LineShrinks DEF Work, Unresolved
<1>6. LineOK(StopQueue(st), po)
  BY <1>3, LineShrinks DEF Work, Unresolved
<1> QED BY <1>2, <1>5, <1>6

(* Work is promoted only when nothing is open.                                *)
LEMMA PromotesAlone ==
    ASSUME NEW st, NEW po, NEW hold, NEW w \in Work,
           StatusOK(st), PositionOK(po), LineOK(st, po), MayPromote(w, st, po, hold)
    PROVE  \A v \in Work : st[v] \notin Busy
<1>1. /\ st[w] = "queued"
      /\ \A v \in Work : st[v] # "unknown"
      /\ \A i \in Inputs : st[i] \notin Dispatched
  BY DEF MayPromote, IsHead, Queued, Unknown, InFlight
<1>2. \A c \in Compacts : st[c] \notin {"requested", "accepted"}
  <2> SUFFICES ASSUME NEW c \in Compacts, st[c] \in {"requested", "accepted"}
               PROVE  c \in Barrier(w, st, po)
    BY DEF MayPromote
  <2>1. po[c] = NoPosition \/ po[c] < po[w]
    BY <1>1 DEF LineOK
  <2>2. po[c] \in Int /\ po[w] \in Int
    BY ConstantAssumption DEF PositionOK, Positions, NoPosition, ConstantAssumption, Work
  <2>3. po[c] = NoPosition \/ po[c] <= po[w]
    BY <2>1, <2>2
  <2> QED BY <2>3 DEF Barrier, NativeCompacts
<1> QED BY <1>1, <1>2 DEF StatusOK, Busy, Open, Dispatched, InputStatus, CompactStatus, Work,
                          TerminalExecution

(* The drain keeps the line in order.                                         *)
LEMMA DrainLine ==
    ASSUME NEW st, NEW po, NEW k, NEW hold,
           StatusOK(st), PositionOK(po), LineOK(st, po), Drain(st, po, k, hold)
    PROVE  LineOK(status', position')
<1>1. CASE DrainWaits(st, po, k, hold)
  BY <1>1 DEF DrainWaits
<1>2. CASE DrainStops(st, po, k, hold)
  BY <1>2, RejectLine DEF DrainStops
<1>3. ASSUME NEW c \in Compacts, DrainCompaction(c, st, po, k, hold)
      PROVE  LineOK(status', position')
  <2>1. /\ c \in Work /\ st[c] = "queued"
        /\ \A w \in Work : st[w] = "queued" => po[c] <= po[w]
        /\ status' = [st EXCEPT ![c] = "requested"] /\ position' = po
    BY <1>3 DEF DrainCompaction, MayPromote, IsHead, Queued, Work
  <2>2. \A v \in Work : st[v] \notin Busy
    BY <1>3, <2>1, PromotesAlone DEF DrainCompaction
  <2>3. \A w \in Work : status'[w] = IF w = c THEN "requested" ELSE st[w]
    BY <2>1 DEF StatusOK
  <2>4. \A w \in Work : st[w] = "queued" /\ w # c => po[c] < po[w]
    <3> SUFFICES ASSUME NEW w \in Work, st[w] = "queued", w # c PROVE po[c] < po[w]
      OBVIOUS
    <3>1. po[c] \in Int /\ po[w] \in Int
      BY <2>1, ConstantAssumption DEF PositionOK, Positions, NoPosition, ConstantAssumption
    <3>2. po[c] # po[w] /\ po[c] <= po[w]
      BY <2>1 DEF LineOK
    <3> QED BY <3>1, <3>2
  <2>5. \A w \in Work : st[w] \notin {"requested", "accepted", "unknown", "received"}
    BY <2>2 DEF Busy, Open, Dispatched
  <2>6. \A w \in Work : status'[w] = "queued" => st[w] = "queued" /\ w # c
    BY <2>3
  <2>7. \A d \in Compacts : /\ d \in Work
                            /\ status'[d] \in {"requested", "accepted"} => d = c
                            /\ status'[d] \in Unresolved \cup {"queued"} =>
                                 st[d] \in Unresolved \cup {"queued"}
    BY <2>1, <2>3, <2>5 DEF Work, Unresolved
  <2>8. \A i \in Inputs : i \in Work /\ i # c
    BY ConstantAssumption DEF Work, ConstantAssumption
  <2>9. \A i \in Inputs : status'[i] # "received"
    BY <2>3, <2>5, <2>8
  <2>10. \A d \in Compacts, w \in Work :
           status'[d] \in {"requested", "accepted"} /\ po[d] # NoPosition
             /\ status'[w] = "queued" => po[d] < po[w]
    BY <2>4, <2>6, <2>7
  <2>11. \A d, f \in Compacts : status'[d] \in Unresolved \cup {"queued"}
                                /\ status'[f] \in Unresolved \cup {"queued"} => d = f
    BY <2>7 DEF LineOK
  <2>12. \A v, w \in Work : status'[v] = "queued" /\ status'[w] = "queued" /\ v # w =>
                              po[v] # po[w]
    BY <2>6 DEF LineOK
  <2>13. \A w \in Work : status'[w] = "queued" => po[w] # NoPosition
    BY <2>6 DEF LineOK
  <2> QED BY <2>1, <2>9, <2>10, <2>11, <2>12, <2>13 DEF LineOK
<1>4. ASSUME NEW i \in Inputs, DrainInput(i, st, po, k, hold)
      PROVE  LineOK(status', position')
  <2>1. /\ i \in Work /\ i \notin Compacts
    BY ConstantAssumption DEF Work, ConstantAssumption
  <2>2. \A v \in Work : st[v] \notin Busy
    BY <1>4, <2>1, PromotesAlone DEF DrainInput
  <2>3. \A c \in Compacts : st[c] \notin Unresolved
    BY <2>2 DEF Busy, Open, Unresolved, Work
  <2>4. CASE /\ status' = [st EXCEPT ![i] = "received"]
             /\ position' = [po EXCEPT ![i] = NoPosition]
    <3>1. \A w \in Work : w # i => status'[w] = st[w] /\ position'[w] = po[w]
      BY <2>4 DEF StatusOK, PositionOK
    <3>2. status'[i] = "received"
      BY <2>1, <2>4 DEF StatusOK
    <3>3. \A w \in Work : status'[w] = "queued" => st[w] = "queued" /\ position'[w] = po[w]
      BY <3>1, <3>2
    <3>4. \A c \in Compacts : status'[c] = st[c] /\ position'[c] = po[c]
      BY <2>1, <3>1 DEF Work
    <3> QED BY <2>3, <3>3, <3>4, LineShrinks DEF Unresolved
  <2>5. CASE status' = st /\ position' = po
    BY <2>5
  <2> QED BY <1>4, <2>4, <2>5 DEF DrainInput
<1> QED BY <1>1, <1>2, <1>3, <1>4 DEF Drain

(* A new member of the queue comes last.                                      *)
LEMMA AppendLine ==
    ASSUME NEW st, NEW po, NEW w \in Work, NEW p \in Positions,
           StatusOK(st), PositionOK(po), LineOK(st, po),
           IsNextPosition(p, st, po), st[w] # "queued",
           w \in Compacts => \A c \in Compacts : st[c] \notin Unresolved \cup {"queued"}
    PROVE  LineOK([st EXCEPT ![w] = "queued"], [po EXCEPT ![w] = p])
<1> DEFINE s == [st EXCEPT ![w] = "queued"]
           o == [po EXCEPT ![w] = p]
<1>1. /\ \A v \in Work : s[v] = IF v = w THEN "queued" ELSE st[v]
      /\ \A v \in Work : o[v] = IF v = w THEN p ELSE po[v]
  BY DEF StatusOK, PositionOK
<1> HIDE DEF s, o
<1>2. p \in Nat /\ p # NoPosition
  BY ConstantAssumption DEF Positions, NoPosition, ConstantAssumption
<1>3. \A v \in Work : st[v] = "queued" => po[v] < p
  BY DEF IsNextPosition, TakenPositions, Queued
<1>4. \A c \in Compacts : st[c] \in {"requested", "accepted"} /\ po[c] # NoPosition => po[c] < p
  <2> SUFFICES ASSUME NEW c \in Compacts, st[c] \in {"requested", "accepted"},
                      po[c] # NoPosition
               PROVE  po[c] < p
    OBVIOUS
  <2>1. c \in ActiveCompacts(st)
    BY DEF ActiveCompacts
  <2>2. po[c] \in TakenPositions(st, po)
    BY <2>1 DEF TakenPositions
  <2> QED BY <2>2 DEF IsNextPosition
<1>5. \A v \in Work : po[v] \in Int
  BY ConstantAssumption DEF PositionOK, Positions, NoPosition, ConstantAssumption
<1>6. \A c \in Compacts : c \in Work
  BY DEF Work
<1>7. \A v \in Work : s[v] = "queued" => o[v] # NoPosition
  BY <1>1, <1>2 DEF LineOK
<1>8. \A u, v \in Work : s[u] = "queued" /\ s[v] = "queued" /\ u # v => o[u] # o[v]
  <2> SUFFICES ASSUME NEW u \in Work, NEW v \in Work, s[u] = "queued", s[v] = "queued", u # v
               PROVE  o[u] # o[v]
    OBVIOUS
  <2>1. CASE u = w
    BY <1>1, <1>2, <1>3, <1>5, <2>1
  <2>2. CASE v = w
    BY <1>1, <1>2, <1>3, <1>5, <2>2
  <2>3. CASE u # w /\ v # w
    BY <1>1, <2>3 DEF LineOK
  <2> QED BY <2>1, <2>2, <2>3
<1>9. \A c, d \in Compacts :
        s[c] \in Unresolved \cup {"queued"} /\ s[d] \in Unresolved \cup {"queued"} => c = d
  BY <1>1, <1>6 DEF LineOK
<1>10. \A c \in Compacts, v \in Work :
        s[c] \in {"requested", "accepted"} /\ o[c] # NoPosition /\ s[v] = "queued" =>
          o[c] < o[v]
  <2> SUFFICES ASSUME NEW c \in Compacts, NEW v \in Work, s[c] \in {"requested", "accepted"},
                      o[c] # NoPosition, s[v] = "queued"
               PROVE  o[c] < o[v]
    OBVIOUS
  <2>1. c # w /\ st[c] \in {"requested", "accepted"} /\ o[c] = po[c]
    BY <1>1, <1>6
  <2>2. CASE v = w
    BY <1>1, <1>4, <2>1, <2>2
  <2>3. CASE v # w
    BY <1>1, <2>1, <2>3 DEF LineOK
  <2> QED BY <2>2, <2>3
<1>11. \A i \in Inputs, c \in Compacts : s[i] = "received" => s[c] \notin Unresolved
  <2>1. \A i \in Inputs : i \in Work
    BY DEF Work
  <2> QED BY <1>1, <1>6, <2>1 DEF LineOK, Unresolved
<1> QED BY <1>7, <1>8, <1>9, <1>10, <1>11 DEF LineOK, s, o

(* Reordering renumbers the queued Inputs without ties; there is no queued     *)
(* compaction to collide with.                                                *)
LEMMA ReorderLine ==
    ASSUME NEW i \in Inputs, NEW b, b \in QueuedInputs(status) \cup {None, i},
           IInv, QInv, MayReorder(i), NEW po \in Reordered(i, b)
    PROVE  LineOK(status, po)
<1>1. CASE b = i
  BY <1>1 DEF Reordered, QInv
<1>2. CASE b # i
  <2> DEFINE Q == QueuedInputs(status)
  <2>1. PICK new \in [Q -> Positions] :
          /\ IsReorder(new, i, b)
          /\ po = [w \in Work |-> IF w \in Q THEN new[w] ELSE position[w]]
    BY <1>2 DEF Reordered
  <2>2. \A w \in Work : status[w] = "queued" => w \in Q
    BY DEF MayReorder, ActiveCompacts, QInv, LineOK, QueuedInputs, Queued, Work
  <2>3. \A j \in Q : j \in Work /\ status[j] = "queued" /\ position[j] \in Int
    BY ConstantAssumption DEF QueuedInputs, Queued, IInv, TypeOK, Positions, NoPosition,
                              ConstantAssumption
  <2>4. \A j \in Q : po[j] = new[j] /\ new[j] \in Nat /\ new[j] # NoPosition
    BY <2>1, <2>3, ConstantAssumption DEF Positions, NoPosition, ConstantAssumption
  <2>5. \A j, l \in Q : j # l => position[j] # position[l]
    BY <2>3 DEF QInv, LineOK
  <2>6. \A j, l \in Q : j # l => new[j] # new[l]
    <3> SUFFICES ASSUME NEW j \in Q, NEW l \in Q, j # l PROVE new[j] # new[l]
      OBVIOUS
    <3>1. b # None => b \in Q
      BY <1>2
    <3>2. new[j] < new[l] \/ new[l] < new[j]
      BY <2>1, <2>3, <2>5, <3>1 DEF IsReorder
    <3> QED BY <2>4, <3>2
  <2>7. \A c \in Compacts : status[c] \in {"requested", "accepted"} => po[c] = NoPosition
    BY <2>1 DEF MayReorder, ActiveCompacts, QueuedInputs, Queued, Work
  <2> QED BY <2>2, <2>4, <2>6, <2>7 DEF LineOK, QInv
<1> QED BY <1>1, <1>2

LEMMA MoveLine ==
    ASSUME NEW i \in Inputs, IInv, QInv, MayReorder(i)
    PROVE  \A po \in MovedToFront(i) : LineOK(status, po) /\ PositionOK(po)
<1> SUFFICES ASSUME NEW po \in MovedToFront(i) PROVE LineOK(status, po) /\ PositionOK(po)
  OBVIOUS
<1>1. PICK b \in QueuedInputs(status) : po \in Reordered(i, b)
  BY DEF MovedToFront
<1>2. LineOK(status, po)
  BY <1>1, ReorderLine
<1>3. position \in [Work -> Positions \cup {NoPosition}]
  BY DEF IInv, TypeOK
<1> QED BY <1>2, <1>3, MoveTypes DEF PositionOK

-----------------------------------------------------------------------------

LEMMA Typed == IInv => StatusOK(status) /\ PositionOK(position)
BY DEF IInv, TypeOK, StatusOK, PositionOK

(* A piece of work that ends, or whose result becomes unknown or is heard of.  *)
LEMMA EndLine ==
    ASSUME NEW st, NEW po, NEW w \in Work, NEW s,
           StatusOK(st), PositionOK(po), LineOK(st, po),
           s \notin {"queued", "received", "requested"},
           s = "unknown" => w \in Inputs \/ st[w] \in Unresolved,
           s = "accepted" => st[w] = "requested"
    PROVE  /\ LineOK([st EXCEPT ![w] = s], po)
           /\ LineOK([st EXCEPT ![w] = s], [po EXCEPT ![w] = NoPosition])
<1> DEFINE s2 == [st EXCEPT ![w] = s]
           p2 == [po EXCEPT ![w] = NoPosition]
<1>1. /\ \A v \in Work : s2[v] = IF v = w THEN s ELSE st[v]
      /\ \A v \in Work : p2[v] = IF v = w THEN NoPosition ELSE po[v]
  BY DEF StatusOK, PositionOK
<1> HIDE DEF s2, p2
<1>2. \A v \in Work : s2[v] = "queued" => st[v] = "queued" /\ v # w
  BY <1>1
<1>3. /\ \A c \in Compacts : c \in Work /\ c \notin Inputs
      /\ \A i \in Inputs : i \in Work
  BY ConstantAssumption DEF Work, ConstantAssumption
<1>4. \A c \in Compacts : s2[c] \in {"requested", "accepted"} =>
        st[c] \in {"requested", "accepted"}
  BY <1>1, <1>3
<1>5. \A c \in Compacts : s2[c] = "unknown" => st[c] \in Unresolved
  BY <1>1, <1>3 DEF Unresolved
<1>6. \A i \in Inputs : s2[i] = "received" => st[i] = "received"
  BY <1>1, <1>3
<1>7. LineOK(s2, po)
  BY <1>2, <1>4, <1>5, <1>6, LineShrinks
<1>8. /\ \A v \in Work : s2[v] = "queued" => st[v] = "queued" /\ p2[v] = po[v]
      /\ \A c \in Compacts : p2[c] \in {po[c], NoPosition}
  BY <1>1, <1>2, <1>3
<1>9. LineOK(s2, p2)
  BY <1>4, <1>5, <1>6, <1>8, LineShrinks
<1> QED BY <1>7, <1>9 DEF s2, p2

(* The same followed by a drain.                                              *)
LEMMA EndDrainLine ==
    ASSUME IInv, QInv, NEW w \in Work, NEW s, NEW k, NEW hold,
           NEW po \in {position, [position EXCEPT ![w] = NoPosition]},
           Drain([status EXCEPT ![w] = s], po, k, hold),
           w \in Inputs => s \in InputStatus, w \in Compacts => s \in CompactStatus,
           s \notin {"queued", "received", "requested", "accepted"},
           s = "unknown" => w \in Inputs \/ status[w] \in Unresolved
    PROVE  QInv'
<1> DEFINE st == [status EXCEPT ![w] = s]
<1>1. StatusOK(status) /\ PositionOK(position)
  BY Typed
<1>2. LineOK(st, po)
  <2>1. /\ LineOK(st, position)
        /\ LineOK(st, [position EXCEPT ![w] = NoPosition])
    BY <1>1, EndLine DEF QInv
  <2> QED BY <2>1
<1>3. StatusOK(st)
  BY <1>1 DEF StatusOK, Work
<1>4. PositionOK(po)
  BY <1>1 DEF PositionOK
<1> HIDE DEF st
<1>5. Drain(st, po, k, hold)
  BY DEF st
<1> QED BY <1>2, <1>3, <1>4, <1>5, DrainLine DEF QInv

-----------------------------------------------------------------------------
(* One lemma per kind of step.                                               *)

(* Steps that leave the queue alone.                                          *)
LEMMA StillLine ==
    ASSUME QInv,
           \/ \E i \in Inputs : Dispatch(i) \/ RunStarted(i) \/ SendNowAsks(i)
           \/ \E c \in Compacts : CompactAsk(c) \/ CompactAskFails(c) \/ CompactDispatch(c)
           \/ SendNowFails \/ SendNowStops
           \/ CloseTask \/ RevokeAuthorization \/ RestoreTaskSession
           \/ \E w \in Work : NativeFinish(w)
           \/ UNCHANGED vars
    PROVE  QInv'
<1>1. UNCHANGED <<status, position>>
  BY DEF Dispatch, RunStarted, SendNowAsks, CompactAsk, CompactAskFails, CompactDispatch,
         SendNowFails, SendNowStops, CloseTask, RevokeAuthorization, RestoreTaskSession,
         NativeFinish, storeVars, vars
<1> QED BY <1>1 DEF QInv

(* Steps that reorder the queue, drain it, or both.                           *)
LEMMA DrainingLine ==
    ASSUME IInv, QInv,
           \/ DrainAgain \/ ResumeQueuedInputs \/ SendNowMoves \/ SendNowTooLate
           \/ SendNowRestores
           \/ \E i \in Inputs : SendIdleNow(i)
           \/ \E i \in Inputs, b \in Inputs \cup {None} : MoveQueuedInput(i, b)
    PROVE  QInv'
<1>1. StatusOK(status) /\ PositionOK(position) /\ LineOK(status, position)
  BY Typed DEF QInv
<1>2. urgent # None => urgent.input \in Inputs
  BY DEF IInv, TypeOK
<1>3. CASE DrainAgain \/ ResumeQueuedInputs \/ SendNowTooLate
  BY <1>1, <1>3, DrainLine DEF DrainAgain, ResumeQueuedInputs, SendNowTooLate, QInv
<1>4. ASSUME NEW i \in Inputs, SendIdleNow(i) PROVE QInv'
  <2>1. PICK po \in MovedToFront(i) : Drain(status, po, pc, paused)
    BY <1>4 DEF SendIdleNow
  <2>2. LineOK(status, po) /\ PositionOK(po)
    BY <1>4, <2>1, MoveLine DEF SendIdleNow
  <2> QED BY <1>1, <2>1, <2>2, DrainLine DEF QInv
<1>5. CASE SendNowMoves
  <2>1. urgent.input \in Inputs /\ MayReorder(urgent.input)
    BY <1>2, <1>5 DEF SendNowMoves
  <2>2. PICK po \in MovedToFront(urgent.input) :
          \/ Drain(status, po, pc, paused)
          \/ position' = po /\ status' = status
    BY <1>5 DEF SendNowMoves
  <2>3. LineOK(status, po) /\ PositionOK(po)
    BY <2>1, <2>2, MoveLine
  <2> QED BY <1>1, <2>2, <2>3, DrainLine DEF QInv
<1>6. CASE SendNowRestores
  <2>1. CASE status' = status /\ position' = position
    BY <2>1 DEF QInv
  <2>2. CASE /\ status' = status /\ position' \in MovedBack(urgent)
             /\ QueueAsMoved(urgent) /\ MayReorder(urgent.input)
    <3>1. PICK b \in DOMAIN urgent.was \cup {None} : position' \in Reordered(urgent.input, b)
      BY <2>2 DEF MovedBack
    <3>2. DOMAIN urgent.was = QueuedInputs(status)
      BY <2>2 DEF QueueAsMoved
    <3>3. LineOK(status, position')
      BY <1>2, <1>6, <2>2, <3>1, <3>2, ReorderLine DEF SendNowRestores
    <3> QED BY <2>2, <3>3 DEF QInv
  <2> QED BY <1>6, <2>1, <2>2 DEF SendNowRestores
<1>7. ASSUME NEW i \in Inputs, NEW b \in Inputs \cup {None}, MoveQueuedInput(i, b)
      PROVE  QInv'
  <2>1. LineOK(status, position')
    BY <1>7, ReorderLine DEF MoveQueuedInput
  <2> QED BY <1>7, <2>1 DEF MoveQueuedInput, QInv
<1> QED BY <1>3, <1>4, <1>5, <1>6, <1>7

(* Submissions.                                                              *)
LEMMA SubmitLine ==
    ASSUME IInv, QInv, NEW i \in Inputs, SubmitNow(i) \/ SubmitQueued(i)
    PROVE  QInv'
<1>1. /\ StatusOK(status) /\ PositionOK(position) /\ LineOK(status, position)
      /\ i \in Work /\ i \notin Compacts
  BY Typed, ConstantAssumption DEF QInv, Work, ConstantAssumption
<1>2. CASE SubmitNow(i)
  <2>1. /\ \A w \in Work : status'[w] = IF w = i THEN "received" ELSE status[w]
        /\ position' = position
    BY <1>1, <1>2 DEF SubmitNow, StatusOK
  <2>2. \A c \in Compacts : /\ status[c] \notin Unresolved /\ c \in Work /\ c # i
    BY <1>1, <1>2 DEF SubmitNow, ActiveCompacts, Unresolved, Work
  <2>3. LineOK(status', position')
    BY <1>1, <2>1, <2>2, LineShrinks DEF Unresolved
  <2> QED BY <2>3 DEF QInv
<1>3. CASE SubmitQueued(i)
  <2>1. PICK p \in Positions : /\ IsNextPosition(p, status, position)
                              /\ position' = [position EXCEPT ![i] = p]
    BY <1>3 DEF SubmitQueued
  <2>2. status' = [status EXCEPT ![i] = "queued"] /\ status[i] = "none"
    BY <1>3 DEF SubmitQueued
  <2> QED BY <1>1, <2>1, <2>2, AppendLine DEF QInv
<1> QED BY <1>2, <1>3

(* The dispatch of an Input fails.                                            *)
LEMMA FailLine ==
    ASSUME IInv, QInv, NEW i \in Inputs,
           DispatchRefused(i) \/ RunRefused(i) \/ RunUncertain(i) \/ DrainSettles(i)
    PROVE  QInv'
<1>1. /\ StatusOK(status) /\ PositionOK(position) /\ LineOK(status, position)
      /\ i \in Work /\ i \notin Compacts
  BY Typed, ConstantAssumption DEF QInv, Work, ConstantAssumption
<1>2. CASE DrainSettles(i)
  BY <1>1, <1>2, RejectLine DEF DrainSettles, QInv
<1>3. ASSUME NEW s \in {"rejected", "unknown"}, SubmitFails(i, s) PROVE QInv'
  <2> DEFINE st == [status EXCEPT ![i] = s]
             k == [pc EXCEPT ![i] = IF draining = i THEN "settle" ELSE "idle"]
  <2>1. s \in InputStatus
    BY <1>3 DEF InputStatus
  <2>2. CASE Drain(st, position, k, paused)
    BY <1>1, <2>1, <2>2, EndDrainLine
  <2>3. CASE status' = RejectQueuedInputs(st) /\ position' = position
    <3>1. LineOK(st, position)
      BY <1>1, EndLine
    <3>2. StatusOK(st)
      BY <1>1, <2>1 DEF StatusOK, Work
    <3> QED BY <2>3, <3>1, <3>2, RejectLine DEF QInv
  <2> QED BY <1>3, <2>2, <2>3 DEF SubmitFails
<1> QED BY <1>2, <1>3 DEF DispatchRefused, RunRefused, RunUncertain

(* The events of a stream, and its end.                                       *)
LEMMA StreamLine ==
    ASSUME IInv, QInv, NEW i \in Inputs, StreamStep(i)
    PROVE  QInv'
<1>1. /\ StatusOK(status) /\ PositionOK(position) /\ LineOK(status, position)
      /\ i \in Work /\ i \notin Compacts
  BY Typed, ConstantAssumption DEF QInv, Work, ConstantAssumption
<1>2. CASE EventAccepted(i) \/ EventStarted(i)
  <2>1. PICK s \in {"native-accepted", "started"} : status' = [status EXCEPT ![i] = s]
    BY <1>2 DEF EventAccepted, EventStarted
  <2>2. position' = position
    BY <1>2 DEF EventAccepted, EventStarted
  <2>3. LineOK([status EXCEPT ![i] = s], position)
    BY <1>1, EndLine
  <2> QED BY <2>1, <2>2, <2>3 DEF QInv
<1>3. CASE EventTerminal(i)
  <2>1. Drain([status EXCEPT ![i] = native[i]], position, pc, paused)
    BY <1>3 DEF EventTerminal
  <2>2. native[i] \in TerminalExecution
    BY <1>3 DEF EventTerminal
  <2>3. native[i] \in InputStatus
    BY <2>2 DEF InputStatus
  <2> QED BY <1>1, <2>1, <2>2, <2>3, EndDrainLine DEF TerminalExecution
<1>4. StatusOK(UnknownStatus(i)) /\ LineOK(UnknownStatus(i), position)
  <2> DEFINE s == IF status[i] \in {"completed", "failed", "stopped", "rejected", "cancelled"}
                  THEN status[i] ELSE "unknown"
  <2>1. UnknownStatus(i) = [status EXCEPT ![i] = s]
    BY DEF UnknownStatus
  <2>2. s \in InputStatus /\ s \in {"completed", "failed", "stopped", "rejected", "cancelled",
                                   "unknown"}
    BY DEF InputStatus, TerminalExecution
  <2> HIDE DEF s
  <2>3. StatusOK([status EXCEPT ![i] = s])
    BY <1>1, <2>2 DEF StatusOK, Work
  <2>4. LineOK([status EXCEPT ![i] = s], position)
    BY <1>1, <2>2, EndLine
  <2> QED BY <2>1, <2>3, <2>4
<1>5. CASE EventUnknown(i) \/ StreamEnds(i) \/ StreamFails(i)
  <2>1. /\ position' = position
        /\ \/ status' = status
           \/ status' = UnknownStatus(i)
           \/ status' = RejectQueuedInputs(UnknownStatus(i))
    BY <1>5 DEF EventUnknown, StreamEnds, StreamFails
  <2> QED BY <1>1, <1>4, <2>1, RejectLine DEF QInv
<1> QED BY <1>2, <1>3, <1>5 DEF StreamStep

(* Compactions join the queue, are requested, and end.                        *)
LEMMA CompactLine ==
    ASSUME IInv, QInv, NEW c \in Compacts,
           \/ CompactQueued(c) \/ CompactRequested(c) \/ CompactAccepted(c)
           \/ CompactRefused(c) \/ CompactIncapable(c) \/ CompactReceipt(c)
    PROVE  QInv'
<1>1. /\ StatusOK(status) /\ PositionOK(position) /\ LineOK(status, position)
      /\ c \in Work /\ c \notin Inputs
  BY Typed, ConstantAssumption DEF QInv, Work, ConstantAssumption
<1>2. CompactOK(status[c], pc[c], native[c], sends[c])
  BY DEF IInv, WorkOK
<1>3. pc[c] = "ask" /\ MayCompact(c) =>
        /\ status[c] = "none"
        /\ \A d \in Compacts : status[d] \notin Unresolved \cup {"queued"}
  BY <1>2 DEF CompactOK, MayCompact, ActiveCompacts, Unresolved
<1>4. CASE CompactQueued(c)
  <2>1. PICK p \in Positions :
          /\ IsNextPosition(p, status, position)
          /\ Drain([status EXCEPT ![c] = "queued"], [position EXCEPT ![c] = p],
                   [pc EXCEPT ![c] = "idle"], paused)
    BY <1>4 DEF CompactQueued
  <2>2. status[c] = "none" /\ \A d \in Compacts : status[d] \notin Unresolved \cup {"queued"}
    BY <1>3, <1>4 DEF CompactQueued
  <2>3. LineOK([status EXCEPT ![c] = "queued"], [position EXCEPT ![c] = p])
    BY <1>1, <2>1, <2>2, AppendLine
  <2>4. StatusOK([status EXCEPT ![c] = "queued"])
    BY <1>1 DEF StatusOK, CompactStatus, Work
  <2>5. PositionOK([position EXCEPT ![c] = p])
    BY <1>1 DEF PositionOK
  <2> QED BY <2>1, <2>3, <2>4, <2>5, DrainLine DEF QInv
<1>5. CASE CompactRequested(c)
  <2>1. /\ status[c] = "none"
        /\ \A d \in Compacts : status[d] \notin Unresolved \cup {"queued"}
        /\ \A i \in Inputs : status[i] \notin {"queued", "received"}
    BY <1>3, <1>5 DEF CompactRequested, QueuedInputs, Queued, Work
  <2>2. \A w \in Work : status'[w] = IF w = c THEN "requested" ELSE status[w]
    BY <1>1, <1>5 DEF CompactRequested, StatusOK
  <2>3. \A w \in Work : status'[w] # "queued"
    BY <2>1, <2>2 DEF Work
  <2>4. \A d \in Compacts : status'[d] \in Unresolved \cup {"queued"} => d = c
    BY <2>1, <2>2 DEF Work
  <2>5. \A i \in Inputs : status'[i] # "received"
    BY <1>1, <2>1, <2>2 DEF Work
  <2> QED BY <2>3, <2>4, <2>5 DEF QInv, LineOK
<1>6. CASE CompactAccepted(c)
  <2>1. /\ status[c] = "requested" /\ position' = position
        /\ status' = [status EXCEPT ![c] = "accepted"]
    BY <1>6 DEF CompactAccepted
  <2> QED BY <1>1, <2>1, EndLine DEF QInv
<1>7. ASSUME NEW s \in {"completed", "failed", "unknown"}, CompactEnds(c, s),
             status[c] \in {"requested", "accepted"}
      PROVE  QInv'
  <2>1. Drain([status EXCEPT ![c] = s], [position EXCEPT ![c] = NoPosition],
              [pc EXCEPT ![c] = "idle"], paused)
    BY <1>7 DEF CompactEnds
  <2>2. s \in CompactStatus
    BY DEF CompactStatus
  <2>3. s \notin {"queued", "received", "requested", "accepted"} /\ status[c] \in Unresolved
    BY <1>7 DEF Unresolved
  <2> QED BY <1>1, <2>1, <2>2, <2>3, EndDrainLine
<1>8. CASE CompactRefused(c) \/ CompactIncapable(c) \/ CompactReceipt(c)
  <2>1. status[c] \in {"requested", "accepted"}
    BY <1>2, <1>8 DEF CompactRefused, CompactIncapable, CompactReceipt, CompactOK
  <2>2. \/ CompactEnds(c, "failed") \/ CompactEnds(c, "unknown")
        \/ native[c] \in {"completed", "failed"} /\ CompactEnds(c, native[c])
    BY <1>2, <1>8 DEF CompactRefused, CompactIncapable, CompactReceipt, CompactOK,
                      TerminalExecution
  <2> QED BY <1>7, <2>1, <2>2
<1> QED BY <1>4, <1>5, <1>6, <1>8

(* Cancellations, reconciliations, the end of the Task and a restart.          *)
LEMMA HostLine ==
    ASSUME IInv, QInv,
           \/ \E i \in Inputs : CancelQueuedInput(i) \/ ReconcileInput(i) \/ ReconcileExecution(i)
           \/ FreezeTask \/ AbandonTask \/ Restart
    PROVE  QInv'
<1>1. StatusOK(status) /\ PositionOK(position) /\ LineOK(status, position)
  BY Typed DEF QInv
<1>2. ASSUME NEW i \in Inputs,
             CancelQueuedInput(i) \/ ReconcileInput(i) \/ ReconcileExecution(i)
      PROVE  QInv'
  <2>1. PICK s \in TerminalExecution \cup {"cancelled"} : status' = [status EXCEPT ![i] = s]
    BY <1>2 DEF CancelQueuedInput, ReconcileInput, ReconcileExecution
  <2>2. position' = position
    BY <1>2 DEF CancelQueuedInput, ReconcileInput, ReconcileExecution
  <2>3. s \notin {"queued", "received", "requested", "accepted", "unknown"}
    BY DEF TerminalExecution
  <2>4. LineOK([status EXCEPT ![i] = s], position)
    BY <1>1, <2>3, EndLine DEF Work
  <2> QED BY <2>1, <2>2, <2>4 DEF QInv
<1>3. CASE FreezeTask \/ AbandonTask
  BY <1>1, <1>3, RejectLine DEF FreezeTask, AbandonTask, QInv
<1>4. CASE Restart
  <2>1. /\ \A w \in Work : status'[w] = IF w \in InFlight(status) \cup NativeCompacts(status)
                                        THEN "unknown" ELSE status[w]
        /\ \A w \in Work : position'[w] = IF w \in NativeCompacts(status)
                                          THEN NoPosition ELSE position[w]
    BY <1>4 DEF Restart
  <2>2. /\ \A w \in Work : status'[w] = "queued" => status[w] = "queued"
        /\ \A w \in Work : status[w] = "queued" => w \notin NativeCompacts(status)
    BY <2>1 DEF NativeCompacts
  <2>3. \A w \in Work : status'[w] = "queued" => status[w] = "queued" /\ position'[w] = position[w]
    BY <2>1, <2>2
  <2>4. \A d \in Compacts : d \in Work /\ d \notin InFlight(status)
    BY ConstantAssumption DEF Work, InFlight, ConstantAssumption
  <2>5. \A d \in Compacts : status'[d] \notin {"requested", "accepted"}
    BY <2>1, <2>4 DEF NativeCompacts
  <2>6. \A d \in Compacts : status'[d] = "unknown" => status[d] \in Unresolved
    BY <2>1, <2>4 DEF NativeCompacts, Unresolved
  <2>7. \A i \in Inputs : status'[i] = "received" => status[i] = "received"
    BY <2>1 DEF Work
  <2>8. LineOK(status', position')
    BY <1>1, <2>3, <2>5, <2>6, <2>7, LineShrinks
  <2> QED BY <2>8 DEF QInv
<1> QED BY <1>2, <1>3, <1>4

-----------------------------------------------------------------------------

LEMMA LineStep == IInv /\ QInv /\ [Next]_vars => QInv'
<1> SUFFICES ASSUME IInv, QInv, [Next]_vars PROVE QInv'
  OBVIOUS
<1>1. CASE HostCall
  BY <1>1, SubmitLine, HostLine, DrainingLine, StillLine DEF HostCall
<1>2. ASSUME NEW i \in Inputs, InputStep(i) PROVE QInv'
  BY <1>2, StillLine, FailLine DEF InputStep
<1>3. ASSUME NEW c \in Compacts, CompactStep(c) PROVE QInv'
  BY <1>3, StillLine, CompactLine DEF CompactStep
<1>4. CASE DrainAgain \/ SendNowStep
  BY <1>4, DrainingLine, StillLine DEF SendNowStep
<1> QED BY <1>1, <1>2, <1>3, <1>4, StreamLine, StillLine, HostLine DEF Next

LEMMA InitLine == Init => QInv
<1> SUFFICES ASSUME Init PROVE QInv
  OBVIOUS
<1>1. \A w \in Work : status[w] = "none"
  BY DEF Init
<1> QED BY <1>1 DEF QInv, LineOK, Unresolved, Work

THEOREM QueueInvariance == Spec => [](IInv /\ QInv)
<1>1. Spec => []QInv
  BY InitLine, LineStep, Invariance, PTL DEF Spec
<1> QED BY <1>1, Invariance, PTL

(* No two pieces of work that wait share a queue position, whatever mixture of *)
(* queueing, reordering, promotion and restart assigned them.                 *)
THEOREM PositionsDistinct == Spec => []QueuePositionsDistinct
<1>1. QInv => QueuePositionsDistinct
  BY DEF QInv, LineOK, QueuePositionsDistinct, Queued
<1> QED BY <1>1, QueueInvariance, PTL

(* Which command a step sends, and from where.                                *)
LEMMA SendingStep ==
    ASSUME IInv, [Next]_vars, NEW w \in Work, Sent(w)
    PROVE  \/ w \in Inputs /\ Dispatch(w)
           \/ w \in Compacts /\ CompactDispatch(w)
<1> SUFFICES ASSUME sends' # sends
             PROVE  \/ \E i \in Inputs : Dispatch(i) /\ (w # i => sends'[w] = sends[w])
                    \/ \E c \in Compacts : CompactDispatch(c) /\ (w # c => sends'[w] = sends[w])
  BY DEF Sent
<1>1. sends \in [Work -> Nat]
  BY DEF IInv, TypeOK
<1>2. \A i \in Inputs : Dispatch(i) => (w # i => sends'[w] = sends[w])
  BY <1>1 DEF Dispatch
<1>3. \A c \in Compacts : CompactDispatch(c) => (w # c => sends'[w] = sends[w])
  BY <1>1 DEF CompactDispatch
<1>4. (\E i \in Inputs : Dispatch(i)) \/ (\E c \in Compacts : CompactDispatch(c))
  <2>1. CASE HostCall
    BY <2>1 DEF HostCall, SubmitNow, SubmitQueued, CancelQueuedInput, SendIdleNow, SendNowAsks,
                MoveQueuedInput, ReconcileInput, ReconcileExecution, CompactAsk, FreezeTask,
                CloseTask, AbandonTask, RevokeAuthorization, RestoreTaskSession,
                ResumeQueuedInputs, engineVars
  <2>2. ASSUME NEW i \in Inputs, InputStep(i) \/ StreamStep(i)
        PROVE  \E j \in Inputs : Dispatch(j)
    BY <2>2 DEF InputStep, DispatchRefused, RunStarted, RunRefused, RunUncertain, DrainSettles,
                StreamStep, EventAccepted, EventStarted, EventTerminal, EventUnknown, StreamEnds,
                StreamFails, engineVars
  <2>3. ASSUME NEW c \in Compacts, CompactStep(c)
        PROVE  \E d \in Compacts : CompactDispatch(d)
    BY <2>3 DEF CompactStep, CompactAskFails, CompactQueued, CompactRequested, CompactRefused,
                CompactIncapable, CompactAccepted, CompactReceipt, CompactEnds, engineVars
  <2>4. CASE DrainAgain \/ SendNowStep
    BY <2>4 DEF DrainAgain, SendNowStep, SendNowMoves, SendNowFails, SendNowStops,
                SendNowTooLate, SendNowRestores, engineVars
  <2>5. ~(\E v \in Work : NativeFinish(v)) /\ ~Restart /\ ~UNCHANGED vars
    BY DEF NativeFinish, Restart, engineVars, vars
  <2> QED BY <2>1, <2>2, <2>3, <2>4, <2>5 DEF Next
<1> QED BY <1>2, <1>3, <1>4

(* An Input is dispatched only into a Session in which no other work is       *)
(* natively unresolved.                                                       *)
THEOREM SerialSends == Spec => SendsAreSerial
<1>1. IInv /\ QInv /\ [Next]_vars =>
        [\A i \in Inputs : Sent(i) =>
           /\ OpenTurns \subseteq {i}
           /\ NativeCompacts(status) \cup (Unknown(status) \cap Compacts) = {}]_vars
  <2> SUFFICES ASSUME IInv, QInv, [Next]_vars, NEW i \in Inputs, Sent(i)
               PROVE  /\ OpenTurns \subseteq {i}
                      /\ NativeCompacts(status) \cup (Unknown(status) \cap Compacts) = {}
    OBVIOUS
  <2>1. i \in Work /\ i \notin Compacts
    BY ConstantAssumption DEF Work, ConstantAssumption
  <2>2. pc[i] = "probe"
    BY <2>1, SendingStep DEF Dispatch
  <2>3. status[i] = "received"
    BY <2>2 DEF IInv, WorkOK, InputOK
  <2>4. OpenTurns \subseteq {i}
    BY <2>3 DEF IInv, WorkOK, OpenTurns, InFlight, Unknown, Open, Dispatched
  <2>5. \A c \in Compacts : status[c] \notin Unresolved
    BY <2>3 DEF QInv, LineOK
  <2> QED BY <2>4, <2>5 DEF NativeCompacts, Unknown, Unresolved
<1> QED BY <1>1, QueueInvariance, PTL DEF Spec, SendsAreSerial

(* A compaction reaches the Engine neither before an Input that was received   *)
(* or queued earlier, nor, promoted from the queue, beside a turn.            *)
THEOREM OrderedCompacts == Spec => CompactsKeepOrder
<1>1. IInv /\ QInv /\ [Next]_vars =>
        [\A c \in Compacts : Sent(c) =>
           /\ \A i \in Inputs : pc[i] # "probe"
           /\ pc[c] = "probe" => OpenTurns = {}
           /\ \A i \in QueuedInputs(status) :
                position[c] # NoPosition => position[c] < position[i]]_vars
  <2> SUFFICES ASSUME IInv, QInv, [Next]_vars, NEW c \in Compacts, Sent(c)
               PROVE  /\ \A i \in Inputs : pc[i] # "probe"
                      /\ pc[c] = "probe" => OpenTurns = {}
                      /\ \A i \in QueuedInputs(status) :
                           position[c] # NoPosition => position[c] < position[i]
    OBVIOUS
  <2>1. c \in Work /\ c \notin Inputs
    BY ConstantAssumption DEF Work, ConstantAssumption
  <2>2. MayDispatchCompact(c) /\ status[c] = "requested"
    BY <2>1, SendingStep DEF CompactDispatch, MayDispatchCompact
  <2>3. \A i \in Inputs : pc[i] # "probe"
    BY <2>2 DEF IInv, WorkOK, InputOK, QInv, LineOK, Unresolved
  <2>4. pc[c] = "probe" => OpenTurns = {}
    BY <2>2 DEF MayDispatchCompact, MayCompact, OpenTurns
  <2>5. \A i \in QueuedInputs(status) : position[c] # NoPosition => position[c] < position[i]
    BY <2>2 DEF QInv, LineOK, QueuedInputs, Queued
  <2> QED BY <2>3, <2>4, <2>5
<1> QED BY <1>1, QueueInvariance, PTL DEF Spec, CompactsKeepOrder

-----------------------------------------------------------------------------
(***************************************************************************)
(* The TaskRuntime implements the SerialSession, for every value of the    *)
(* constants: every step is a step of the abstract Session or a stutter.   *)
(***************************************************************************)

(* The second half of an abstract step, from the status st and positions po.   *)
ThenFrom(st, po) == Promise!Then(Queued(st), AheadOf(st, po), OpenWork(st), OverWork(st))

-----------------------------------------------------------------------------

(* Status sets in terms of single statuses.                                   *)
LEMMA Members ==
    ASSUME NEW st, NEW w \in Work
    PROVE  /\ w \in Queued(st) <=> st[w] = "queued"
           /\ w \in OpenWork(st) <=> st[w] \in Busy
           /\ w \in OverWork(st) <=> st[w] \in Final
BY DEF Queued, OpenWork, OverWork, Busy, Open

LEMMA InWork == \A st : Queued(st) \subseteq Work /\ OpenWork(st) \subseteq Work
                        /\ OverWork(st) \subseteq Work
BY DEF Queued, OpenWork, OverWork

(* Who leaves the line does not change the order of the others.               *)
LEMMA AheadWithin ==
    ASSUME NEW st, NEW po, NEW st2, NEW po2, Queued(st2) \subseteq Queued(st),
           \A w \in Queued(st2) : po2[w] = po[w]
    PROVE  AheadOf(st2, po2) = Promise!Within(AheadOf(st, po), Queued(st2))
<1> DEFINE Q == Queued(st)
           S == Queued(st2)
<1>1. AheadOf(st2, po2) = {p \in S \X S : po2[p[1]] < po2[p[2]]}
  BY DEF AheadOf
<1>2. Promise!Within(AheadOf(st, po), S) =
        {p \in {q \in Q \X Q : po[q[1]] < po[q[2]]} : p[1] \in S /\ p[2] \in S}
  BY DEF AheadOf, Promise!Within
<1>3. S \subseteq Q /\ \A w \in S : po2[w] = po[w]
  OBVIOUS
<1> HIDE DEF Q, S
<1>4. {p \in S \X S : po2[p[1]] < po2[p[2]]} =
        {p \in {q \in Q \X Q : po[q[1]] < po[q[2]]} : p[1] \in S /\ p[2] \in S}
  BY <1>3
<1> QED BY <1>1, <1>2, <1>4 DEF S

LEMMA SameAhead ==
    ASSUME NEW st, NEW po, NEW st2, NEW po2, Queued(st2) = Queued(st),
           \A w \in Queued(st) : po2[w] = po[w]
    PROVE  AheadOf(st2, po2) = AheadOf(st, po)
BY DEF AheadOf

-----------------------------------------------------------------------------

(* Giving the queue up is an abstract GiveUp.                                 *)
LEMMA RejectGivesUp ==
    ASSUME NEW st, NEW po, StatusOK(st),
           status' = RejectQueuedInputs(st), position' = po
    PROVE  ThenFrom(st, po)
<1> DEFINE kept == Queued(st) \ Inputs
<1>1. \A w \in Work : status'[w] = IF w \in Inputs /\ st[w] = "queued" THEN "rejected" ELSE st[w]
  BY DEF RejectQueuedInputs, QueuedInputs, Queued
<1>2. Queued(status') = kept
  BY <1>1 DEF Queued
<1>3. OpenWork(status') = OpenWork(st)
  BY <1>1, Members, InWork DEF Busy, Open, Dispatched
<1>4. OverWork(status') = OverWork(st) \cup (Queued(st) \ kept)
  BY <1>1, Members, InWork DEF Final
<1>5. AheadOf(status', position') = Promise!Within(AheadOf(st, po), kept)
  BY <1>2, AheadWithin
<1>6. kept \in {Queued(st) \ Inputs, {}}
  OBVIOUS
<1> HIDE DEF kept
<1> QED BY <1>2, <1>3, <1>4, <1>5, <1>6
        DEF ThenFrom, Promise!Then, Promise!GiveUp, Promise!Rest

LEMMA StopGivesUp ==
    ASSUME NEW st, NEW po, StatusOK(st), status' = StopQueue(st)
    PROVE  ThenFrom(st, po)
<1>1. \A w \in Work : status'[w] = IF st[w] # "queued" THEN st[w]
                                   ELSE IF w \in Inputs THEN "rejected" ELSE "failed"
  BY DEF StopQueue, QueuedInputs, Queued
<1>2. Queued(status') = {}
  BY <1>1 DEF Queued
<1>3. OpenWork(status') = OpenWork(st)
  BY <1>1, Members, InWork DEF Busy, Open, Dispatched
<1>4. OverWork(status') = OverWork(st) \cup (Queued(st) \ {})
  BY <1>1, Members, InWork DEF Final
<1>5. AheadOf(status', position') = Promise!Within(AheadOf(st, po), {})
  BY <1>2 DEF AheadOf, Promise!Within
<1>6. {} \in {Queued(st) \ Inputs, {}}
  OBVIOUS
<1> QED BY <1>2, <1>3, <1>4, <1>5, <1>6
        DEF ThenFrom, Promise!Then, Promise!GiveUp, Promise!Rest

(* A promotion is an abstract Take.                                           *)
LEMMA PromotionTakes ==
    ASSUME NEW st, NEW po, NEW hold, NEW w \in Work, NEW s \in {"received", "requested"},
           StatusOK(st), PositionOK(po), LineOK(st, po), MayPromote(w, st, po, hold),
           status' = [st EXCEPT ![w] = s],
           \A v \in Work \ {w} : position'[v] = po[v]
    PROVE  ThenFrom(st, po)
<1>1. /\ st[w] = "queued" /\ w \in Queued(st)
      /\ \A v \in Queued(st) : po[w] <= po[v]
  BY DEF MayPromote, IsHead, Queued
<1>2. \A v \in Work : st[v] \notin Busy
  BY PromotesAlone
<1>3. \A v \in Work : status'[v] = IF v = w THEN s ELSE st[v]
  BY DEF StatusOK
<1>4. OpenWork(st) = {}
  BY <1>2, Members, InWork
<1>5. \A v \in Queued(st) \ {w} : <<w, v>> \in AheadOf(st, po)
  <2> SUFFICES ASSUME NEW v \in Queued(st) \ {w} PROVE po[w] < po[v]
    BY <1>1 DEF AheadOf
  <2>1. v \in Work /\ st[v] = "queued"
    BY DEF Queued
  <2>2. po[w] # po[v]
    BY <1>1, <2>1 DEF LineOK
  <2>3. po[w] \in Int /\ po[v] \in Int
    BY <2>1, ConstantAssumption DEF PositionOK, Positions, NoPosition, ConstantAssumption
  <2> QED BY <1>1, <2>2, <2>3
<1>6. Queued(status') = Queued(st) \ {w}
  BY <1>3 DEF Queued
<1>7. OpenWork(status') = {w}
  <2>1. \A v \in Work : status'[v] \in Busy <=> v = w
    BY <1>2, <1>3 DEF Busy, Open, Dispatched
  <2>2. OpenWork(status') = {v \in Work : status'[v] \in Busy}
    BY DEF OpenWork, Busy, Open
  <2> QED BY <2>1, <2>2
<1>8. OverWork(status') = OverWork(st)
  <2>1. \A v \in Work : status'[v] \in Final <=> st[v] \in Final
    BY <1>1, <1>3 DEF Final
  <2> QED BY <2>1 DEF OverWork
<1>9. AheadOf(status', position') = Promise!Within(AheadOf(st, po), Queued(st) \ {w})
  <2>1. /\ Queued(status') \subseteq Queued(st)
        /\ \A v \in Queued(status') : position'[v] = po[v]
    BY <1>6, InWork
  <2>2. \A q, p : /\ Queued(q) \subseteq Queued(st)
                  /\ \A v \in Queued(q) : p[v] = po[v]
                  => AheadOf(q, p) = Promise!Within(AheadOf(st, po), Queued(q))
    BY AheadWithin
  <2>3. AheadOf(status', position') = Promise!Within(AheadOf(st, po), Queued(status'))
    BY <2>1, <2>2
  <2> QED BY <1>6, <2>3
<1> QED BY <1>1, <1>4, <1>5, <1>6, <1>7, <1>8, <1>9
        DEF ThenFrom, Promise!Then, Promise!Take, Promise!Rest

(* Whatever the drain does, it is the second half of an abstract step.         *)
LEMMA DrainThen ==
    ASSUME NEW st, NEW po, NEW k, NEW hold,
           StatusOK(st), PositionOK(po), LineOK(st, po), Drain(st, po, k, hold)
    PROVE  ThenFrom(st, po)
<1>1. (status' = st /\ position' = po) => ThenFrom(st, po)
  BY DEF ThenFrom, Promise!Then, Promise!Rest
<1>2. CASE DrainWaits(st, po, k, hold)
  BY <1>1, <1>2 DEF DrainWaits
<1>3. CASE DrainStops(st, po, k, hold)
  BY <1>3, StopGivesUp DEF DrainStops
<1>4. ASSUME NEW c \in Compacts, DrainCompaction(c, st, po, k, hold) PROVE ThenFrom(st, po)
  <2>1. /\ c \in Work /\ MayPromote(c, st, po, hold)
        /\ status' = [st EXCEPT ![c] = "requested"] /\ position' = po
    BY <1>4 DEF DrainCompaction, Work
  <2> QED BY <2>1, PromotionTakes
<1>5. ASSUME NEW i \in Inputs, DrainInput(i, st, po, k, hold) PROVE ThenFrom(st, po)
  <2>1. i \in Work /\ MayPromote(i, st, po, hold)
    BY <1>5 DEF DrainInput, Work
  <2>2. CASE /\ status' = [st EXCEPT ![i] = "received"]
             /\ position' = [po EXCEPT ![i] = NoPosition]
    <3>1. \A v \in Work \ {i} : position'[v] = po[v]
      BY <2>2 DEF PositionOK
    <3> QED BY <2>1, <2>2, <3>1, PromotionTakes
  <2>3. CASE status' = st /\ position' = po
    BY <1>1, <2>3
  <2> QED BY <1>5, <2>2, <2>3 DEF DrainInput
<1> QED BY <1>2, <1>3, <1>4, <1>5 DEF Drain

-----------------------------------------------------------------------------
(* First halves: what a change of one status is in the abstract Session.       *)

LEMMA ThenSteps == ThenFrom(status, position) => Promise!Next
BY DEF ThenFrom, Promise!Next

(* The status of open work changes and it stays open.                         *)
LEMMA StaySteps ==
    ASSUME NEW st, NEW po, NEW w \in Work, StatusOK(status),
           \A v \in Work \ {w} : st[v] = status[v] /\ po[v] = position[v],
           status[w] \in Busy, st[w] \in Busy, ThenFrom(st, po)
    PROVE  Promise!Next
<1>1. \A v \in Work : /\ st[v] = "queued" <=> status[v] = "queued"
                      /\ st[v] \in Busy <=> status[v] \in Busy
                      /\ st[v] \in Final <=> status[v] \in Final
                      /\ status[v] = "queued" => v # w
  BY DEF Busy, Open, Dispatched, Final
<1>2. Queued(st) = Queued(status) /\ OverWork(st) = OverWork(status)
  BY <1>1 DEF Queued, OverWork
<1>3. OpenWork(st) = OpenWork(status)
  <2>1. \A x : OpenWork(x) = {v \in Work : x[v] \in Busy}
    BY DEF OpenWork, Busy, Open
  <2> QED BY <1>1, <2>1
<1>4. AheadOf(st, po) = AheadOf(status, position)
  <2>1. \A v \in Queued(status) : po[v] = position[v]
    BY <1>1 DEF Queued
  <2> QED BY <1>2, <2>1, SameAhead
<1> QED BY <1>2, <1>3, <1>4, ThenSteps DEF ThenFrom

(* Open work is over.                                                        *)
LEMMA EndSteps ==
    ASSUME NEW st, NEW po, NEW w \in Work, StatusOK(status),
           \A v \in Work \ {w} : st[v] = status[v] /\ po[v] = position[v],
           status[w] \in Busy, st[w] \in Final, ThenFrom(st, po)
    PROVE  Promise!Next
<1>1. \A v \in Work : /\ st[v] = "queued" <=> status[v] = "queued"
                      /\ st[v] \in Busy <=> status[v] \in Busy /\ v # w
                      /\ st[v] \in Final <=> status[v] \in Final \/ v = w
                      /\ status[v] = "queued" => v # w
  BY DEF Busy, Open, Dispatched, Final
<1>2. Queued(st) = Queued(status) /\ OverWork(st) = OverWork(status) \cup {w}
  BY <1>1 DEF Queued, OverWork
<1>3. OpenWork(st) = OpenWork(status) \ {w} /\ w \in OpenWork(status)
  <2>1. \A x : OpenWork(x) = {v \in Work : x[v] \in Busy}
    BY DEF OpenWork, Busy, Open
  <2> QED BY <1>1, <2>1
<1>4. AheadOf(st, po) = AheadOf(status, position)
  <2>1. \A v \in Queued(status) : po[v] = position[v]
    BY <1>1 DEF Queued
  <2> QED BY <1>2, <2>1, SameAhead
<1>5. Promise!End(w)
  BY <1>2, <1>3, <1>4 DEF ThenFrom, Promise!End
<1> QED BY <1>5 DEF Promise!Next, Promise!AllWork, Work

LEMMA NewWork ==
    ASSUME NEW w \in Work, status[w] = "none"
    PROVE  w \in Promise!New
BY DEF Promise!New, Promise!AllWork, Work, Queued, OpenWork, OverWork, Dispatched, Final

(* New work joins the queue at the end.                                       *)
LEMMA EnterSteps ==
    ASSUME NEW w \in Work, NEW p \in Positions, IsNextPosition(p, status, position),
           status[w] = "none", StatusOK(status), PositionOK(position),
           ThenFrom([status EXCEPT ![w] = "queued"], [position EXCEPT ![w] = p])
    PROVE  Promise!Next
<1> DEFINE st == [status EXCEPT ![w] = "queued"]
           po == [position EXCEPT ![w] = p]
           Q == Queued(status)
<1>1. /\ \A v \in Work : st[v] = IF v = w THEN "queued" ELSE status[v]
      /\ \A v \in Work : po[v] = IF v = w THEN p ELSE position[v]
  BY DEF StatusOK, PositionOK
<1>2. ThenFrom(st, po)
  OBVIOUS
<1> HIDE DEF st, po
<1>3. Queued(st) = Q \cup {w} /\ w \notin Q
  BY <1>1 DEF Queued
<1>4. OverWork(st) = OverWork(status)
  BY <1>1 DEF OverWork, Final
<1>5. OpenWork(st) = OpenWork(status)
  BY <1>1 DEF OpenWork, Dispatched
<1>6. AheadOf(st, po) = AheadOf(status, position) \cup (Q \X {w})
  <2>1. p \in Int /\ \A v \in Work : position[v] \in Int
    BY ConstantAssumption DEF PositionOK, Positions, NoPosition, ConstantAssumption
  <2>2. \A v \in Q : v \in Work /\ position[v] < p /\ v # w
    BY <1>3 DEF IsNextPosition, TakenPositions, Queued
  <2>3. \A v \in Q : po[v] = position[v] /\ po[v] < po[w] /\ ~(po[w] < po[v])
    BY <1>1, <2>1, <2>2
  <2>4. ~(po[w] < po[w])
    BY <1>1, <2>1
  <2>5. AheadOf(st, po) = {q \in (Q \cup {w}) \X (Q \cup {w}) : po[q[1]] < po[q[2]]}
    BY <1>3 DEF AheadOf
  <2>6. AheadOf(status, position) = {q \in Q \X Q : position[q[1]] < position[q[2]]}
    BY DEF AheadOf
  <2> HIDE DEF Q
  <2> QED BY <2>3, <2>4, <2>5, <2>6
<1>7. Promise!Enter(w)
  BY <1>2, <1>3, <1>4, <1>5, <1>6, NewWork DEF ThenFrom, Promise!Enter
<1> QED BY <1>7 DEF Promise!Next, Promise!AllWork, Work

(* New work finds nobody waiting.                                             *)
LEMMA StartSteps ==
    ASSUME NEW w \in Work, NEW s \in {"received", "requested"},
           status[w] = "none", StatusOK(status),
           status' = [status EXCEPT ![w] = s],
           Queued(status) = {},
           OpenWork(status) \subseteq (IF w \in Inputs THEN {} ELSE Inputs)
    PROVE  Promise!Next
<1>1. \A v \in Work : status'[v] = IF v = w THEN s ELSE status[v]
  BY DEF StatusOK
<1>2. Queued(status') = {}
  BY <1>1 DEF Queued
<1>3. AheadOf(status', position') = AheadOf(status, position)
  BY <1>2 DEF AheadOf
<1>4. OpenWork(status') = OpenWork(status) \cup {w}
  BY <1>1 DEF OpenWork, Dispatched
<1>5. OverWork(status') = OverWork(status)
  BY <1>1 DEF OverWork, Final
<1>6. Promise!Start(w)
  BY <1>2, <1>3, <1>4, <1>5, NewWork DEF Promise!Start, Promise!Rest
<1> QED BY <1>6 DEF Promise!Next, Promise!AllWork, Work

(* One queued Input moves: the others keep their order.                       *)
LEMMA MoveSteps ==
    ASSUME NEW i \in Inputs, NEW b, b \in QueuedInputs(status) \cup {None, i},
           IInv, QInv, MayReorder(i), NEW po \in Reordered(i, b), ThenFrom(status, po)
    PROVE  Promise!Next
<1> DEFINE Q == Queued(status)
           r == AheadOf(status, po)
<1>1. LineOK(status, po) /\ PositionOK(po)
  BY ReorderLine, ReorderTypes DEF IInv, TypeOK, PositionOK
<1>2. i \in Q /\ Q \subseteq Inputs
  BY DEF MayReorder, ActiveCompacts, QInv, LineOK, Queued, Work
<1>3. \A j \in Q : /\ j \in Work /\ status[j] = "queued"
                   /\ po[j] \in Int /\ position[j] \in Int
  BY <1>1, Typed, ConstantAssumption DEF Queued, PositionOK, Positions, NoPosition,
                                         ConstantAssumption
<1>4. r \in SUBSET (Q \X Q)
  BY DEF AheadOf
<1>5. Promise!IsLine(r, Q)
  <2>1. \A v, w \in Q : <<v, w>> \in r <=> po[v] < po[w]
    BY DEF AheadOf
  <2>2. \A v, w \in Q : v # w => po[v] # po[w]
    BY <1>1, <1>3 DEF LineOK
  <2> HIDE DEF r, Q
  <2> QED BY <1>3, <1>4, <2>1, <2>2 DEF Promise!IsLine
<1>6. \A j, l \in Q \ {i} : po[j] < po[l] <=> position[j] < position[l]
  <2>1. CASE b = i
    BY <2>1 DEF Reordered
  <2>2. CASE b # i
    <3>1. QueuedInputs(status) = Q
      BY <1>2 DEF QueuedInputs
    <3>2. PICK new \in [Q -> Positions] :
            /\ IsReorder(new, i, b)
            /\ po = [w \in Work |-> IF w \in Q THEN new[w] ELSE position[w]]
      BY <2>2, <3>1 DEF Reordered
    <3>3. \A j, l \in Q \ {i} : j # l => (new[j] < new[l] <=> position[j] < position[l])
      BY <3>1, <3>2 DEF IsReorder
    <3>4. \A j \in Q : po[j] = new[j]
      BY <1>3, <3>2
    <3> QED BY <1>3, <3>3, <3>4
  <2> QED BY <2>1, <2>2
<1>7. Promise!Within(r, Q \ {i}) = Promise!Within(AheadOf(status, position), Q \ {i})
  <2>1. Promise!Within(r, Q \ {i}) =
          {p \in {q \in Q \X Q : po[q[1]] < po[q[2]]} : p[1] \in Q \ {i} /\ p[2] \in Q \ {i}}
    BY DEF Promise!Within, AheadOf
  <2>2. Promise!Within(AheadOf(status, position), Q \ {i}) =
          {p \in {q \in Q \X Q : position[q[1]] < position[q[2]]} :
             p[1] \in Q \ {i} /\ p[2] \in Q \ {i}}
    BY DEF Promise!Within, AheadOf
  <2> HIDE DEF Q, r
  <2> QED BY <1>6, <2>1, <2>2
<1>8. Promise!Move(i)
  BY <1>2, <1>4, <1>5, <1>7 DEF ThenFrom, Promise!Move
<1> QED BY <1>8 DEF Promise!Next

-----------------------------------------------------------------------------
(* One lemma per kind of step.                                               *)

LEMMA Line == IInv /\ QInv => /\ StatusOK(status) /\ PositionOK(position)
                              /\ LineOK(status, position)
BY Typed DEF QInv

(* The second half of a step that does not drain.                             *)
LEMMA RestThen == ASSUME NEW st, NEW po, status' = st, position' = po
                  PROVE  ThenFrom(st, po)
BY DEF ThenFrom, Promise!Then, Promise!Rest

(* A change of one status, with all that may follow it.                       *)
LEMMA ChangeThen ==
    ASSUME IInv, QInv, NEW w \in Work, NEW s, NEW k, NEW hold,
           NEW po \in {position, [position EXCEPT ![w] = NoPosition]},
           w \in Inputs => s \in InputStatus, w \in Compacts => s \in CompactStatus,
           s \notin {"queued", "received", "requested"},
           s = "unknown" => w \in Inputs \/ status[w] \in Unresolved,
           s = "accepted" => status[w] = "requested",
           \/ Drain([status EXCEPT ![w] = s], po, k, hold)
           \/ status' = RejectQueuedInputs([status EXCEPT ![w] = s]) /\ position' = po
           \/ status' = [status EXCEPT ![w] = s] /\ position' = po,
           status[w] \in Busy, s \in Busy \cup Final
    PROVE  Promise!Next
<1> DEFINE st == [status EXCEPT ![w] = s]
<1>1. StatusOK(status) /\ PositionOK(position) /\ LineOK(status, position)
  BY Line
<1>2. /\ StatusOK(st) /\ PositionOK(po)
  BY <1>1 DEF StatusOK, PositionOK, Work
<1>3. LineOK(st, po)
  <2>1. LineOK(st, position) /\ LineOK(st, [position EXCEPT ![w] = NoPosition])
    BY <1>1, EndLine
  <2> QED BY <2>1
<1>4. /\ \A v \in Work \ {w} : st[v] = status[v] /\ po[v] = position[v]
      /\ st[w] = s
  BY <1>1 DEF StatusOK, PositionOK
<1> HIDE DEF st
<1>5. ThenFrom(st, po)
  <2>1. CASE Drain(st, po, k, hold)
    BY <1>2, <1>3, <2>1, DrainThen
  <2>2. CASE status' = RejectQueuedInputs(st) /\ position' = po
    BY <1>2, <2>2, RejectGivesUp
  <2>3. CASE status' = st /\ position' = po
    BY <2>3, RestThen
  <2> QED BY <2>1, <2>2, <2>3 DEF st
<1>6. CASE s \in Busy
  BY <1>1, <1>4, <1>5, <1>6, StaySteps
<1>7. CASE s \in Final
  BY <1>1, <1>4, <1>5, <1>7, EndSteps
<1> QED BY <1>6, <1>7

LEMMA StillSteps ==
    ASSUME \/ \E i \in Inputs : Dispatch(i) \/ RunStarted(i) \/ SendNowAsks(i)
           \/ \E c \in Compacts : CompactAsk(c) \/ CompactAskFails(c) \/ CompactDispatch(c)
           \/ SendNowFails \/ SendNowStops
           \/ CloseTask \/ RevokeAuthorization \/ RestoreTaskSession
           \/ \E w \in Work : NativeFinish(w)
           \/ UNCHANGED vars
    PROVE  Promise!Next
<1>1. UNCHANGED <<status, position>>
  BY DEF Dispatch, RunStarted, SendNowAsks, CompactAsk, CompactAskFails, CompactDispatch,
         SendNowFails, SendNowStops, CloseTask, RevokeAuthorization, RestoreTaskSession,
         NativeFinish, storeVars, vars
<1> QED BY <1>1, RestThen, ThenSteps

(* Moving an Input to the front, with all that may follow it.                  *)
LEMMA FrontSteps ==
    ASSUME IInv, QInv, NEW i \in Inputs, MayReorder(i), NEW po \in MovedToFront(i),
           Drain(status, po, pc, paused) \/ (status' = status /\ position' = po)
    PROVE  Promise!Next
<1>1. PICK b \in QueuedInputs(status) : po \in Reordered(i, b)
  BY DEF MovedToFront
<1>2. LineOK(status, po) /\ PositionOK(po) /\ StatusOK(status)
  BY MoveLine, Typed
<1>3. ThenFrom(status, po)
  BY <1>2, DrainThen, RestThen
<1> QED BY <1>1, <1>3, MoveSteps

LEMMA ReorderSteps ==
    ASSUME IInv, QInv,
           \/ DrainAgain \/ ResumeQueuedInputs \/ SendNowMoves \/ SendNowTooLate
           \/ SendNowRestores
           \/ \E i \in Inputs : SendIdleNow(i)
           \/ \E i \in Inputs, b \in Inputs \cup {None} : MoveQueuedInput(i, b)
    PROVE  Promise!Next
<1>1. StatusOK(status) /\ PositionOK(position) /\ LineOK(status, position)
  BY Line
<1>2. urgent # None => urgent.input \in Inputs
  BY DEF IInv, TypeOK
<1>3. CASE DrainAgain \/ ResumeQueuedInputs \/ SendNowTooLate
  BY <1>1, <1>3, DrainThen, ThenSteps DEF DrainAgain, ResumeQueuedInputs, SendNowTooLate
<1>4. ASSUME NEW i \in Inputs, SendIdleNow(i) PROVE Promise!Next
  BY <1>4, FrontSteps DEF SendIdleNow
<1>5. CASE SendNowMoves
  <2>1. urgent.input \in Inputs /\ MayReorder(urgent.input)
    BY <1>2, <1>5 DEF SendNowMoves
  <2>2. PICK po \in MovedToFront(urgent.input) :
          Drain(status, po, pc, paused) \/ (position' = po /\ status' = status)
    BY <1>5 DEF SendNowMoves
  <2> QED BY <2>1, <2>2, FrontSteps
<1>6. CASE SendNowRestores
  <2>1. CASE status' = status /\ position' = position
    BY <2>1, RestThen, ThenSteps
  <2>2. CASE /\ status' = status /\ position' \in MovedBack(urgent)
             /\ QueueAsMoved(urgent) /\ MayReorder(urgent.input)
    <3>1. PICK b \in DOMAIN urgent.was \cup {None} : position' \in Reordered(urgent.input, b)
      BY <2>2 DEF MovedBack
    <3>2. b \in QueuedInputs(status) \cup {None, urgent.input}
      BY <2>2 DEF QueueAsMoved
    <3>3. ThenFrom(status, position')
      BY <2>2, RestThen
    <3> QED BY <1>2, <1>6, <2>2, <3>1, <3>2, <3>3, MoveSteps DEF SendNowRestores
  <2> QED BY <1>6, <2>1, <2>2 DEF SendNowRestores
<1>7. ASSUME NEW i \in Inputs, NEW b \in Inputs \cup {None}, MoveQueuedInput(i, b)
      PROVE  Promise!Next
  <2>1. /\ MayReorder(i) /\ b \in QueuedInputs(status) \cup {None, i}
        /\ position' \in Reordered(i, b) /\ status' = status
    BY <1>7 DEF MoveQueuedInput
  <2>2. ThenFrom(status, position')
    BY <2>1, RestThen
  <2> QED BY <2>1, <2>2, MoveSteps
<1> QED BY <1>3, <1>4, <1>5, <1>6, <1>7

LEMMA SubmitSteps ==
    ASSUME IInv, QInv, NEW i \in Inputs, SubmitNow(i) \/ SubmitQueued(i)
    PROVE  Promise!Next
<1>1. /\ StatusOK(status) /\ PositionOK(position)
      /\ i \in Work
  BY Line DEF Work
<1>2. CASE SubmitNow(i)
  <2>1. status[i] = "none" /\ status' = [status EXCEPT ![i] = "received"]
    BY <1>2 DEF SubmitNow
  <2>2. Queued(status) = {} /\ OpenWork(status) = {}
    BY <1>1, <1>2 DEF SubmitNow, QueuedInputs, Queued, InFlight, Unknown, ActiveCompacts,
                      OpenWork, Work, StatusOK, InputStatus, CompactStatus, Dispatched,
                      TerminalExecution
  <2> QED BY <1>1, <2>1, <2>2, StartSteps
<1>3. CASE SubmitQueued(i)
  <2>1. PICK p \in Positions : /\ IsNextPosition(p, status, position)
                              /\ position' = [position EXCEPT ![i] = p]
    BY <1>3 DEF SubmitQueued
  <2>2. status[i] = "none" /\ status' = [status EXCEPT ![i] = "queued"]
    BY <1>3 DEF SubmitQueued
  <2>3. ThenFrom([status EXCEPT ![i] = "queued"], [position EXCEPT ![i] = p])
    BY <2>1, <2>2, RestThen
  <2> QED BY <1>1, <2>1, <2>2, <2>3, EnterSteps
<1> QED BY <1>2, <1>3

LEMMA FailSteps ==
    ASSUME IInv, QInv, NEW i \in Inputs,
           DispatchRefused(i) \/ RunRefused(i) \/ RunUncertain(i) \/ DrainSettles(i)
    PROVE  Promise!Next
<1>1. /\ StatusOK(status) /\ i \in Work /\ i \notin Compacts
  BY Line, ConstantAssumption DEF Work, ConstantAssumption
<1>2. CASE DrainSettles(i)
  <2>1. \/ status' = StopQueue(status)
        \/ status' = RejectQueuedInputs(status) /\ position' = position
    BY <1>2 DEF DrainSettles
  <2> QED BY <1>1, <2>1, RejectGivesUp, StopGivesUp, ThenSteps
<1>3. ASSUME NEW s \in {"rejected", "unknown"}, SubmitFails(i, s), pc[i] \in {"probe", "run"}
      PROVE  Promise!Next
  <2>1. status[i] \in Busy
    BY <1>3 DEF IInv, WorkOK, InputOK, Busy, Open, Dispatched
  <2>2. s \in InputStatus /\ s \in Busy \cup Final
    BY DEF InputStatus, Busy, Open, Final
  <2> DEFINE k == [pc EXCEPT ![i] = IF draining = i THEN "settle" ELSE "idle"]
  <2>3. \/ Drain([status EXCEPT ![i] = s], position, k, paused)
        \/ status' = RejectQueuedInputs([status EXCEPT ![i] = s]) /\ position' = position
    BY <1>3 DEF SubmitFails
  <2> HIDE DEF k
  <2> QED BY <1>1, <2>1, <2>2, <2>3, ChangeThen
<1> QED BY <1>2, <1>3 DEF DispatchRefused, RunRefused, RunUncertain

LEMMA StreamEvents ==
    ASSUME IInv, QInv, NEW i \in Inputs, StreamStep(i)
    PROVE  Promise!Next
<1>1. /\ StatusOK(status) /\ i \in Work /\ i \notin Compacts
  BY Line, ConstantAssumption DEF Work, ConstantAssumption
<1>2. /\ InputOK(status[i], exec[i], pc[i], native[i], sends[i], TRUE)
      /\ status[i] \in InputStatus /\ exec[i] \in ExecutionStatus
  BY <1>1 DEF IInv, TypeOK, WorkOK, StatusOK, StreamStep, EventAccepted, EventStarted,
              EventTerminal, EventUnknown, StreamEnds, StreamFails
<1>3. status[i] \in Busy \cup Final
  BY <1>2 DEF InputOK, InputStatus, ExecutionStatus, Busy, Open, Final, Dispatched,
              TerminalExecution
<1>4. CASE EventAccepted(i) \/ EventStarted(i)
  <2>1. status[i] \in Busy
    BY <1>2, <1>4 DEF EventAccepted, EventStarted, InputOK, Busy, Open, Dispatched,
                      TerminalExecution
  <2>2. PICK s \in {"native-accepted", "started"} : status' = [status EXCEPT ![i] = s]
    BY <1>4 DEF EventAccepted, EventStarted
  <2>3. position' = position /\ s \in InputStatus /\ s \in Busy
    BY <1>4 DEF EventAccepted, EventStarted, InputStatus, Busy, Open, Dispatched
  <2> QED BY <1>1, <2>1, <2>2, <2>3, ChangeThen
<1>5. CASE EventTerminal(i)
  <2>1. status[i] \in Busy
    BY <1>2, <1>5 DEF EventTerminal, LiveExecutions, InputOK, Busy, Open, Dispatched,
                      TerminalExecution
  <2>2. Drain([status EXCEPT ![i] = native[i]], position, pc, paused)
    BY <1>5 DEF EventTerminal
  <2>3. /\ native[i] \in InputStatus /\ native[i] \in Final
        /\ native[i] \notin {"queued", "received", "requested", "unknown", "accepted"}
    BY <1>5 DEF EventTerminal, InputStatus, Final, TerminalExecution
  <2> QED BY <1>1, <2>1, <2>2, <2>3, ChangeThen
<1>6. CASE EventUnknown(i) \/ StreamEnds(i) \/ StreamFails(i)
  <2>1. /\ position' = position
        /\ \/ status' = status
           \/ status' = UnknownStatus(i)
           \/ status' = RejectQueuedInputs(UnknownStatus(i))
    BY <1>6 DEF EventUnknown, StreamEnds, StreamFails
  <2>2. CASE status[i] \in Final
    <3>1. UnknownStatus(i) = status
      BY <1>1, <2>2 DEF UnknownStatus, StatusOK, Final
    <3> QED BY <1>1, <2>1, <3>1, RestThen, RejectGivesUp, ThenSteps
  <2>3. CASE status[i] \in Busy
    <3>1. UnknownStatus(i) = [status EXCEPT ![i] = "unknown"]
      BY <2>3 DEF UnknownStatus, Busy, Open, Dispatched
    <3>2. "unknown" \in InputStatus /\ "unknown" \in Busy
      BY DEF InputStatus, Busy, Open
    <3>3. CASE status' = status
      BY <2>1, <3>3, RestThen, ThenSteps
    <3>4. CASE \/ status' = [status EXCEPT ![i] = "unknown"]
               \/ status' = RejectQueuedInputs([status EXCEPT ![i] = "unknown"])
      BY <1>1, <2>1, <2>3, <3>2, <3>4, ChangeThen
    <3> QED BY <2>1, <3>1, <3>3, <3>4
  <2> QED BY <1>3, <2>2, <2>3
<1> QED BY <1>4, <1>5, <1>6 DEF StreamStep

LEMMA CompactSteps ==
    ASSUME IInv, QInv, NEW c \in Compacts,
           \/ CompactQueued(c) \/ CompactRequested(c) \/ CompactAccepted(c)
           \/ CompactRefused(c) \/ CompactIncapable(c) \/ CompactReceipt(c)
    PROVE  Promise!Next
<1>1. /\ StatusOK(status) /\ PositionOK(position) /\ LineOK(status, position)
      /\ c \in Work /\ c \notin Inputs
  BY Line, ConstantAssumption DEF Work, ConstantAssumption
<1>2. CompactOK(status[c], pc[c], native[c], sends[c])
  BY DEF IInv, WorkOK
<1>3. pc[c] = "ask" /\ MayCompact(c) =>
        /\ status[c] = "none"
        /\ \A d \in Compacts : status[d] \notin Unresolved \cup {"queued"}
  BY <1>2 DEF CompactOK, MayCompact, ActiveCompacts, Unresolved
<1>4. CASE CompactQueued(c)
  <2>1. PICK p \in Positions :
          /\ IsNextPosition(p, status, position)
          /\ Drain([status EXCEPT ![c] = "queued"], [position EXCEPT ![c] = p],
                   [pc EXCEPT ![c] = "idle"], paused)
    BY <1>4 DEF CompactQueued
  <2>2. status[c] = "none" /\ \A d \in Compacts : status[d] \notin Unresolved \cup {"queued"}
    BY <1>3, <1>4 DEF CompactQueued
  <2>3. LineOK([status EXCEPT ![c] = "queued"], [position EXCEPT ![c] = p])
    BY <1>1, <2>1, <2>2, AppendLine
  <2>4. StatusOK([status EXCEPT ![c] = "queued"])
    BY <1>1 DEF StatusOK, CompactStatus, Work
  <2>5. PositionOK([position EXCEPT ![c] = p])
    BY <1>1 DEF PositionOK
  <2>6. ThenFrom([status EXCEPT ![c] = "queued"], [position EXCEPT ![c] = p])
    BY <2>1, <2>3, <2>4, <2>5, DrainThen
  <2> QED BY <1>1, <2>1, <2>2, <2>6, EnterSteps
<1>5. CASE CompactRequested(c)
  <2>1. /\ status[c] = "none"
        /\ \A d \in Compacts : status[d] \notin Unresolved \cup {"queued"}
        /\ \A i \in Inputs : status[i] # "queued"
        /\ status' = [status EXCEPT ![c] = "requested"]
    BY <1>3, <1>5 DEF CompactRequested, QueuedInputs, Queued, Work
  <2>2. Queued(status) = {}
    BY <2>1 DEF Queued, Work
  <2>3. OpenWork(status) \subseteq Inputs
    BY <1>1, <2>1 DEF OpenWork, Work, Unresolved, StatusOK, CompactStatus, Dispatched
  <2> QED BY <1>1, <2>1, <2>2, <2>3, StartSteps
<1>6. CASE CompactAccepted(c)
  <2>1. /\ status[c] = "requested" /\ position' = position
        /\ status' = [status EXCEPT ![c] = "accepted"]
    BY <1>6 DEF CompactAccepted
  <2>2. "accepted" \in CompactStatus /\ "accepted" \in Busy /\ status[c] \in Busy
    BY <2>1 DEF CompactStatus, Busy
  <2> QED BY <1>1, <2>1, <2>2, ChangeThen
<1>7. ASSUME NEW s \in {"completed", "failed", "unknown"}, CompactEnds(c, s),
             status[c] \in {"requested", "accepted"}
      PROVE  Promise!Next
  <2>1. Drain([status EXCEPT ![c] = s], [position EXCEPT ![c] = NoPosition],
              [pc EXCEPT ![c] = "idle"], paused)
    BY <1>7 DEF CompactEnds
  <2>2. s \in CompactStatus /\ s \in Busy \cup Final /\ status[c] \in Busy
    BY <1>7 DEF CompactStatus, Busy, Open, Final
  <2>3. s \notin {"queued", "received", "requested", "accepted"} /\ status[c] \in Unresolved
    BY <1>7 DEF Unresolved
  <2> QED BY <1>1, <2>1, <2>2, <2>3, ChangeThen
<1>8. CASE CompactRefused(c) \/ CompactIncapable(c) \/ CompactReceipt(c)
  <2>1. status[c] \in {"requested", "accepted"}
    BY <1>2, <1>8 DEF CompactRefused, CompactIncapable, CompactReceipt, CompactOK
  <2>2. \/ CompactEnds(c, "failed") \/ CompactEnds(c, "unknown")
        \/ native[c] \in {"completed", "failed"} /\ CompactEnds(c, native[c])
    BY <1>2, <1>8 DEF CompactRefused, CompactIncapable, CompactReceipt, CompactOK,
                      TerminalExecution
  <2> QED BY <1>7, <2>1, <2>2
<1> QED BY <1>4, <1>5, <1>6, <1>8

LEMMA HostCalls ==
    ASSUME IInv, QInv,
           \/ \E i \in Inputs : CancelQueuedInput(i) \/ ReconcileInput(i) \/ ReconcileExecution(i)
           \/ FreezeTask \/ AbandonTask \/ Restart
    PROVE  Promise!Next
<1>1. StatusOK(status) /\ PositionOK(position)
  BY Line
<1>2. ASSUME NEW i \in Inputs, CancelQueuedInput(i) PROVE Promise!Next
  <2>1. /\ i \in Work /\ status[i] = "queued" /\ position' = position
        /\ \A w \in Work : status'[w] = IF w = i THEN "cancelled" ELSE status[w]
    BY <1>1, <1>2 DEF CancelQueuedInput, StatusOK, Work
  <2>2. Queued(status') = Queued(status) \ {i} /\ i \in Queued(status) \cap Inputs
    BY <2>1 DEF Queued
  <2>3. OpenWork(status') = OpenWork(status)
    BY <2>1 DEF OpenWork, Dispatched
  <2>4. OverWork(status') = OverWork(status) \cup {i}
    BY <2>1 DEF OverWork, Final
  <2>5. AheadOf(status', position') =
          Promise!Within(AheadOf(status, position), Queued(status) \ {i})
    <3>1. \A q, p : /\ Queued(q) \subseteq Queued(status)
                    /\ \A v \in Queued(q) : p[v] = position[v]
                    => AheadOf(q, p) = Promise!Within(AheadOf(status, position), Queued(q))
      BY AheadWithin
    <3>2. AheadOf(status', position') =
            Promise!Within(AheadOf(status, position), Queued(status'))
      BY <2>1, <2>2, <3>1
    <3> QED BY <2>2, <3>2
  <2>6. Promise!Cancel(i)
    BY <2>2, <2>3, <2>4, <2>5 DEF Promise!Cancel, Promise!Rest
  <2> QED BY <2>6 DEF Promise!Next
<1>3. ASSUME NEW i \in Inputs, ReconcileInput(i) \/ ReconcileExecution(i) PROVE Promise!Next
  <2>1. PICK s \in TerminalExecution : status' = [status EXCEPT ![i] = s]
    BY <1>3 DEF ReconcileInput, ReconcileExecution
  <2>2. status[i] = "unknown" /\ position' = position
    BY <1>3 DEF ReconcileInput, ReconcileExecution
  <2>3. /\ s \in InputStatus /\ s \in Final /\ status[i] \in Busy
        /\ s \notin {"queued", "received", "requested", "unknown", "accepted"}
    BY <2>2 DEF InputStatus, Final, TerminalExecution, Busy, Open
  <2>4. i \in Work /\ i \notin Compacts
    BY ConstantAssumption DEF Work, ConstantAssumption
  <2> QED BY <2>1, <2>2, <2>3, <2>4, ChangeThen
<1>4. CASE FreezeTask \/ AbandonTask
  BY <1>1, <1>4, RejectGivesUp, ThenSteps DEF FreezeTask, AbandonTask
<1>5. CASE Restart
  <2>1. /\ \A w \in Work : status'[w] = IF w \in InFlight(status) \cup NativeCompacts(status)
                                        THEN "unknown" ELSE status[w]
        /\ \A w \in Work : position'[w] = IF w \in NativeCompacts(status)
                                          THEN NoPosition ELSE position[w]
    BY <1>5 DEF Restart
  <2>2. \A w \in Work : /\ status'[w] = "queued" <=> status[w] = "queued"
                        /\ status'[w] \in Busy <=> status[w] \in Busy
                        /\ status'[w] \in Final <=> status[w] \in Final
                        /\ status[w] = "queued" => position'[w] = position[w]
    BY <2>1 DEF InFlight, NativeCompacts, Busy, Open, Dispatched, Final
  <2>3. Queued(status') = Queued(status) /\ OverWork(status') = OverWork(status)
    BY <2>2 DEF Queued, OverWork
  <2>4. OpenWork(status') = OpenWork(status)
    <3>1. \A x : OpenWork(x) = {v \in Work : x[v] \in Busy}
      BY DEF OpenWork, Busy, Open
    <3> QED BY <2>2, <3>1
  <2>5. AheadOf(status', position') = AheadOf(status, position)
    <3>1. \A q, p : Queued(q) = Queued(status) /\ (\A v \in Queued(status) : p[v] = position[v])
                    => AheadOf(q, p) = AheadOf(status, position)
      BY SameAhead
    <3>2. \A v \in Queued(status) : position'[v] = position[v]
      BY <2>2 DEF Queued
    <3> QED BY <2>3, <3>1, <3>2
  <2>6. ThenFrom(status, position)
    BY <2>3, <2>4, <2>5 DEF ThenFrom, Promise!Then, Promise!Rest
  <2> QED BY <2>6, ThenSteps
<1> QED BY <1>2, <1>3, <1>4, <1>5

-----------------------------------------------------------------------------

LEMMA EveryStepIsSerial == IInv /\ QInv /\ [Next]_vars => Promise!Next
<1> SUFFICES ASSUME IInv, QInv, [Next]_vars PROVE Promise!Next
  OBVIOUS
<1>1. CASE HostCall
  BY <1>1, SubmitSteps, HostCalls, ReorderSteps, StillSteps DEF HostCall
<1>2. ASSUME NEW i \in Inputs, InputStep(i) PROVE Promise!Next
  BY <1>2, StillSteps, FailSteps DEF InputStep
<1>3. ASSUME NEW c \in Compacts, CompactStep(c) PROVE Promise!Next
  BY <1>3, StillSteps, CompactSteps DEF CompactStep
<1>4. CASE DrainAgain \/ SendNowStep
  BY <1>4, ReorderSteps, StillSteps DEF SendNowStep
<1> QED BY <1>1, <1>2, <1>3, <1>4, StreamEvents, StillSteps, HostCalls DEF Next

LEMMA InitIsSerial == Init => Promise!Init
<1> SUFFICES ASSUME Init PROVE Promise!Init
  OBVIOUS
<1>1. \A w \in Work : status[w] = "none"
  BY DEF Init
<1>2. Queued(status) = {} /\ OpenWork(status) = {} /\ OverWork(status) = {}
  BY <1>1 DEF Queued, OpenWork, OverWork, Dispatched, Final
<1>3. AheadOf(status, position) = {}
  BY <1>2 DEF AheadOf
<1> QED BY <1>2, <1>3 DEF Promise!Init

(* The runtime keeps the promise of a serial Session, whatever handlers are    *)
(* suspended and whatever receipts are lost: work is taken from the front of   *)
(* the line, only when nothing is open, and never comes back.                 *)
THEOREM SerialSessionImplemented == Spec => ImplementsSerialSession
<1>1. Init => Promise!Init
  BY InitIsSerial
<1>2. IInv /\ QInv /\ [Next]_vars => [Promise!Next]_Promise!vars
  BY EveryStepIsSerial
<1> QED BY <1>1, <1>2, QueueInvariance, PTL DEF Spec, ImplementsSerialSession, Promise!Spec

-----------------------------------------------------------------------------
(* Who may promote the queue, who gives it up, and who wakes it.               *)

(* Work that waits in a Session that is not attached is held.                  *)
Held == session = "unknown" /\ Queued(status) # {} => paused

(* Something is unresolved whose end drains the queue.                        *)
BusySession(st) == InFlight(st) # {} \/ NativeCompacts(st) # {} \/ Unknown(st) # {}

(* Work that waits for nobody's resume waits for a drain that has begun, for    *)
(* its next attempt, or for what is unresolved.                               *)
Awake ==
    Eligible /\ ~paused /\ Queued(status) # {} =>
       draining # None \/ wakeup \/ BusySession(status)

HasCause ==
    \/ ~Eligible' \/ Unknown(status') # {}
    \/ \E j \in Inputs : pc[j] = "settle"

(* What is shown of every step about the work that waits.                      *)
QueueStepOK ==
    /\ \A w \in Work : status[w] = "queued" /\ status'[w] \in {"received", "requested"} => ~paused'
    /\ paused /\ ~paused' => NothingUnresolved
    /\ Held => Held'
    /\ "streamError" \notin Faults =>
          \A i \in Inputs : status[i] = "queued" /\ status'[i] = "rejected" => HasCause
    /\ "active" \notin ReconcileIn /\ Held /\ Awake => Awake'

(* What a drain does to the work that waits.                                  *)
LEMMA DrainFate ==
    ASSUME NEW st, NEW po, NEW k, NEW hold, StatusOK(st), Drain(st, po, k, hold)
    PROVE  /\ \A w \in Work :
                 /\ st[w] = "queued" /\ status'[w] \in {"received", "requested"} => ~hold
                 /\ status'[w] = "queued" => st[w] = "queued"
                 /\ st[w] = "queued" /\ status'[w] = "rejected" => ~Eligible \/ Unknown(status') # {}
           /\ Eligible /\ ~hold /\ Queued(status') # {} => draining' # None \/ BusySession(status')
<1>1. CASE DrainWaits(st, po, k, hold)
  BY <1>1 DEF DrainWaits, BusySession, Barrier
<1>2. CASE DrainStops(st, po, k, hold)
  <2>1. status' = StopQueue(st) /\ (~Eligible \/ Unknown(st) # {})
    BY <1>2 DEF DrainStops
  <2>2. Unknown(st) \subseteq Unknown(status') /\ Queued(status') = {}
    BY <2>1 DEF StopQueue, Unknown, Queued, QueuedInputs
  <2>3. \A w \in Work : st[w] = "queued" => status'[w] \in {"rejected", "failed"}
    BY <2>1 DEF StopQueue, Queued, QueuedInputs
  <2>4. QED
    BY <2>1, <2>2, <2>3 DEF Queued
<1>3. ASSUME NEW c \in Compacts, DrainCompaction(c, st, po, k, hold)
      PROVE  /\ ~hold /\ status' = [st EXCEPT ![c] = "requested"] /\ c \in Work
             /\ BusySession(status')
  <2>1. ~hold /\ status' = [st EXCEPT ![c] = "requested"] /\ c \in Work
    BY <1>3 DEF DrainCompaction, MayPromote, Work
  <2>2. c \in NativeCompacts(status')
    BY <2>1 DEF NativeCompacts, StatusOK
  <2>3. QED
    BY <2>1, <2>2 DEF BusySession
<1>4. ASSUME NEW i \in Inputs, DrainInput(i, st, po, k, hold)
      PROVE  /\ ~hold /\ (status' = [st EXCEPT ![i] = "received"] \/ status' = st)
             /\ i \in Work /\ draining' # None
  BY <1>4, ConstantAssumption DEF DrainInput, MayPromote, Work, ConstantAssumption
<1>5. CASE \E c \in Compacts : DrainCompaction(c, st, po, k, hold)
  BY <1>3, <1>5 DEF StatusOK, Queued
<1>6. CASE \E i \in Inputs : DrainInput(i, st, po, k, hold)
  BY <1>4, <1>6 DEF StatusOK, Queued
<1>7. QED
  BY <1>1, <1>2, <1>5, <1>6 DEF Drain

(* A step that reaches st and then drains.                                    *)
LEMMA DrainKeepsHold ==
    ASSUME NEW st, NEW po, NEW k, NEW hold, StatusOK(st), Drain(st, po, k, hold),
           hold = paused', UNCHANGED <<task, session>>, paused \in BOOLEAN, paused' \in BOOLEAN,
           paused' => paused, paused /\ ~paused' => NothingUnresolved /\ session = "active",
           \A w \in Work : status[w] = "queued" => st[w] = "queued",
           session = "active" \/ \A w \in Work : st[w] = "queued" => status[w] = "queued"
    PROVE  QueueStepOK
<1>1. Eligible' = Eligible
  BY DEF Eligible
<1>2. /\ \A w \in Work :
           /\ st[w] = "queued" /\ status'[w] \in {"received", "requested"} => ~hold
           /\ status'[w] = "queued" => st[w] = "queued"
           /\ st[w] = "queued" /\ status'[w] = "rejected" => ~Eligible \/ Unknown(status') # {}
      /\ Eligible /\ ~hold /\ Queued(status') # {} => draining' # None \/ BusySession(status')
  BY DrainFate
<1>3. Held => Held'
  <2> SUFFICES ASSUME Held, session' = "unknown", Queued(status') # {} PROVE paused'
    BY DEF Held
  <2>1. PICK w \in Work : status'[w] = "queued"
    BY DEF Queued
  <2>2. status[w] = "queued"
    BY <1>2, <2>1
  <2>3. QED
    BY <2>2 DEF Held, Queued
<1>4. Awake'
  BY <1>1, <1>2 DEF Awake
<1>5. \A i \in Inputs : status[i] = "queued" /\ status'[i] = "rejected" => HasCause
  BY <1>1, <1>2 DEF HasCause, Work
<1>6. QED
  BY <1>2, <1>3, <1>4, <1>5 DEF QueueStepOK

(* A step that changes no status and nothing the queue depends on.             *)
LEMMA StillKeepsHold ==
    ASSUME UNCHANGED <<task, session, paused, status, draining, wakeup>>
    PROVE  QueueStepOK
<1>1. \A w \in Work : status[w] = "queued" => status'[w] = "queued"
  OBVIOUS
<1>2. (Held => Held') /\ (Awake => Awake')
  BY DEF Held, Awake, Eligible, Queued, BusySession, InFlight, NativeCompacts, Unknown
<1>3. QED
  BY <1>1, <1>2 DEF QueueStepOK

(* A step that changes one status and leaves it to others to drain.            *)
LEMMA ChangeKeepsHold ==
    ASSUME StatusOK(status), NEW w \in Work, NEW s, status' = [status EXCEPT ![w] = s],
           UNCHANGED <<task, session, paused, draining, wakeup>>,
           status[w] = "queued" => s = "cancelled",
           \/ s = "cancelled" /\ status[w] = "queued"
           \/ s = "queued" /\ status[w] = "none" /\ session = "active" /\ (Queued(status) # {} \/ BusySession(status))
           \/ s = "unknown"
           \/ w \in Inputs /\ s \in Dispatched
           \/ w \in Compacts /\ s \in {"requested", "accepted"}
           \/ status[w] = "unknown" /\ s \in TerminalExecution
                /\ ("active" \in ReconcileIn \/ session # "active")
    PROVE  QueueStepOK
<1>1. \A v \in Work : status'[v] = IF v = w THEN s ELSE status[v]
  BY DEF StatusOK
<1>2. \A v \in Work : status[v] = "queued" => status'[v] \in {"queued", "cancelled"}
  BY <1>1
<1>3. session = "active" \/ Queued(status') \subseteq Queued(status)
  BY <1>1 DEF Queued, Dispatched, TerminalExecution
<1>4. Held => Held'
  BY <1>3 DEF Held
<1>5. ASSUME "active" \notin ReconcileIn, Awake PROVE Awake'
  <2>1. CASE s = "unknown"
    BY <2>1, <1>1 DEF Awake, BusySession, Unknown
  <2>2. CASE w \in Inputs /\ s \in Dispatched
    BY <2>2, <1>1 DEF Awake, BusySession, InFlight
  <2>3. CASE w \in Compacts /\ s \in {"requested", "accepted"}
    BY <2>3, <1>1 DEF Awake, BusySession, NativeCompacts
  <2>4. CASE session # "active"
    BY <2>4 DEF Awake, Eligible
  <2>5. CASE s = "queued" \/ s = "cancelled"
    <3>1. status[w] \notin Dispatched \cup {"requested", "accepted", "unknown"}
      BY <2>5 DEF Dispatched, TerminalExecution
    <3>2. /\ InFlight(status) \subseteq InFlight(status')
          /\ NativeCompacts(status) \subseteq NativeCompacts(status')
          /\ Unknown(status) \subseteq Unknown(status')
      BY <3>1, <1>1 DEF InFlight, NativeCompacts, Unknown, Dispatched
    <3>3. Queued(status') # {} /\ Eligible => Queued(status) # {} \/ BusySession(status)
      BY <2>5, <1>1 DEF Queued, Dispatched, TerminalExecution
    <3>4. BusySession(status) => BusySession(status')
      BY <3>2 DEF BusySession
    <3>5. Eligible' = Eligible
      BY DEF Eligible
    <3>6. QED
      BY <1>5, <3>3, <3>4, <3>5 DEF Awake
  <2>6. QED
    BY <1>5, <2>1, <2>2, <2>3, <2>4, <2>5
<1>6. QED
  BY <1>2, <1>4, <1>5 DEF QueueStepOK

(* A step that gives the queued Inputs up, for the unknown result of one.      *)
LEMMA RejectKeepsHold ==
    ASSUME StatusOK(status), NEW i \in Inputs, status[i] # "queued",
           status' = RejectQueuedInputs([status EXCEPT ![i] = "unknown"]),
           UNCHANGED <<task, session, paused>>
    PROVE  QueueStepOK
<1>1. \A w \in Work : status'[w] = IF w = i THEN "unknown"
                                  ELSE IF w \in Inputs /\ status[w] = "queued" THEN "rejected"
                                  ELSE status[w]
  BY DEF RejectQueuedInputs, QueuedInputs, Queued, StatusOK
<1>2. i \in Unknown(status') /\ Queued(status') \subseteq Queued(status)
  BY <1>1 DEF Unknown, Queued, Work
<1>3. (Held => Held') /\ Awake' /\ HasCause
  BY <1>2 DEF Held, Awake, BusySession, HasCause
<1>4. QED
  BY <1>1, <1>3 DEF QueueStepOK

-----------------------------------------------------------------------------
(* One lemma per kind of step.                                               *)

LEMMA QuietHold ==
    ASSUME \/ \E i \in Inputs : Dispatch(i) \/ SendNowAsks(i)
           \/ \E i \in Inputs, b \in Inputs \cup {None} : MoveQueuedInput(i, b)
           \/ \E c \in Compacts : CompactAsk(c) \/ CompactAskFails(c) \/ CompactDispatch(c)
           \/ SendNowFails \/ SendNowStops \/ SendNowRestores
           \/ RevokeAuthorization
           \/ \E w \in Work : NativeFinish(w)
    PROVE  QueueStepOK
<1>1. UNCHANGED <<task, session, paused, status, draining, wakeup>>
  BY DEF Dispatch, SendNowAsks, MoveQueuedInput, CompactAsk, CompactAskFails, CompactDispatch,
         SendNowFails, SendNowStops, SendNowRestores, RevokeAuthorization, NativeFinish,
         hostVars, storeVars, procVars
<1>2. QED
  BY <1>1, StillKeepsHold

(* The drain whose dispatch succeeded leaves the queue to the turn.            *)
LEMMA RunHold ==
    ASSUME IInv, NEW i \in Inputs, RunStarted(i)
    PROVE  QueueStepOK
<1>1. status[i] = "received"
  BY DEF RunStarted, IInv, WorkOK, InputOK
<1>2. UNCHANGED <<task, session, paused, status, wakeup>>
  BY DEF RunStarted, hostVars, storeVars
<1>3. i \in InFlight(status')
  BY <1>1, <1>2 DEF InFlight, Dispatched
<1>4. (Held => Held') /\ Awake'
  BY <1>2, <1>3 DEF Held, Awake, BusySession
<1>5. QED
  BY <1>2, <1>4 DEF QueueStepOK

(* Steps that only drain the queue.                                           *)
LEMMA DrainHold ==
    ASSUME IInv,
           \/ DrainAgain \/ ResumeQueuedInputs \/ SendNowMoves \/ SendNowTooLate
           \/ \E i \in Inputs : SendIdleNow(i)
    PROVE  QueueStepOK
<1>1. StatusOK(status) /\ paused \in BOOLEAN
  BY DEF IInv, TypeOK, StatusOK
<1>2. CASE ResumeQueuedInputs
  <2>1. /\ Drain(status, position, pc, FALSE) /\ paused' = FALSE /\ session = "active"
        /\ NothingUnresolved /\ UNCHANGED <<task, session>>
    BY <1>2 DEF ResumeQueuedInputs, Admits
  <2>2. QED
    BY <1>1, <2>1, DrainKeepsHold
<1>3. CASE DrainAgain \/ SendNowTooLate \/ SendNowMoves \/ \E i \in Inputs : SendIdleNow(i)
  <2>1. UNCHANGED <<task, session, paused>>
    BY <1>3 DEF DrainAgain, SendNowTooLate, SendNowMoves, SendIdleNow, hostVars
  <2>2. \/ UNCHANGED <<status, draining, wakeup>>
        \/ \E po : Drain(status, po, pc, paused)
    BY <1>3 DEF DrainAgain, SendNowTooLate, SendNowMoves, SendIdleNow
  <2>3. ASSUME NEW po, Drain(status, po, pc, paused) PROVE QueueStepOK
    BY <1>1, <2>1, <2>3, DrainKeepsHold
  <2>4. QED
    BY <2>1, <2>2, <2>3, StillKeepsHold
<1>4. QED
  BY <1>2, <1>3

LEMMA SingleHold ==
    ASSUME IInv,
           \/ \E i \in Inputs : \/ SubmitNow(i) \/ SubmitQueued(i) \/ CancelQueuedInput(i)
                               \/ ReconcileInput(i) \/ ReconcileExecution(i)
                               \/ EventAccepted(i) \/ EventStarted(i)
           \/ \E c \in Compacts : CompactRequested(c) \/ CompactAccepted(c)
    PROVE  QueueStepOK
<1>1. StatusOK(status) /\ Inputs \subseteq Work /\ Compacts \subseteq Work
  BY DEF IInv, TypeOK, StatusOK, Work
<1>2. UNCHANGED <<task, session, paused, draining, wakeup>>
  BY DEF SubmitNow, SubmitQueued, CancelQueuedInput, ReconcileInput, ReconcileExecution,
         EventAccepted, EventStarted, CompactRequested, CompactAccepted, hostVars, procVars
<1>3. ASSUME NEW i \in Inputs, SubmitNow(i) PROVE QueueStepOK
  <2>1. status[i] = "none" /\ status' = [status EXCEPT ![i] = "received"] /\ "received" \in Dispatched
    BY <1>3 DEF SubmitNow, Dispatched
  <2>2. QED
    BY <1>1, <1>2, <2>1, ChangeKeepsHold
<1>4. ASSUME NEW i \in Inputs, SubmitQueued(i) PROVE QueueStepOK
  <2>1. /\ status[i] = "none" /\ status' = [status EXCEPT ![i] = "queued"] /\ session = "active"
        /\ Queued(status) # {} \/ BusySession(status)
    BY <1>4 DEF SubmitQueued, Admits, QueuedInputs, BusySession, ActiveCompacts, Queued,
                NativeCompacts, Unknown, Work
  <2>2. QED
    BY <1>1, <1>2, <2>1, ChangeKeepsHold
<1>5. ASSUME NEW i \in Inputs, CancelQueuedInput(i) PROVE QueueStepOK
  <2>1. status[i] = "queued" /\ status' = [status EXCEPT ![i] = "cancelled"]
    BY <1>5 DEF CancelQueuedInput
  <2>2. QED
    BY <1>1, <1>2, <2>1, ChangeKeepsHold
<1>6. ASSUME NEW i \in Inputs, ReconcileInput(i) \/ ReconcileExecution(i) PROVE QueueStepOK
  <2>1. /\ status[i] = "unknown" /\ status' = [status EXCEPT ![i] = native[i]]
        /\ native[i] \in TerminalExecution /\ session \in ReconcileIn
    BY <1>6 DEF ReconcileInput, ReconcileExecution
  <2>2. QED
    BY <1>1, <1>2, <2>1, ChangeKeepsHold
<1>7. ASSUME NEW i \in Inputs, EventAccepted(i) \/ EventStarted(i) PROVE QueueStepOK
  <2>1. \/ status' = [status EXCEPT ![i] = "native-accepted"]
        \/ status' = [status EXCEPT ![i] = "started"]
    BY <1>7 DEF EventAccepted, EventStarted
  <2>2. status[i] # "queued"
    BY <1>7 DEF EventAccepted, EventStarted, IInv, WorkOK, InputOK
  <2>3. {"native-accepted", "started"} \subseteq Dispatched
    BY DEF Dispatched
  <2>4. QED
    BY <1>1, <1>2, <2>1, <2>2, <2>3, ChangeKeepsHold
<1>8. ASSUME NEW c \in Compacts, CompactRequested(c) \/ CompactAccepted(c) PROVE QueueStepOK
  <2>1. \/ status' = [status EXCEPT ![c] = "requested"]
        \/ status' = [status EXCEPT ![c] = "accepted"]
    BY <1>8 DEF CompactRequested, CompactAccepted
  <2>2. status[c] # "queued"
    BY <1>8 DEF CompactRequested, CompactAccepted, IInv, WorkOK, CompactOK
  <2>3. QED
    BY <1>1, <1>2, <2>1, <2>2, ChangeKeepsHold
<1>9. QED
  BY <1>3, <1>4, <1>5, <1>6, <1>7, <1>8

LEMMA FailHold ==
    ASSUME IInv, NEW i \in Inputs,
           DispatchRefused(i) \/ RunRefused(i) \/ RunUncertain(i) \/ DrainSettles(i)
    PROVE  QueueStepOK
<1>1. StatusOK(status) /\ Inputs \subseteq Work /\ Compacts \subseteq Work /\ paused \in BOOLEAN
      /\ i \notin Compacts
  BY ConstantAssumption DEF IInv, TypeOK, StatusOK, Work, ConstantAssumption
<1>2. UNCHANGED <<task, session, paused>>
  BY DEF DispatchRefused, RunRefused, RunUncertain, DrainSettles, hostVars
<1>3. CASE DrainSettles(i)
  <2>1. pc[i] = "settle"
    BY <1>3 DEF DrainSettles
  <2>2. \/ status' = StopQueue(status)
        \/ status' = RejectQueuedInputs(status) /\ wakeup'
    BY <1>3 DEF DrainSettles
  <2>3. /\ \A w \in Work : status[w] = "queued" => status'[w] \in {"queued", "rejected", "failed"}
        /\ Queued(status') \subseteq Queued(status)
        /\ status' = StopQueue(status) => Queued(status') = {}
    BY <2>2 DEF StopQueue, RejectQueuedInputs, Queued, QueuedInputs
  <2>4. (Held => Held') /\ Awake' /\ HasCause
    BY <1>2, <2>1, <2>2, <2>3 DEF Held, Awake, HasCause
  <2>5. QED
    BY <1>2, <2>3, <2>4 DEF QueueStepOK
<1>4. ASSUME NEW s, SubmitFails(i, s), pc[i] \in {"probe", "run"} PROVE QueueStepOK
  <2>1. status[i] = "received"
    BY <1>4 DEF IInv, WorkOK, InputOK
  <2>2. CASE s = "unknown"
    BY <1>1, <1>2, <1>4, <2>1, <2>2, RejectKeepsHold DEF SubmitFails
  <2>3. CASE s = "rejected"
    <3> DEFINE st == [status EXCEPT ![i] = "rejected"]
               k == [pc EXCEPT ![i] = IF draining = i THEN "settle" ELSE "idle"]
    <3>1. StatusOK(st)
      BY <1>1 DEF StatusOK, InputStatus
    <3>2. Drain(st, position, k, paused)
      BY <1>4, <2>3 DEF SubmitFails
    <3>3. \A w \in Work : (status[w] = "queued") <=> (st[w] = "queued")
      BY <1>1, <2>1 DEF StatusOK
    <3> HIDE DEF st, k
    <3>4. QED
      BY <1>1, <1>2, <3>1, <3>2, <3>3, DrainKeepsHold
  <2>4. QED
    BY <1>4, <2>2, <2>3 DEF SubmitFails
<1>5. QED
  BY <1>3, <1>4 DEF DispatchRefused, RunRefused, RunUncertain

LEMMA StreamHold ==
    ASSUME IInv, NEW i \in Inputs,
           EventTerminal(i) \/ EventUnknown(i) \/ StreamEnds(i) \/ StreamFails(i)
    PROVE  QueueStepOK
<1>1. StatusOK(status) /\ Inputs \subseteq Work /\ Compacts \subseteq Work /\ paused \in BOOLEAN
      /\ i \notin Compacts
  BY ConstantAssumption DEF IInv, TypeOK, StatusOK, Work, ConstantAssumption
<1>2. UNCHANGED <<task, session, paused>>
  BY DEF EventTerminal, EventUnknown, StreamEnds, StreamFails, hostVars
<1>3. i \in streams /\ status[i] # "queued"
  BY DEF EventTerminal, EventUnknown, StreamEnds, StreamFails, IInv, WorkOK, InputOK
<1>4. CASE EventTerminal(i)
  <2> DEFINE st == [status EXCEPT ![i] = native[i]]
  <2>1. Drain(st, position, pc, paused) /\ native[i] \in TerminalExecution
    BY <1>4 DEF EventTerminal
  <2>2. StatusOK(st)
    BY <1>1, <2>1 DEF StatusOK, InputStatus
  <2>3. \A w \in Work : (status[w] = "queued") <=> (st[w] = "queued")
    BY <1>1, <1>3, <2>1 DEF StatusOK, TerminalExecution
  <2> HIDE DEF st
  <2>4. QED
    BY <1>1, <1>2, <2>1, <2>2, <2>3, DrainKeepsHold
<1>5. UnknownStatus(i) = [status EXCEPT ![i] = "unknown"] \/ UnknownStatus(i) = status
  BY <1>1 DEF UnknownStatus, StatusOK
<1>6. CASE EventUnknown(i)
  <2>1. status' = UnknownStatus(i) /\ UNCHANGED <<draining, wakeup>>
    BY <1>6 DEF EventUnknown, procVars
  <2>2. QED
    BY <1>1, <1>2, <1>3, <1>5, <2>1, ChangeKeepsHold, StillKeepsHold
<1>7. CASE StreamEnds(i)
  <2>1. UNCHANGED <<draining, wakeup>>
    BY <1>7 DEF StreamEnds
  <2>2. CASE status[i] \in Dispatched \cup {"unknown"} /\ status' = RejectQueuedInputs(UnknownStatus(i))
    <3>1. UnknownStatus(i) = [status EXCEPT ![i] = "unknown"]
      BY <1>1, <2>2 DEF UnknownStatus, Dispatched
    <3>2. QED
      BY <1>1, <1>2, <1>3, <2>2, <3>1, RejectKeepsHold
  <2>3. QED
    BY <1>2, <1>7, <2>1, <2>2, StillKeepsHold DEF StreamEnds
<1>8. CASE StreamFails(i)
  <2>1. /\ "streamError" \in Faults /\ status' = RejectQueuedInputs(UnknownStatus(i))
        /\ UNCHANGED <<draining, wakeup>>
    BY <1>8 DEF StreamFails
  <2>2. CASE UnknownStatus(i) = [status EXCEPT ![i] = "unknown"]
    BY <1>1, <1>2, <1>3, <2>1, <2>2, RejectKeepsHold
  <2>3. CASE UnknownStatus(i) = status
    <3>1. \A w \in Work : status'[w] = IF w \in Inputs /\ status[w] = "queued" THEN "rejected"
                                      ELSE status[w]
      BY <2>1, <2>3 DEF RejectQueuedInputs, QueuedInputs, Queued
    <3>2. Queued(status') \subseteq Queued(status)
      BY <3>1 DEF Queued
    <3>3. /\ InFlight(status') = InFlight(status) /\ NativeCompacts(status') = NativeCompacts(status)
          /\ Unknown(status') = Unknown(status)
      <4>1. \A w \in Work : \A s \in Dispatched \cup {"requested", "accepted", "unknown"} :
               status'[w] = s <=> status[w] = s
        BY <3>1 DEF Dispatched
      <4>2. InFlight(status') = InFlight(status)
        BY <1>1, <4>1 DEF InFlight, Dispatched
      <4>3. NativeCompacts(status') = NativeCompacts(status)
        BY <1>1, <4>1 DEF NativeCompacts, Dispatched
      <4>4. Unknown(status') = Unknown(status)
        BY <4>1 DEF Unknown
      <4>5. QED
        BY <4>2, <4>3, <4>4
    <3>4. (Held => Held') /\ (Awake => Awake')
      BY <1>2, <2>1, <3>2, <3>3 DEF Held, Awake, Eligible, BusySession
    <3>5. QED
      BY <1>2, <2>1, <3>1, <3>4 DEF QueueStepOK
  <2>4. QED
    BY <1>5, <2>2, <2>3
<1>9. QED
  BY <1>4, <1>6, <1>7, <1>8

LEMMA CompactHold ==
    ASSUME IInv, NEW c \in Compacts,
           CompactQueued(c) \/ CompactRefused(c) \/ CompactIncapable(c) \/ CompactReceipt(c)
    PROVE  QueueStepOK
<1>1. StatusOK(status) /\ c \in Work /\ paused \in BOOLEAN /\ c \notin Inputs /\ Compacts \subseteq Work
  BY ConstantAssumption DEF IInv, TypeOK, StatusOK, Work, ConstantAssumption
<1>2. UNCHANGED <<task, session, paused>>
  BY DEF CompactQueued, CompactRefused, CompactIncapable, CompactReceipt, CompactEnds, hostVars
<1>3. CompactOK(status[c], pc[c], native[c], sends[c])
  BY DEF IInv, WorkOK
<1>4. PICK s, po, k :
         /\ s \in {"queued", "failed", "unknown", "completed"}
         /\ Drain([status EXCEPT ![c] = s], po, k, paused)
         /\ s = "queued" => session = "active"
         /\ status[c] # "queued"
  <2>1. CASE CompactQueued(c)
    BY <1>3, <2>1 DEF CompactQueued, CompactOK, MayCompact, Admits
  <2>2. CASE CompactRefused(c) \/ CompactIncapable(c) \/ CompactReceipt(c)
    <3>1. \/ CompactEnds(c, "failed") \/ CompactEnds(c, "unknown")
          \/ native[c] \in {"completed", "failed"} /\ CompactEnds(c, native[c])
      BY <1>3, <2>2 DEF CompactRefused, CompactIncapable, CompactReceipt, CompactOK,
                        TerminalExecution
    <3>2. status[c] # "queued"
      BY <1>3, <2>2 DEF CompactRefused, CompactIncapable, CompactReceipt, CompactOK
    <3>3. \A s : CompactEnds(c, s) => \E po, k : Drain([status EXCEPT ![c] = s], po, k, paused)
      BY DEF CompactEnds
    <3>4. QED
      BY <3>1, <3>2, <3>3
  <2>3. QED
    BY <2>1, <2>2
<1> DEFINE st == [status EXCEPT ![c] = s]
<1>5. StatusOK(st)
  BY <1>1, <1>4 DEF StatusOK, CompactStatus
<1>6. \A w \in Work : st[w] = IF w = c THEN s ELSE status[w]
  BY <1>1 DEF StatusOK
<1>7. Drain(st, po, k, paused)
  BY <1>4
<1> HIDE DEF st
<1>8. QED
  BY <1>1, <1>2, <1>4, <1>5, <1>6, <1>7, DrainKeepsHold

LEMMA HostHold ==
    ASSUME IInv, FreezeTask \/ AbandonTask \/ CloseTask \/ RestoreTaskSession \/ Restart
    PROVE  QueueStepOK
<1>1. CASE FreezeTask \/ AbandonTask \/ CloseTask
  <2>1. task' # "active" /\ UNCHANGED <<session, paused>>
    BY <1>1 DEF FreezeTask, AbandonTask, CloseTask
  <2>2. status' = status \/ status' = RejectQueuedInputs(status)
    BY <1>1 DEF FreezeTask, AbandonTask, CloseTask, storeVars
  <2>3. /\ \A w \in Work : status[w] = "queued" => status'[w] \in {"queued", "rejected"}
        /\ Queued(status') \subseteq Queued(status)
    BY <2>2 DEF RejectQueuedInputs, Queued, QueuedInputs
  <2>4. ~Eligible' /\ (Held => Held')
    BY <2>1, <2>3 DEF Eligible, Held
  <2>5. QED
    BY <2>1, <2>3, <2>4 DEF QueueStepOK, Awake, HasCause
<1>2. CASE RestoreTaskSession
  <2>1. session = "unknown" /\ session' = "active" /\ UNCHANGED <<paused, status>>
    BY <1>2 DEF RestoreTaskSession, storeVars
  <2>2. QED
    BY <2>1 DEF QueueStepOK, Held, Awake
<1>3. CASE Restart
  <2>1. paused' = (paused \/ Queued(status) # {})
    BY <1>3 DEF Restart
  <2>2. \A w \in Work : status'[w] = status[w] \/ (status[w] # "queued" /\ status'[w] = "unknown")
    <3>1. \A w \in InFlight(status) \cup NativeCompacts(status) : status[w] # "queued"
      BY DEF InFlight, NativeCompacts, Dispatched
    <3>2. status' = [w \in Work |-> IF w \in InFlight(status) \cup NativeCompacts(status)
                                   THEN "unknown" ELSE status[w]]
      BY <1>3 DEF Restart
    <3>3. QED
      BY <3>1, <3>2
  <2>3. Queued(status') \subseteq Queued(status) /\ session' # "active"
    BY <1>3, <2>2 DEF Queued, Restart
  <2>4. (paused => paused') /\ (Queued(status) # {} => paused')
    BY <2>1, Zenon
  <2>5. Held' /\ Awake'
    BY <2>3, <2>4 DEF Held, Awake, Eligible
  <2>6. QED
    BY <2>2, <2>4, <2>5 DEF QueueStepOK, Work
<1>4. QED
  BY <1>1, <1>2, <1>3

LEMMA EveryQueueStep == IInv /\ [Next]_vars => QueueStepOK
<1> SUFFICES ASSUME IInv, [Next]_vars PROVE QueueStepOK
  OBVIOUS
<1>1. CASE HostCall
  BY <1>1, QuietHold, SingleHold, DrainHold, HostHold DEF HostCall
<1>2. ASSUME NEW i \in Inputs, InputStep(i) PROVE QueueStepOK
  BY <1>2, QuietHold, RunHold, FailHold DEF InputStep
<1>3. ASSUME NEW i \in Inputs, StreamStep(i) PROVE QueueStepOK
  BY <1>3, SingleHold, StreamHold DEF StreamStep
<1>4. ASSUME NEW c \in Compacts, CompactStep(c) PROVE QueueStepOK
  BY <1>4, QuietHold, SingleHold, CompactHold DEF CompactStep
<1>5. CASE DrainAgain \/ SendNowStep
  BY <1>5, DrainHold, QuietHold DEF SendNowStep
<1>6. ASSUME NEW w \in Work, NativeFinish(w) PROVE QueueStepOK
  BY <1>6, QuietHold
<1>7. CASE Restart
  BY <1>7, HostHold
<1>8. CASE UNCHANGED vars
  BY <1>8, StillKeepsHold DEF vars, hostVars, storeVars, procVars
<1>9. QED
  BY <1>1, <1>2, <1>3, <1>4, <1>5, <1>6, <1>7, <1>8 DEF Next

(* A Session that is not attached holds its queue.                            *)
THEOREM HeldInvariance == Spec => [](IInv /\ Held)
<1>1. Init => Held
  BY DEF Init, Held
<1>2. IInv /\ Held /\ [Next]_vars => Held'
  BY EveryQueueStep DEF QueueStepOK
<1>3. QED
  BY Invariance, <1>1, <1>2, PTL DEF Spec

(* Work that was queued when the Host died waits for the user: it is not        *)
(* promoted before a resume, and a resume takes a Session at rest.             *)
THEOREM HeldForUser == Spec => HeldUntilResumed
<1>1. IInv /\ Held /\ IInv' /\ Held' /\ [Next]_vars =>
        [\A w \in Work : status[w] = "queued" =>
           /\ session' = "unknown" /\ status'[w] = "queued" => paused'
           /\ status'[w] \in {"received", "requested"} => ~paused'
           /\ paused /\ ~paused' => NothingUnresolved]_vars
  BY EveryQueueStep DEF QueueStepOK, Held, Queued
<1>2. QED
  BY HeldInvariance, <1>1, PTL DEF Spec, HeldUntilResumed

(* Queued Inputs are rejected only for a reason, in any order of failures,      *)
(* drains and restarts, as long as no stream throws after its Input has ended. *)
THEOREM StopsForCause == ASSUME "streamError" \notin Faults PROVE Spec => QueueStopsForCause
<1>1. IInv /\ [Next]_vars =>
        [\A i \in Inputs : status[i] = "queued" /\ status'[i] = "rejected" =>
           \/ ~Eligible' \/ Unknown(status') # {}
           \/ \E j \in Inputs : pc[j] = "settle"]_vars
  BY EveryQueueStep DEF QueueStepOK, HasCause
<1>2. QED
  BY Invariance, <1>1, PTL DEF Spec, QueueStopsForCause

(* No wakeup is lost: an idle Session has no work that waits, unless a user     *)
(* reconciles an attached Session, which drains nothing.                      *)
THEOREM NotStranded == ASSUME "active" \notin ReconcileIn PROVE Spec => []QueueNotStranded
<1>1. Init => Awake
  BY DEF Init, Awake, Queued
<1>2. IInv /\ Held /\ Awake /\ [Next]_vars => Awake'
  BY EveryQueueStep DEF QueueStepOK
<1>3. Awake => QueueNotStranded
  BY DEF Awake, QueueNotStranded, Quiescent, NothingUnresolved, BusySession
<1>4. QED
  BY HeldInvariance, <1>1, <1>2, <1>3, PTL DEF Spec

-----------------------------------------------------------------------------
(* The order a send-now restores.                                            *)

(* A pending send-now knows the queue it found: the Input it moves, and the     *)
(* distinct positions of all.                                                 *)
Remembers ==
    urgent # None =>
       /\ urgent.input \in DOMAIN urgent.was /\ DOMAIN urgent.was \subseteq Inputs
       /\ \A j \in DOMAIN urgent.was : urgent.was[j] \in Int
       /\ \A j, l \in DOMAIN urgent.was : j # l => urgent.was[j] # urgent.was[l]

(* The pending send-now changes in its own steps only.                        *)
LEMMA UrgentSteps ==
    ASSUME [Next]_vars
    PROVE  \/ urgent' = urgent \/ urgent' = None
           \/ \E i \in Inputs : SendNowAsks(i)
           \/ SendNowMoves
<1>1. CASE HostCall
  BY <1>1 DEF HostCall, SubmitNow, SubmitQueued, CancelQueuedInput, SendIdleNow, MoveQueuedInput,
              ReconcileInput, ReconcileExecution, CompactAsk, FreezeTask, CloseTask, AbandonTask,
              RevokeAuthorization, RestoreTaskSession, ResumeQueuedInputs, procVars
<1>2. ASSUME NEW i \in Inputs, InputStep(i) \/ StreamStep(i) PROVE urgent' = urgent
  BY <1>2 DEF InputStep, Dispatch, DispatchRefused, RunStarted, RunRefused, RunUncertain,
              DrainSettles, StreamStep, EventAccepted, EventStarted, EventTerminal, EventUnknown,
              StreamEnds, StreamFails, procVars
<1>3. ASSUME NEW c \in Compacts, CompactStep(c) PROVE urgent' = urgent
  BY <1>3 DEF CompactStep, CompactAskFails, CompactQueued, CompactRequested, CompactDispatch,
              CompactRefused, CompactIncapable, CompactAccepted, CompactReceipt, CompactEnds, procVars
<1>4. CASE DrainAgain \/ SendNowStep
  BY <1>4 DEF DrainAgain, SendNowStep, SendNowFails, SendNowStops, SendNowTooLate, SendNowRestores
<1>5. ASSUME NEW w \in Work, NativeFinish(w) PROVE urgent' = urgent
  BY <1>5 DEF NativeFinish, procVars
<1>6. CASE Restart \/ UNCHANGED vars
  BY <1>6 DEF Restart, vars, procVars
<1>7. QED
  BY <1>1, <1>2, <1>3, <1>4, <1>5, <1>6 DEF Next

(* Which steps end a send-now that has moved its Input, by positions.          *)
LEMMA EndOfSendNow ==
    ASSUME IInv, [Next]_vars, urgent # None, urgent.moved, urgent' = None
    PROVE  \/ \A i \in Inputs : position'[i] = position[i]
           \/ exec[urgent.active] \in TerminalExecution
           \/ SendNowRestores
<1>1. CASE SendNowStep
  BY <1>1 DEF SendNowStep, SendNowMoves, SendNowFails, SendNowStops, SendNowTooLate, storeVars
<1>2. CASE Restart
  BY <1>2, ConstantAssumption DEF Restart, NativeCompacts, Work, ConstantAssumption
<1>3. urgent' # urgent
  OBVIOUS
<1>4. CASE HostCall
  BY <1>3, <1>4 DEF HostCall, SubmitNow, SubmitQueued, CancelQueuedInput, SendIdleNow,
              MoveQueuedInput, MaySendNow, SendNowAsks,
              ReconcileInput, ReconcileExecution, CompactAsk, FreezeTask, CloseTask, AbandonTask,
              RevokeAuthorization, RestoreTaskSession, ResumeQueuedInputs, procVars
<1>5. ASSUME NEW i \in Inputs, InputStep(i) \/ StreamStep(i) PROVE FALSE
  BY <1>3, <1>5 DEF InputStep, Dispatch, DispatchRefused, RunStarted, RunRefused, RunUncertain,
              DrainSettles, StreamStep, EventAccepted, EventStarted, EventTerminal, EventUnknown,
              StreamEnds, StreamFails, procVars
<1>6. ASSUME NEW c \in Compacts, CompactStep(c) PROVE FALSE
  BY <1>3, <1>6 DEF CompactStep, CompactAskFails, CompactQueued, CompactRequested, CompactDispatch,
              CompactRefused, CompactIncapable, CompactAccepted, CompactReceipt, CompactEnds, procVars
<1>7. ASSUME NEW w \in Work, NativeFinish(w) PROVE FALSE
  BY <1>3, <1>7 DEF NativeFinish, procVars
<1>8. ~DrainAgain /\ ~UNCHANGED vars
  BY <1>3 DEF DrainAgain, vars, procVars
<1>9. QED
  BY <1>1, <1>2, <1>4, <1>5, <1>6, <1>7, <1>8 DEF Next

LEMMA RemembersStep == IInv /\ QInv /\ Remembers /\ [Next]_vars => Remembers'
<1> SUFFICES ASSUME IInv, QInv, Remembers, [Next]_vars PROVE Remembers'
  OBVIOUS
<1>1. CASE urgent' = urgent \/ urgent' = None
  BY <1>1 DEF Remembers
<1>2. ASSUME NEW i \in Inputs, SendNowAsks(i) PROVE Remembers'
  <2>1. /\ i \in QueuedInputs(status) /\ QueuedInputs(status) \subseteq Inputs
        /\ \A j \in QueuedInputs(status) : position[j] \in Int
        /\ \A j, l \in QueuedInputs(status) : j # l => position[j] # position[l]
    <3>1. status[i] = "queued"
      BY <1>2 DEF SendNowAsks, MaySendNow
    <3>2. \A j \in Work : position[j] \in Int
      BY ConstantAssumption DEF IInv, TypeOK, Positions, NoPosition, ConstantAssumption
    <3>3. QED
      BY <3>1, <3>2 DEF QueuedInputs, Queued, Work, QInv, LineOK
  <2>2. PICK e \in LiveExecutions :
          urgent' = [input |-> i, active |-> e, moved |-> FALSE,
                     was |-> [j \in QueuedInputs(status) |-> position[j]]]
    BY <1>2 DEF SendNowAsks
  <2>3. urgent'.input = i /\ urgent'.was = [j \in QueuedInputs(status) |-> position[j]]
    BY <2>2
  <2>4. QED
    BY <2>1, <2>3 DEF Remembers
<1>3. CASE SendNowMoves
  <2>1. urgent # None /\ (urgent' = None \/ urgent' = [urgent EXCEPT !.moved = TRUE])
    BY <1>3 DEF SendNowMoves
  <2>2. urgent \in [input : Inputs, active : Inputs, moved : BOOLEAN,
                    was : UNION {[Q -> Positions \cup {NoPosition}] : Q \in SUBSET Inputs}]
    BY <2>1 DEF IInv, TypeOK
  <2>3. urgent' = None \/ (urgent'.input = urgent.input /\ urgent'.was = urgent.was)
    BY <2>1, <2>2
  <2>4. QED
    BY <2>1, <2>3 DEF Remembers
<1>4. QED
  BY <1>1, <1>2, <1>3, UrgentSteps

(* What is known when the Input i has been moved to the front of Q, from the    *)
(* positions was to po, and moved back before its old successor b, to new.     *)
MovedThereAndBack(Q, i, was, po, new, b) ==
    /\ i \in Q /\ b \in Q \cup {None} /\ None \notin Q
    /\ \A j \in Q : was[j] \in Int /\ po[j] \in Int /\ new[j] \in Int
    /\ \A j, l \in Q : j # l => was[j] # was[l]
    /\ \A j, l \in Q : j # l =>
          (po[j] < po[l] <=> j = i \/ (l # i /\ was[j] < was[l]))
    /\ IF b = None THEN \A j \in Q : was[j] <= was[i]
       ELSE was[i] < was[b] /\ \A j \in Q : was[j] <= was[i] \/ was[b] <= was[j]
    /\ \A j, l \in Q : j # l => (new[j] < new[l] <=>
          IF j = i THEN b # None /\ po[l] >= po[b]
          ELSE IF l = i THEN b = None \/ po[j] < po[b] ELSE po[j] < po[l])

SameOrder(Q, was, new) == \A j, l \in Q : new[j] < new[l] <=> was[j] < was[l]

(* Moving the Input back before its old successor gives the old order.         *)
LEMMA MovedBackOrder ==
    ASSUME NEW Q, NEW i, NEW was, NEW po, NEW new, NEW b,
           MovedThereAndBack(Q, i, was, po, new, b)
    PROVE  SameOrder(Q, was, new)
<1> USE DEF MovedThereAndBack
<1> SUFFICES ASSUME NEW j \in Q, NEW l \in Q PROVE new[j] < new[l] <=> was[j] < was[l]
  BY DEF SameOrder
<1>1. CASE j = l
  BY <1>1
<1>2. CASE j # l /\ j = i /\ b = None
  BY <1>2
<1>3. CASE j # l /\ j = i /\ b # None
  <2>1. b \in Q /\ b # i
    BY <1>3
  <2>2. new[j] < new[l] <=> ~(po[l] < po[b])
    BY <1>3, <2>1
  <2>3. l # b => (po[l] < po[b] <=> was[l] < was[b])
    BY <1>3, <2>1
  <2>4. QED
    BY <1>3, <2>1, <2>2, <2>3
<1>4. CASE j # l /\ l = i /\ b = None
  BY <1>4
<1>5. CASE j # l /\ l = i /\ b # None
  <2>1. b \in Q /\ b # i
    BY <1>5
  <2>2. new[j] < new[l] <=> po[j] < po[b]
    BY <1>5, <2>1
  <2>3. j # b => (po[j] < po[b] <=> was[j] < was[b])
    BY <1>5, <2>1
  <2>4. QED
    BY <1>5, <2>1, <2>2, <2>3
<1>6. CASE j # l /\ j # i /\ l # i
  BY <1>6
<1>7. QED
  BY <1>1, <1>2, <1>3, <1>4, <1>5, <1>6

LEMMA RestoresOrder ==
    ASSUME IInv, Remembers, SendNowRestores, \E i \in Inputs : position'[i] # position[i]
    PROVE  /\ QueuedInputs(status) = DOMAIN urgent.was
           /\ \A i, j \in QueuedInputs(status) :
                position'[i] < position'[j] <=> urgent.was[i] < urgent.was[j]
<1> DEFINE u == urgent
           Q == DOMAIN u.was
<1>1. urgent # None /\ QueueAsMoved(u) /\ position' \in MovedBack(u)
  BY DEF SendNowRestores
<1>2. /\ QueuedInputs(status) = Q
      /\ \A j, l \in Q : j # l => (position[j] < position[l] <=>
            j = u.input \/ (l # u.input /\ u.was[j] < u.was[l]))
  BY <1>1 DEF QueueAsMoved
<1>3. /\ u.input \in Q /\ Q \subseteq Inputs /\ \A j \in Q : u.was[j] \in Int
      /\ \A j, l \in Q : j # l => u.was[j] # u.was[l]
  BY <1>1 DEF Remembers
<1>4. PICK b \in Q \cup {None} :
        /\ IF b = None THEN \A j \in Q : u.was[j] <= u.was[u.input]
           ELSE u.was[u.input] < u.was[b] /\
                \A j \in Q : u.was[j] <= u.was[u.input] \/ u.was[b] <= u.was[j]
        /\ position' \in Reordered(u.input, b)
  BY <1>1 DEF MovedBack
<1>5. None \notin Q /\ b # u.input
  BY <1>3, <1>4, ConstantAssumption DEF ConstantAssumption, Work
<1>6. PICK new \in [Q -> Positions] :
        /\ IsReorder(new, u.input, b)
        /\ position' = [w \in Work |-> IF w \in Q THEN new[w] ELSE position[w]]
  BY <1>2, <1>4, <1>5 DEF Reordered
<1>7. \A j, l \in Q : j # l => (new[j] < new[l] <=>
         IF j = u.input THEN b # None /\ position[l] >= position[b]
         ELSE IF l = u.input THEN b = None \/ position[j] < position[b]
         ELSE position[j] < position[l])
  BY <1>2, <1>6 DEF IsReorder
<1>8. \A j \in Q : new[j] \in Int /\ position[j] \in Int /\ position'[j] = new[j]
  BY <1>3, <1>6, ConstantAssumption
     DEF IInv, TypeOK, Positions, NoPosition, ConstantAssumption, Work
<1> HIDE DEF Q, u
<1>9. MovedThereAndBack(Q, u.input, u.was, position, new, b)
  <2>1. u.input \in Q /\ b \in Q \cup {None} /\ None \notin Q
    BY <1>3, <1>4, <1>5
  <2>2. /\ \A j \in Q : u.was[j] \in Int /\ position[j] \in Int /\ new[j] \in Int
        /\ \A j, l \in Q : j # l => u.was[j] # u.was[l]
    BY <1>3, <1>8
  <2>3. QED
    BY <1>2, <1>4, <1>7, <2>1, <2>2 DEF MovedThereAndBack
<1>10. SameOrder(Q, u.was, new)
  BY <1>9, MovedBackOrder
<1>11. \A j, l \in Q : position'[j] < position'[l] <=> u.was[j] < u.was[l]
  BY <1>8, <1>10 DEF SameOrder
<1>12. QED
  BY <1>2, <1>11 DEF Q, u

(* A send-now that did not stop the turn puts back the order it found, and only *)
(* if the Inputs it found still wait: later comers are never disturbed.        *)
THEOREM SendNowUndone == Spec => SendNowIsUndone
<1>1. Init => Remembers
  BY DEF Init, Remembers
<1>2. IInv /\ Remembers /\ [Next]_vars =>
        [urgent # None /\ urgent.moved /\ urgent' = None
           /\ exec[urgent.active] \notin TerminalExecution
           /\ (\E i \in Inputs : position'[i] # position[i]) =>
           /\ QueuedInputs(status) = DOMAIN urgent.was
           /\ \A i, j \in QueuedInputs(status) :
                position'[i] < position'[j] <=> urgent.was[i] < urgent.was[j]]_vars
  BY EndOfSendNow, RestoresOrder
<1>3. QED
  BY QueueInvariance, RemembersStep, <1>1, <1>2, PTL DEF Spec, SendNowIsUndone
================================================================================
