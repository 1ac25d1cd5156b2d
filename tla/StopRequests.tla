----------------------------- MODULE StopRequests -----------------------------
(***************************************************************************)
(* Stop requests for one native Execution.  A request to stop is a record  *)
(* of its own beside the Execution: whether it was delivered is told by    *)
(* the receipt of the command and by the notices of the stream, whether it *)
(* was obeyed only by the end of the Execution.  Receipt, notices, the end *)
(* of the Execution, its reconciliation and a restart of the Host come in  *)
(* any order, and each merges what it knows into the record.               *)
(***************************************************************************)
EXTENDS Naturals

CONSTANTS MaxRequests, \* bound: stop requests recorded by the caller
          Notices      \* interruption events that this Engine emits

(* The other notices of the contract say no more than a refusal or than none. *)
(* The notice of a refusal is read before its receipt, unless the notices of  *)
(* this Engine may be late.                                                   *)
ASSUME StopAssumption ==
    /\ MaxRequests \in Nat
    /\ Notices \subseteq {"requested", "unsupported", "late"}

(* A stop that nobody requested adds one more record.                         *)
Requests == 1..(MaxRequests + 1)

Terminal == {"completed", "failed", "stopped"}
Unresolved == {"requested", "unknown"}
Refusals == {"unsupported", "temporarily-unavailable", "authorization-required"}

VARIABLES
    exec,     \* the Execution as stored; accepted and started are "live"
    count,    \* the stop requests recorded so far are 1..count, oldest first
    status,   \* StopStatus of each, "none" if not recorded
    delivery, \* its deliveryStatus
    call,     \* where requestStop waits; its command lock is held unless idle
    mine,     \* the request of that call, 0 if not recorded yet
    stream,   \* the events of the Execution are being read
    notice,   \* the notice about each request that the stream still holds
    attached, \* this process has the native Session
    permit,   \* the Host's authorization is current
    native,   \* what the Execution really does
    reached   \* the requests whose interrupt the Engine really got

storeVars == <<exec, count, status, delivery>>
callVars == <<call, mine>>
hostVars == <<stream, notice, attached, permit>>
engineVars == <<native, reached>>
vars == <<storeVars, callVars, hostVars, engineVars>>

Init ==
    /\ exec = "live" /\ count = 0
    /\ status = [r \in Requests |-> "none"]
    /\ delivery = [r \in Requests |-> "none"]
    /\ call = "idle" /\ mine = 0
    /\ stream = TRUE /\ notice = [r \in Requests |-> "none"]
    /\ attached = TRUE /\ permit = TRUE
    /\ native = "running" /\ reached = {}

-----------------------------------------------------------------------------
(* The records.                                                              *)

Record(s, d) ==
    /\ count' = count + 1
    /\ status' = [status EXCEPT ![count + 1] = s]
    /\ delivery' = [delivery EXCEPT ![count + 1] = d]

(* Faulty variant: a request whose result is unknown may be repeated.         *)
MayAskAgain ==
    /\ permit /\ exec \notin Terminal
    /\ \A r \in Requests : status[r] # "requested"

(* One request at a time, and none for an Execution that has ended.           *)
MayAsk ==
    /\ permit /\ exec \notin Terminal
    /\ \A r \in Requests : status[r] \notin Unresolved

(* mergeStopDelivery: a delivery once proved stays proved.                    *)
MergeStopDelivery(current, incoming) ==
    IF current = "not-requested" THEN current
    ELSE IF "delivered" \in {current, incoming} THEN "delivered"
    ELSE IF incoming = "pending" THEN current
    ELSE incoming

(* Faulty variant: a promise without evidence counts as delivery.             *)
TrustingDelivery(s, evidence) ==
    IF s = "requested" THEN "delivered" ELSE IF s \in Refusals THEN "not-delivered" ELSE "unknown"

(* mapStopDelivery and mapStopEventDelivery: delivery needs the Engine's      *)
(* evidence.                                                                  *)
MapStopDelivery(s, evidence) ==
    IF s = "requested" /\ evidence THEN "delivered"
    ELSE IF s \in Refusals THEN "not-delivered"
    ELSE "unknown"

(* Also the faulty variant that leaves no record of a stop nobody requested.  *)
ConfirmUnresolved ==
    /\ status' = [r \in Requests |-> IF status[r] \in Unresolved THEN "confirmed" ELSE status[r]]
    /\ UNCHANGED <<count, delivery>>

(* confirmStopRequests: evidence that the Execution stopped confirms every    *)
(* unresolved request, or leaves a record that nobody requested it.           *)
ConfirmStopRequests ==
    IF \A r \in Requests : status[r] \notin Unresolved \cup {"confirmed"}
    THEN Record("confirmed", "not-requested")
    ELSE ConfirmUnresolved

(* markStopRequestsUnconfirmed.                                               *)
MarkStopRequestsUnconfirmed ==
    /\ status' = [r \in Requests |-> IF status[r] \in Unresolved THEN "unknown" ELSE status[r]]
    /\ delivery' = [r \in Requests |->
         IF status[r] \in Unresolved /\ delivery[r] = "pending" THEN "unknown" ELSE delivery[r]]
    /\ UNCHANGED count

-----------------------------------------------------------------------------
(* requestStop.  A call that it refuses changes nothing and is left out.      *)

(* The native Session is attached: the call awaits a capability check.        *)
StopAsked ==
    /\ call = "idle" /\ MayAsk /\ attached /\ count < MaxRequests
    /\ call' = "probe"
    /\ UNCHANGED <<storeVars, mine, hostVars, engineVars>>

(* It is not: nothing can be sent, and the request is recorded as such.       *)
StopUnattached ==
    /\ call = "idle" /\ MayAsk /\ ~attached /\ count < MaxRequests
    /\ Record("unknown", "not-delivered")
    /\ UNCHANGED <<exec, callVars, hostVars, engineVars>>

(* After the check the caller is qualified again and the request recorded.    *)
StopRecorded ==
    /\ call = "probe" /\ permit /\ exec \notin Terminal
    /\ Record("requested", "pending")
    /\ call' = "adapter" /\ mine' = count + 1
    /\ UNCHANGED <<exec, hostVars, engineVars>>

(* The check fails, the authorization is gone or the Execution has ended.     *)
StopDropped ==
    /\ call = "probe"
    /\ call' = "idle"
    /\ UNCHANGED <<storeVars, mine, hostVars, engineVars>>

(* beforeStopDispatch, which the adapter evaluates last thing before it sends. *)
BeforeStopDispatch == permit /\ attached /\ exec \notin Terminal

(* The interrupt is sent and gets to the Engine or is lost.  The Engine may   *)
(* tell the stream that it has a request.                                     *)
StopSent ==
    /\ call = "adapter" /\ BeforeStopDispatch
    /\ call' = "sent"
    /\ \/ UNCHANGED <<reached, notice>>
       \/ /\ reached' = reached \cup {mine}
          /\ \/ UNCHANGED notice
             \/ /\ "requested" \in Notices /\ native = "running"
                /\ notice' = [notice EXCEPT ![mine] = "requested"]
    /\ UNCHANGED <<storeVars, mine, stream, attached, permit, native>>

(* Or the Engine finds that it cannot interrupt, and tells the stream before   *)
(* it answers the call.                                                       *)
StopFoundUnsupported ==
    /\ call = "adapter" /\ "unsupported" \in Notices
    /\ call' = "refusing"
    /\ notice' = [notice EXCEPT ![mine] = "unsupported"]
    /\ UNCHANGED <<storeVars, mine, stream, attached, permit, engineVars>>

(* Faulty variant: what the Execution has come to meanwhile is not looked at. *)
AnswerAsGiven(s) == s

(* The status that the answer s leaves: a confirmed stop stays confirmed, and *)
(* an answer that comes after the end of the Execution proves nothing.        *)
Answered(s) ==
    IF status[mine] = "confirmed" THEN "confirmed"
    ELSE IF exec \in Terminal THEN "unknown"
    ELSE s

Answer(s, d) ==
    /\ status' = [status EXCEPT ![mine] = Answered(s)]
    /\ delivery' = [delivery EXCEPT ![mine] = MergeStopDelivery(@, d)]
    /\ call' = "idle" /\ mine' = 0
    /\ UNCHANGED <<exec, count, hostVars, engineVars>>

(* No notice of this request is still to be applied.                          *)
NoticeIsRead == notice[mine] = "none" \/ ~stream \/ exec \in Terminal

(* The adapter answers or throws before it has sent anything.                 *)
StopRefused ==
    \/ /\ call = "adapter"
       /\ \/ \E s \in Refusals \cup {"unknown"} : Answer(s, "not-delivered")
          \/ Answer("unknown", MapStopDelivery("unknown", FALSE))
    \/ /\ call = "refusing" /\ (NoticeIsRead \/ "late" \in Notices)
       /\ Answer("unsupported", MapStopDelivery("unsupported", FALSE))

(* A receipt: the Engine's evidence shows that it has the interrupt, a        *)
(* refusal that it has not.                                                   *)
StopReceipt ==
    /\ call = "sent"
    /\ \/ mine \in reached /\ Answer("requested", MapStopDelivery("requested", TRUE))
       \/ Answer("requested", MapStopDelivery("requested", FALSE))
       \/ /\ mine \notin reached
          /\ \E s \in Refusals : Answer(s, MapStopDelivery(s, FALSE))
       \/ Answer("unknown", MapStopDelivery("unknown", FALSE))

(* An error that leaves open whether the interrupt was sent.                  *)
StopUncertain == call = "sent" /\ Answer("unknown", "unknown")

-----------------------------------------------------------------------------
(* The events of the stream and what else changes the Execution.              *)

ExecUnknown == IF exec \in Terminal THEN exec ELSE "unknown"

(* An interruption-requested event names no request: it is applied to the     *)
(* latest one, unless nobody requested that.                                  *)
EventInterruptionRequested(r) ==
    /\ stream /\ exec \notin Terminal
    /\ notice[r] # "none" /\ \A q \in Requests : q < r => notice[q] = "none"
    /\ notice' = [notice EXCEPT ![r] = "none"]
    /\ \/ /\ count > 0 /\ delivery[count] # "not-requested"
          /\ status' = [status EXCEPT ![count] = IF @ = "confirmed" THEN @ ELSE notice[r]]
          /\ delivery' = [delivery EXCEPT ![count] =
               MergeStopDelivery(@, MapStopDelivery(notice[r], TRUE))]
       \/ /\ ~(count > 0 /\ delivery[count] # "not-requested")
          /\ UNCHANGED <<status, delivery>>
    /\ UNCHANGED <<exec, count, callVars, stream, attached, permit, engineVars>>

EventStarted ==
    /\ stream /\ exec = "unknown"
    /\ exec' = "live"
    /\ UNCHANGED <<count, status, delivery, callVars, hostVars, engineVars>>

(* The end of the Execution, by an event or by reconciliation.                *)
Ends ==
    /\ native \in Terminal
    /\ exec' = native
    /\ IF native = "stopped" THEN ConfirmStopRequests ELSE MarkStopRequestsUnconfirmed
    /\ UNCHANGED <<callVars, hostVars, engineVars>>

(* Terminal evidence, which follows the notices in the stream.                *)
EventTerminal ==
    /\ stream /\ exec \notin Terminal
    /\ \A r \in Requests : notice[r] = "none"
    /\ Ends

EventUnknown ==
    /\ stream /\ exec \notin Terminal
    /\ exec' = "unknown"
    /\ MarkStopRequestsUnconfirmed
    /\ UNCHANGED <<callVars, hostVars, engineVars>>

(* An event without evidence, or the end of the stream: only the Execution    *)
(* becomes unknown, its stop requests stay as they are.                       *)
EventUnmatched ==
    /\ stream
    /\ exec' = ExecUnknown
    /\ UNCHANGED <<count, status, delivery, callVars, hostVars, engineVars>>

StreamEnds ==
    /\ stream /\ stream' = FALSE
    /\ exec' = ExecUnknown
    /\ UNCHANGED <<count, status, delivery, callVars, notice, attached, permit, engineVars>>

(* reconcileExecution learns the native outcome.  Without one nothing changes. *)
Reconcile == exec = "unknown" /\ permit /\ Ends

(* The Engine ends the Execution, asked or not.                               *)
NativeEnds ==
    /\ native = "running"
    /\ native' \in Terminal
    /\ UNCHANGED <<storeVars, callVars, hostVars, reached>>

Revoke ==
    /\ permit /\ permit' = FALSE
    /\ UNCHANGED <<storeVars, callVars, stream, notice, attached, engineVars>>

(* The Host restarts: its calls, its streams and its hold on the native       *)
(* Session are gone.  The Session is not attached again before the Execution  *)
(* has ended, and stop requests are not recovered.                            *)
Restart ==
    /\ attached
    /\ exec' = ExecUnknown
    /\ call' = "idle" /\ mine' = 0
    /\ stream' = FALSE /\ attached' = FALSE
    /\ notice' = [r \in Requests |-> "none"]
    /\ UNCHANGED <<count, status, delivery, permit, engineVars>>

RequestStop ==
    \/ StopAsked \/ StopUnattached \/ StopRecorded \/ StopDropped
    \/ StopSent \/ StopFoundUnsupported
    \/ StopRefused \/ StopReceipt \/ StopUncertain

Events ==
    \/ \E r \in Requests : EventInterruptionRequested(r)
    \/ EventStarted \/ EventTerminal \/ EventUnknown \/ EventUnmatched \/ StreamEnds

Next == RequestStop \/ Events \/ Reconcile \/ NativeEnds \/ Revoke \/ Restart

Spec == Init /\ [][Next]_vars

-----------------------------------------------------------------------------
(* Properties.                                                               *)

(* The types of the variables.                                                *)
StopTypeOK ==
    /\ exec \in {"live", "unknown"} \cup Terminal
    /\ count \in 0..(MaxRequests + 1)
    /\ status \in [Requests -> {"none", "confirmed"} \cup Unresolved \cup Refusals]
    /\ delivery \in [Requests -> {"none", "pending", "delivered", "not-delivered",
                                  "unknown", "not-requested"}]
    /\ call \in {"idle", "probe", "adapter", "refusing", "sent"}
    /\ mine \in 0..(MaxRequests + 1)
    /\ stream \in BOOLEAN /\ attached \in BOOLEAN /\ permit \in BOOLEAN
    /\ notice \in [Requests -> {"none"} \cup Notices]
    /\ native \in {"running"} \cup Terminal
    /\ reached \subseteq Requests

(* A stop is confirmed exactly when the Execution is known to have stopped,   *)
(* and by exactly one record, whoever stopped it and in whatever order the    *)
(* receipt, the notices and the end arrive ("native stop evidence before      *)
(* interrupt ACK keeps one confirmed StopRequest").                           *)
StoppedHasOneConfirmation ==
    /\ \A r \in Requests : status[r] = "confirmed" => exec = "stopped" /\ native = "stopped"
    /\ exec = "stopped" =>
         \E r \in Requests : /\ status[r] = "confirmed"
                             /\ \A q \in Requests : status[q] = "confirmed" => q = r

(* Once the Execution has ended no request still claims to be under way,      *)
(* though its receipt may come much later.                                    *)
NothingRequestedOfTheEnded ==
    exec \in Terminal => \A r \in Requests : status[r] # "requested"

(* What a record says of its delivery is what happened: "delivered" if the    *)
(* Engine got the interrupt, "not-delivered" if it did not.  sendQueuedInputNow *)
(* restores the order of the queue because of the latter.                     *)
DeliveryIsTrue ==
    \A r \in Requests :
       /\ delivery[r] = "delivered" => r \in reached
       /\ delivery[r] \in {"not-delivered", "not-requested"} => r \notin reached

(* The record of a request is true: of its delivery always, of its being under *)
(* way once the Execution has ended.                                          *)
RecordsTellTheTruth == DeliveryIsTrue /\ NothingRequestedOfTheEnded

(* An Execution is interrupted at most once: neither a lost receipt, nor an   *)
(* unknown result, nor a restart lets a second request be sent.               *)
InterruptedOnce == \A q, r \in reached : q = r

(* No interrupt is sent under a revoked authorization, from a Host without    *)
(* the Session, or for an Execution that is known to have ended while the     *)
(* call was waiting.                                                          *)
StopsAreQualified ==
    [][call' = "sent" /\ call # "sent" => permit /\ attached /\ exec \notin Terminal]_vars

(* A confirmation and a proof of delivery survive whatever comes later, a late *)
(* receipt and a restart included.                                            *)
EvidenceIsKept ==
    [][\A r \in Requests :
         /\ status[r] = "confirmed" => status'[r] = "confirmed"
         /\ delivery[r] = "delivered" => delivery'[r] = "delivered"]_vars

=============================================================================
