----------------------------- MODULE Interactions -----------------------------
(***************************************************************************)
(* The approvals and questions of one native Execution.  A request arrives *)
(* in the stream and is answered by the caller of this Host, by someone    *)
(* else, or by nobody before it expires.  The receipt of the reply, the    *)
(* Engine's own notice of the answer, the end of the Execution and a       *)
(* restart of the Host come in any order.                                  *)
(***************************************************************************)
EXTENDS Naturals

CONSTANTS Approvals, Questions

ASSUME InteractionAssumption == Approvals \cap Questions = {}

Requests == Approvals \cup Questions
Terminal == {"ended", "reconciled"}
Receipts == {"forwarded", "expired", "already-answered", "unsupported", "unknown"}
Responses == Receipts \cup {"rejected"}

VARIABLES
    exec,     \* the Execution as stored; how it became terminal is told apart
    status,   \* status of each record, "none" before it exists
    answer,   \* repliedOptionId or response: whose answer is recorded
    call,     \* where replyToApproval or replyToUserInput waits, under its lock
    due,      \* the requests whose expiresAt has passed
    stream,   \* the events of the Execution are being read
    attached, \* this process has the native Session
    permit,   \* the Host's authorization is current
    over,     \* the native Execution has ended
    native,   \* what the Engine knows: not asked, open, or whose answer it took
    told,     \* the last event about each request that was applied
    sends,    \* how often a reply was sent, up to 2
    acked     \* the requests whose reply was receipted, and recorded, as forwarded

recordVars == <<status, answer>>
hostVars == <<stream, attached, permit>>
engineVars == <<over, native>>
traceVars == <<sends, acked>>
vars == <<exec, recordVars, call, due, hostVars, engineVars, told, traceVars>>

Init ==
    /\ exec = "live"
    /\ status = [k \in Requests |-> "none"]
    /\ answer = [k \in Requests |-> "none"]
    /\ call = [k \in Requests |-> "idle"]
    /\ due = {} /\ stream = TRUE /\ attached = TRUE /\ permit = TRUE
    /\ over = FALSE /\ native = [k \in Requests |-> "none"]
    /\ told = [k \in Requests |-> "none"]
    /\ sends = [k \in Requests |-> 0] /\ acked = {}

-----------------------------------------------------------------------------
(* The reply.  A call that is refused at once changes nothing and is left out. *)

Goes(k, from, to) == call[k] = from /\ call' = [call EXCEPT ![k] = to]

(* The call has its lock and awaits a capability check.                       *)
ReplyAsked(k) ==
    /\ status[k] = "pending" /\ permit /\ attached
    /\ Goes(k, "idle", "probe")
    /\ UNCHANGED <<exec, recordVars, due, hostVars, engineVars, told, traceVars>>

(* Faulty variant: the expiry is not read again when the reply is sent.        *)
BeforeDispatchOnce(k) ==
    /\ permit /\ attached /\ status[k] = "pending" /\ exec \notin Terminal
    /\ call[k] = "probe" => k \notin due

(* beforeDispatch: the caller and the record as they are now.                 *)
BeforeDispatch(k) ==
    permit /\ attached /\ status[k] = "pending" /\ k \notin due /\ exec \notin Terminal

(* It is evaluated after the check, and again by the adapter.                 *)
ReplyChecked(k) ==
    /\ BeforeDispatch(k)
    /\ Goes(k, "probe", "adapter")
    /\ UNCHANGED <<exec, recordVars, due, hostVars, engineVars, told, traceVars>>

(* A guard that finds the request expired or its Execution finished records it; *)
(* the adapter's evaluation records the expiry only.                          *)
ReplyExpired(k) ==
    /\ permit /\ status[k] = "pending" /\ k \in due
    /\ Goes(k, "probe", "idle") \/ (attached /\ Goes(k, "adapter", "idle"))
    /\ status' = [status EXCEPT ![k] = "expired"]
    /\ UNCHANGED <<exec, answer, due, hostVars, engineVars, told, traceVars>>

ReplyTooLate(k) ==
    /\ permit /\ status[k] = "pending" /\ k \notin due /\ exec \in Terminal
    /\ Goes(k, "probe", "idle")
    /\ status' = [status EXCEPT ![k] = "rejected"]
    /\ UNCHANGED <<exec, answer, due, hostVars, engineVars, told, traceVars>>

(* The call fails for another reason before anything is sent.                 *)
ReplyDropped(k) ==
    /\ Goes(k, "probe", "idle") \/ Goes(k, "adapter", "idle")
    /\ UNCHANGED <<exec, recordVars, due, hostVars, engineVars, told, traceVars>>

(* The reply is sent; the Engine takes it if nobody was faster, or it is lost. *)
ReplySent(k) ==
    /\ BeforeDispatch(k)
    /\ Goes(k, "adapter", "sent")
    /\ sends' = [sends EXCEPT ![k] = IF @ = 2 THEN 2 ELSE @ + 1]
    /\ \/ UNCHANGED native
       \/ /\ native[k] = "open" /\ ~over
          /\ native' = [native EXCEPT ![k] = "mine"]
    /\ UNCHANGED <<exec, recordVars, due, hostVars, over, told, acked>>

(* What a receipt may say, given what the Engine knows.                       *)
ReceiptIsTrue(k, r) ==
    /\ r = "forwarded" => native[k] = "mine"
    /\ r = "already-answered" => native[k] = "other"
    /\ r \in {"expired", "unsupported"} => native[k] # "mine"

(* Faulty variant: the receipt has the last word.                              *)
ReceiptWins(k, r) ==
    /\ status' = [status EXCEPT ![k] = r]
    /\ answer' = [answer EXCEPT ![k] = "mine"]

(* Faulty variant: a reply whose result is unknown may be repeated.             *)
ReceiptIfKnown(k, r) == IF r = "unknown" THEN UNCHANGED <<status, answer>> ELSE ReceiptWins(k, r)

(* The receipt settles a pending record.  A question that a notice settled     *)
(* first still gets the caller's answer if the notice had none.               *)
MergeReceipt(k, r) ==
    LET settled == IF status[k] = "pending" THEN r ELSE status[k]
        takes == IF k \in Approvals
                 THEN status[k] = "pending"
                 ELSE answer[k] = "none" /\ r = "forwarded" /\ settled = "forwarded"
    IN /\ status' = [status EXCEPT ![k] = settled]
       /\ answer' = IF takes THEN [answer EXCEPT ![k] = "mine"] ELSE answer

ReplyReceipt(k) ==
    \E r \in Receipts :
       /\ ReceiptIsTrue(k, r)
       /\ Goes(k, "sent", "idle")
       /\ MergeReceipt(k, r)
       /\ acked' = IF r = "forwarded" /\ status'[k] = "forwarded" THEN acked \cup {k} ELSE acked
       /\ UNCHANGED <<exec, due, hostVars, engineVars, told, sends>>

-----------------------------------------------------------------------------
(* The events of the stream.  One that changes nothing is left out.           *)

(* approval.requested, user-input.requested.                                  *)
EventRequested(k) ==
    /\ stream /\ exec \notin Terminal
    /\ native[k] # "none" /\ told[k] = "none"
    /\ told' = [told EXCEPT ![k] = "requested"]
    /\ status' = [status EXCEPT ![k] = "pending"]
    /\ UNCHANGED <<exec, answer, call, due, hostVars, engineVars, traceVars>>

(* What a response event may say, given what the Engine knows.  One that is   *)
(* unknown or unsupported says nothing of the answer.                         *)
ResponseIsTrue(k, s) ==
    /\ s \in {"forwarded", "rejected", "already-answered"} => native[k] \in {"mine", "other"}
    /\ s = "expired" => native[k] = "expired"

(* The answers it may leave on record.  The response to an approval names an   *)
(* option whatever its status; that to a question carries the answer that was *)
(* taken, a refusal included, or nothing.                                     *)
Named(k, s) ==
    IF k \in Questions THEN {answer[k]} \cup ({native[k]} \cap {"mine", "other"})
    ELSE IF s \in {"forwarded", "rejected"} THEN {native[k]}
    ELSE {"mine", "other"}

(* While the Execution lives the last response has the last word, also over a *)
(* status that was known before.                                              *)
Answered(k, s) ==
    /\ status' = [status EXCEPT ![k] = s]
    /\ \E a \in Named(k, s) : answer' = [answer EXCEPT ![k] = a]

(* applyLateEngineConfirmedUserInputResponse: after the end only the answer to *)
(* a question that has none is still recorded.                                *)
LateAnswer(k, s) ==
    /\ k \in Questions /\ answer[k] = "none" /\ s = "forwarded"
    /\ status' = [status EXCEPT ![k] = s]
    /\ answer' = [answer EXCEPT ![k] = native[k]]

(* approval.response, user-input.response; there may be several.              *)
EventResponse(k) ==
    /\ stream /\ told[k] # "none"
    /\ \E s \in Responses :
          /\ ResponseIsTrue(k, s)
          /\ IF exec \in Terminal THEN LateAnswer(k, s) ELSE Answered(k, s)
          /\ told' = [told EXCEPT ![k] = s]
    /\ UNCHANGED <<exec, call, due, hostVars, engineVars, traceVars>>

(* Faulty variant: the end of the Execution leaves its requests open.          *)
LeavePending == UNCHANGED status

(* rejectPendingInteractions.                                                 *)
RejectPendingInteractions ==
    status' = [k \in Requests |-> IF status[k] = "pending" THEN "rejected" ELSE status[k]]

EventTerminal ==
    /\ stream /\ over /\ exec \notin Terminal
    /\ exec' = "ended"
    /\ RejectPendingInteractions
    /\ UNCHANGED <<answer, call, due, hostVars, engineVars, told, traceVars>>

(* An event without evidence; the end of the stream.                          *)
EventUnmatched ==
    /\ stream /\ exec = "live" /\ exec' = "unknown"
    /\ UNCHANGED <<recordVars, call, due, hostVars, engineVars, told, traceVars>>

StreamEnds ==
    /\ stream /\ stream' = FALSE
    /\ exec' = IF exec = "live" THEN "unknown" ELSE exec
    /\ UNCHANGED <<recordVars, call, due, attached, permit, engineVars, told, traceVars>>

(* reconcileExecution with a terminal outcome.                                *)
Reconcile ==
    /\ exec = "unknown" /\ permit /\ over
    /\ exec' = "reconciled"
    /\ UNCHANGED <<recordVars, call, due, hostVars, engineVars, told, traceVars>>

-----------------------------------------------------------------------------
(* The Engine, the clock and the Host.                                        *)

NativeRequest(k) ==
    /\ ~over /\ native[k] = "none"
    /\ native' = [native EXCEPT ![k] = "open"]
    /\ UNCHANGED <<exec, recordVars, call, due, hostVars, over, told, traceVars>>

(* Somebody else answers, or the Engine gives up waiting.                     *)
NativeSettles(k) ==
    /\ ~over /\ native[k] = "open"
    /\ \E a \in {"other", "expired"} : native' = [native EXCEPT ![k] = a]
    /\ UNCHANGED <<exec, recordVars, call, due, hostVars, over, told, traceVars>>

NativeEnds ==
    /\ ~over /\ over' = TRUE
    /\ UNCHANGED <<exec, recordVars, call, due, hostVars, native, told, traceVars>>

(* The clock of the Host passes expiresAt.                                    *)
Expires(k) ==
    /\ status[k] = "pending" /\ k \notin due
    /\ due' = due \cup {k}
    /\ UNCHANGED <<exec, recordVars, call, hostVars, engineVars, told, traceVars>>

Revoke ==
    /\ permit /\ permit' = FALSE
    /\ UNCHANGED <<exec, recordVars, call, due, stream, attached, engineVars, told, traceVars>>

(* The Host restarts; the Session is attached again once nothing runs in it.  *)
Restart ==
    /\ attached
    /\ attached' = FALSE /\ stream' = FALSE
    /\ call' = [k \in Requests |-> "idle"]
    /\ exec' = IF exec = "live" THEN "unknown" ELSE exec
    /\ UNCHANGED <<recordVars, due, permit, engineVars, told, traceVars>>

RestoreSession ==
    /\ ~attached /\ permit /\ exec \in Terminal
    /\ attached' = TRUE
    /\ UNCHANGED <<exec, recordVars, call, due, stream, permit, engineVars, told, traceVars>>

Reply(k) ==
    \/ ReplyAsked(k) \/ ReplyChecked(k) \/ ReplyExpired(k) \/ ReplyTooLate(k)
    \/ ReplyDropped(k) \/ ReplySent(k) \/ ReplyReceipt(k)

Next ==
    \/ \E k \in Requests :
         \/ Reply(k) \/ EventRequested(k) \/ EventResponse(k)
         \/ NativeRequest(k) \/ NativeSettles(k) \/ Expires(k)
    \/ EventTerminal \/ EventUnmatched \/ StreamEnds \/ Reconcile
    \/ NativeEnds \/ Revoke \/ Restart \/ RestoreSession

Spec == Init /\ [][Next]_vars

-----------------------------------------------------------------------------
(* Properties.                                                               *)

(* The types of the variables.                                                *)
InteractionsTypeOK ==
    /\ exec \in {"live", "unknown"} \cup Terminal
    /\ status \in [Requests -> {"none", "pending"} \cup Responses]
    /\ answer \in [Requests -> {"none", "mine", "other"}]
    /\ call \in [Requests -> {"idle", "probe", "adapter", "sent"}]
    /\ due \subseteq Requests /\ acked \subseteq Requests
    /\ stream \in BOOLEAN /\ attached \in BOOLEAN /\ permit \in BOOLEAN /\ over \in BOOLEAN
    /\ native \in [Requests -> {"none", "open", "mine", "other", "expired"}]
    /\ told \in [Requests -> {"none", "requested"} \cup Responses]
    /\ sends \in [Requests -> 0..2]

(* The answer on record is the one the Engine took, to a question always and   *)
(* to an approval when it is said to be forwarded, whoever gave it and whether *)
(* the receipt or the notice was first.                                       *)
AnswerIsTrue ==
    \A k \in Requests :
       answer[k] # "none" /\ (k \in Questions \/ status[k] = "forwarded") => answer[k] = native[k]

(* A reply that the Engine confirmed, and no notice has contradicted, has its  *)
(* answer on record: a notice that overtakes the receipt does not lose it     *)
(* ("otherwise the selected value is lost on that race", replyToUserInput).    *)
ConfirmedAnswerIsRecorded ==
    \A k \in acked : k \in Questions \/ status[k] = "forwarded" => answer[k] = "mine"

(* The record has the status of the last notice of the Engine: no receipt,    *)
(* expiry or end of the Execution replaces it ("Preserve its more authoritative *)
(* status", replyToUserInput).                                                *)
NoticeStands == \A k \in Requests : told[k] \in Responses => status[k] = told[k]

(* A request is answered at most once by this Host, whatever became of the    *)
(* receipt and although the Host may have restarted meanwhile.                *)
AnsweredOnce == \A k \in Requests : sends[k] <= 1

(* An Execution that ended has no request left open.                          *)
RetiredByEvent == exec = "ended" => \A k \in Requests : status[k] # "pending"

(* The same however the end became known: "failed and stopped Executions      *)
(* retire pending interactions".                                              *)
RetiredAtEnd == exec \in Terminal => \A k \in Requests : status[k] # "pending"

(* No reply is sent under a revoked authorization, from a Host without the    *)
(* Session, after the expiry, or for a record or an Execution that was settled *)
(* while the call was waiting.                                                *)
RepliesAreQualified ==
    [][\A k \in Requests :
         call[k] # "sent" /\ call'[k] = "sent" =>
            permit /\ attached /\ k \notin due /\ status[k] = "pending" /\ exec \notin Terminal]_vars

(* A settled record changes only as a notice of the Engine says, and an answer *)
(* to a question is never replaced.                                           *)
SettledIsKept ==
    \A k \in Requests :
       /\ status[k] \notin {"none", "pending"} /\ status'[k] # status[k] => status'[k] = told'[k]
       /\ k \in Questions /\ answer[k] # "none" => answer'[k] = answer[k]

(* The records say what the Engine took and last gave notice of, keep the      *)
(* answer a receipt confirmed, and change after they are settled only when the *)
(* Engine gives notice again.                                                 *)
AnswersAgree == InteractionsTypeOK /\ AnswerIsTrue /\ ConfirmedAnswerIsRecorded /\ NoticeStands
AnswersAreTrue == [][AnswersAgree' /\ SettledIsKept]_vars
=============================================================================
