-------------------------- MODULE InteractionsProofs --------------------------
(***************************************************************************)
(* Proofs about approvals and questions, for any number of them.           *)
(***************************************************************************)
EXTENDS Interactions, TLAPS

(* Nothing is known of a request that was not announced.                      *)
Unannounced(k) ==
    told[k] = "none" => status[k] = "none" /\ answer[k] = "none" /\ call[k] = "idle" /\ sends[k] = 0

(* After a reply was sent no other one can be sent: the record is settled, its *)
(* receipt is awaited, or the Host cannot send for this Execution any more.    *)
SentForGood(k) ==
    sends[k] # 0 => /\ sends[k] = 1
                    /\ status[k] # "pending" \/ call[k] = "sent" \/ ~attached \/ exec \in Terminal

(* The answer on record is the one the Engine took: to a question always, to an *)
(* approval when it is said to be forwarded.                                  *)
AnswerOfEngine(k) ==
    /\ k \in Questions /\ answer[k] # "none" => answer[k] = native[k]
    /\ k \in Approvals /\ status[k] = "forwarded" => answer[k] = native[k] /\ answer[k] # "none"

(* A reply that was receipted and recorded was taken, and the answer to a     *)
(* question stays on record.                                                  *)
AckedIsTaken(k) ==
    k \in acked => native[k] = "mine" /\ (k \in Questions => answer[k] = "mine")

(* A record has the status of the last notice.                                *)
NoticeIsLast(k) == told[k] \in Responses => status[k] = told[k]

RetiredWith(k) == exec = "ended" => status[k] # "pending"

RecordInv(k) ==
    /\ Unannounced(k) /\ SentForGood(k) /\ AnswerOfEngine(k) /\ AckedIsTaken(k)
    /\ NoticeIsLast(k) /\ RetiredWith(k)

InteractionInv == InteractionsTypeOK /\ \A k \in Requests : RecordInv(k)

-----------------------------------------------------------------------------
(* Every action keeps it.                                                     *)

LEMMA ReplyAskedKeeps ==
  ASSUME InteractionInv, NEW k \in Requests, ReplyAsked(k)
  PROVE  InteractionInv'
<1>1. InteractionsTypeOK'
  BY DEF InteractionInv, InteractionsTypeOK, Terminal, Receipts, Responses, ReplyAsked, Goes,
      recordVars, hostVars, engineVars, traceVars
<1>2. ASSUME NEW d \in Requests
      PROVE  RecordInv(d)'
  <2>1. RecordInv(d)
    BY DEF InteractionInv
  <2>. QED
    BY <2>1, InteractionAssumption DEF InteractionInv, InteractionsTypeOK, RecordInv, Unannounced,
       SentForGood, AnswerOfEngine, AckedIsTaken, NoticeIsLast, RetiredWith, Requests, Terminal,
       Receipts, Responses,
       ReplyAsked, Goes, recordVars, hostVars, engineVars, traceVars
<1>. QED BY <1>1, <1>2 DEF InteractionInv

LEMMA ReplyCheckedKeeps ==
  ASSUME InteractionInv, NEW k \in Requests, ReplyChecked(k)
  PROVE  InteractionInv'
<1>1. InteractionsTypeOK'
  BY DEF InteractionInv, InteractionsTypeOK, Terminal, Receipts, Responses, ReplyChecked, Goes,
      recordVars, hostVars, engineVars, traceVars
<1>2. ASSUME NEW d \in Requests
      PROVE  RecordInv(d)'
  <2>1. RecordInv(d)
    BY DEF InteractionInv
  <2>. QED
    BY <2>1, InteractionAssumption DEF InteractionInv, InteractionsTypeOK, RecordInv, Unannounced,
       SentForGood, AnswerOfEngine, AckedIsTaken, NoticeIsLast, RetiredWith, Requests, Terminal,
       Receipts, Responses,
       ReplyChecked, Goes, recordVars, hostVars, engineVars, traceVars
<1>. QED BY <1>1, <1>2 DEF InteractionInv

LEMMA ReplyExpiredKeeps ==
  ASSUME InteractionInv, NEW k \in Requests, ReplyExpired(k)
  PROVE  InteractionInv'
<1>1. InteractionsTypeOK'
  BY DEF InteractionInv, InteractionsTypeOK, Terminal, Receipts, Responses, ReplyExpired, Goes,
      recordVars, hostVars, engineVars, traceVars
<1>2. ASSUME NEW d \in Requests
      PROVE  RecordInv(d)'
  <2>1. RecordInv(d)
    BY DEF InteractionInv
  <2>. QED
    BY <2>1, InteractionAssumption DEF InteractionInv, InteractionsTypeOK, RecordInv, Unannounced,
       SentForGood, AnswerOfEngine, AckedIsTaken, NoticeIsLast, RetiredWith, Requests, Terminal,
       Receipts, Responses,
       ReplyExpired, Goes, recordVars, hostVars, engineVars, traceVars
<1>. QED BY <1>1, <1>2 DEF InteractionInv

LEMMA ReplyTooLateKeeps ==
  ASSUME InteractionInv, NEW k \in Requests, ReplyTooLate(k)
  PROVE  InteractionInv'
<1>1. InteractionsTypeOK'
  BY DEF InteractionInv, InteractionsTypeOK, Terminal, Receipts, Responses, ReplyTooLate, Goes,
      recordVars, hostVars, engineVars, traceVars
<1>2. ASSUME NEW d \in Requests
      PROVE  RecordInv(d)'
  <2>1. RecordInv(d)
    BY DEF InteractionInv
  <2>. QED
    BY <2>1, InteractionAssumption DEF InteractionInv, InteractionsTypeOK, RecordInv, Unannounced,
       SentForGood, AnswerOfEngine, AckedIsTaken, NoticeIsLast, RetiredWith, Requests, Terminal,
       Receipts, Responses,
       ReplyTooLate, Goes, recordVars, hostVars, engineVars, traceVars
<1>. QED BY <1>1, <1>2 DEF InteractionInv

LEMMA ReplyDroppedKeeps ==
  ASSUME InteractionInv, NEW k \in Requests, ReplyDropped(k)
  PROVE  InteractionInv'
<1>1. InteractionsTypeOK'
  BY DEF InteractionInv, InteractionsTypeOK, Terminal, Receipts, Responses, ReplyDropped, Goes,
      recordVars, hostVars, engineVars, traceVars
<1>2. ASSUME NEW d \in Requests
      PROVE  RecordInv(d)'
  <2>1. RecordInv(d)
    BY DEF InteractionInv
  <2>. QED
    BY <2>1, InteractionAssumption DEF InteractionInv, InteractionsTypeOK, RecordInv, Unannounced,
       SentForGood, AnswerOfEngine, AckedIsTaken, NoticeIsLast, RetiredWith, Requests, Terminal,
       Receipts, Responses,
       ReplyDropped, Goes, recordVars, hostVars, engineVars, traceVars
<1>. QED BY <1>1, <1>2 DEF InteractionInv

LEMMA ReplySentKeeps ==
  ASSUME InteractionInv, NEW k \in Requests, ReplySent(k)
  PROVE  InteractionInv'
<1>1. InteractionsTypeOK'
  BY DEF InteractionInv, InteractionsTypeOK, Terminal, Receipts, Responses, ReplySent, BeforeDispatch, Goes,
      recordVars, hostVars, engineVars, traceVars
<1>2. ASSUME NEW d \in Requests
      PROVE  RecordInv(d)'
  <2>1. RecordInv(d)
    BY DEF InteractionInv
  <2>. QED
    BY <2>1, InteractionAssumption DEF InteractionInv, InteractionsTypeOK, RecordInv, Unannounced,
       SentForGood, AnswerOfEngine, AckedIsTaken, NoticeIsLast, RetiredWith, Requests, Terminal,
       Receipts, Responses,
       ReplySent, BeforeDispatch, Goes, recordVars, hostVars, engineVars, traceVars
<1>. QED BY <1>1, <1>2 DEF InteractionInv

LEMMA ReplyReceiptKeeps ==
  ASSUME InteractionInv, NEW k \in Requests, ReplyReceipt(k)
  PROVE  InteractionInv'
<1>1. InteractionsTypeOK'
  BY DEF InteractionInv, InteractionsTypeOK, Terminal, Receipts, Responses, ReplyReceipt, MergeReceipt, ReceiptIsTrue, Goes,
      recordVars, hostVars, engineVars, traceVars
<1>2. ASSUME NEW d \in Requests
      PROVE  RecordInv(d)'
  <2>1. RecordInv(d)
    BY DEF InteractionInv
  <2>. QED
    BY <2>1, InteractionAssumption DEF InteractionInv, InteractionsTypeOK, RecordInv, Unannounced,
       SentForGood, AnswerOfEngine, AckedIsTaken, NoticeIsLast, RetiredWith, Requests, Terminal,
       Receipts, Responses,
       ReplyReceipt, MergeReceipt, ReceiptIsTrue, Goes, recordVars, hostVars, engineVars, traceVars
<1>. QED BY <1>1, <1>2 DEF InteractionInv

LEMMA EventRequestedKeeps ==
  ASSUME InteractionInv, NEW k \in Requests, EventRequested(k)
  PROVE  InteractionInv'
<1>1. InteractionsTypeOK'
  BY DEF InteractionInv, InteractionsTypeOK, Terminal, Receipts, Responses, EventRequested,
      recordVars, hostVars, engineVars, traceVars
<1>2. ASSUME NEW d \in Requests
      PROVE  RecordInv(d)'
  <2>1. RecordInv(d)
    BY DEF InteractionInv
  <2>. QED
    BY <2>1, InteractionAssumption DEF InteractionInv, InteractionsTypeOK, RecordInv, Unannounced,
       SentForGood, AnswerOfEngine, AckedIsTaken, NoticeIsLast, RetiredWith, Requests, Terminal,
       Receipts, Responses,
       EventRequested, recordVars, hostVars, engineVars, traceVars
<1>. QED BY <1>1, <1>2 DEF InteractionInv

LEMMA EventResponseKeeps ==
  ASSUME InteractionInv, NEW k \in Requests, EventResponse(k)
  PROVE  InteractionInv'
<1>1. InteractionsTypeOK'
  BY DEF InteractionInv, InteractionsTypeOK, Terminal, Receipts, Responses, EventResponse, LateAnswer, Answered, Named, ResponseIsTrue,
      recordVars, hostVars, engineVars, traceVars
<1>2. ASSUME NEW d \in Requests
      PROVE  RecordInv(d)'
  <2>1. RecordInv(d)
    BY DEF InteractionInv
  <2>. QED
    BY <2>1, InteractionAssumption DEF InteractionInv, InteractionsTypeOK, RecordInv, Unannounced,
       SentForGood, AnswerOfEngine, AckedIsTaken, NoticeIsLast, RetiredWith, Requests, Terminal,
       Receipts, Responses,
       EventResponse, LateAnswer, Answered, Named, ResponseIsTrue, recordVars, hostVars, engineVars, traceVars
<1>. QED BY <1>1, <1>2 DEF InteractionInv

LEMMA EventTerminalKeeps ==
  ASSUME InteractionInv, EventTerminal
  PROVE  InteractionInv'
<1>1. InteractionsTypeOK'
  BY DEF InteractionInv, InteractionsTypeOK, Terminal, Receipts, Responses, EventTerminal, RejectPendingInteractions,
      recordVars, hostVars, engineVars, traceVars
<1>2. ASSUME NEW d \in Requests
      PROVE  RecordInv(d)'
  <2>1. RecordInv(d)
    BY DEF InteractionInv
  <2>. QED
    BY <2>1, InteractionAssumption DEF InteractionInv, InteractionsTypeOK, RecordInv, Unannounced,
       SentForGood, AnswerOfEngine, AckedIsTaken, NoticeIsLast, RetiredWith, Requests, Terminal,
       Receipts, Responses,
       EventTerminal, RejectPendingInteractions, recordVars, hostVars, engineVars, traceVars
<1>. QED BY <1>1, <1>2 DEF InteractionInv

LEMMA StreamStepsKeeps ==
  ASSUME InteractionInv, EventUnmatched \/ StreamEnds \/ Reconcile
  PROVE  InteractionInv'
<1>1. InteractionsTypeOK'
  BY DEF InteractionInv, InteractionsTypeOK, Terminal, Receipts, Responses, EventUnmatched, StreamEnds, Reconcile,
      recordVars, hostVars, engineVars, traceVars
<1>2. ASSUME NEW d \in Requests
      PROVE  RecordInv(d)'
  <2>1. RecordInv(d)
    BY DEF InteractionInv
  <2>. QED
    BY <2>1, InteractionAssumption DEF InteractionInv, InteractionsTypeOK, RecordInv, Unannounced,
       SentForGood, AnswerOfEngine, AckedIsTaken, NoticeIsLast, RetiredWith, Requests, Terminal,
       Receipts, Responses,
       EventUnmatched, StreamEnds, Reconcile, recordVars, hostVars, engineVars, traceVars
<1>. QED BY <1>1, <1>2 DEF InteractionInv

LEMMA NativeRequestKeeps ==
  ASSUME InteractionInv, NEW k \in Requests, NativeRequest(k)
  PROVE  InteractionInv'
<1>1. InteractionsTypeOK'
  BY DEF InteractionInv, InteractionsTypeOK, Terminal, Receipts, Responses, NativeRequest,
      recordVars, hostVars, engineVars, traceVars
<1>2. ASSUME NEW d \in Requests
      PROVE  RecordInv(d)'
  <2>1. RecordInv(d)
    BY DEF InteractionInv
  <2>. QED
    BY <2>1, InteractionAssumption DEF InteractionInv, InteractionsTypeOK, RecordInv, Unannounced,
       SentForGood, AnswerOfEngine, AckedIsTaken, NoticeIsLast, RetiredWith, Requests, Terminal,
       Receipts, Responses,
       NativeRequest, recordVars, hostVars, engineVars, traceVars
<1>. QED BY <1>1, <1>2 DEF InteractionInv

LEMMA NativeSettlesKeeps ==
  ASSUME InteractionInv, NEW k \in Requests, NativeSettles(k)
  PROVE  InteractionInv'
<1>1. InteractionsTypeOK'
  BY DEF InteractionInv, InteractionsTypeOK, Terminal, Receipts, Responses, NativeSettles,
      recordVars, hostVars, engineVars, traceVars
<1>2. ASSUME NEW d \in Requests
      PROVE  RecordInv(d)'
  <2>1. RecordInv(d)
    BY DEF InteractionInv
  <2>. QED
    BY <2>1, InteractionAssumption DEF InteractionInv, InteractionsTypeOK, RecordInv, Unannounced,
       SentForGood, AnswerOfEngine, AckedIsTaken, NoticeIsLast, RetiredWith, Requests, Terminal,
       Receipts, Responses,
       NativeSettles, recordVars, hostVars, engineVars, traceVars
<1>. QED BY <1>1, <1>2 DEF InteractionInv

LEMMA HostStepsKeeps ==
  ASSUME InteractionInv, NativeEnds \/ Revoke \/ RestoreSession
  PROVE  InteractionInv'
<1>1. InteractionsTypeOK'
  BY DEF InteractionInv, InteractionsTypeOK, Terminal, Receipts, Responses, NativeEnds, Revoke, RestoreSession,
      recordVars, hostVars, engineVars, traceVars
<1>2. ASSUME NEW d \in Requests
      PROVE  RecordInv(d)'
  <2>1. RecordInv(d)
    BY DEF InteractionInv
  <2>. QED
    BY <2>1, InteractionAssumption DEF InteractionInv, InteractionsTypeOK, RecordInv, Unannounced,
       SentForGood, AnswerOfEngine, AckedIsTaken, NoticeIsLast, RetiredWith, Requests, Terminal,
       Receipts, Responses,
       NativeEnds, Revoke, RestoreSession, recordVars, hostVars, engineVars, traceVars
<1>. QED BY <1>1, <1>2 DEF InteractionInv

LEMMA ExpiresKeeps ==
  ASSUME InteractionInv, NEW k \in Requests, Expires(k)
  PROVE  InteractionInv'
<1>1. InteractionsTypeOK'
  BY DEF InteractionInv, InteractionsTypeOK, Terminal, Receipts, Responses, Expires,
      recordVars, hostVars, engineVars, traceVars
<1>2. ASSUME NEW d \in Requests
      PROVE  RecordInv(d)'
  <2>1. RecordInv(d)
    BY DEF InteractionInv
  <2>. QED
    BY <2>1, InteractionAssumption DEF InteractionInv, InteractionsTypeOK, RecordInv, Unannounced,
       SentForGood, AnswerOfEngine, AckedIsTaken, NoticeIsLast, RetiredWith, Requests, Terminal,
       Receipts, Responses,
       Expires, recordVars, hostVars, engineVars, traceVars
<1>. QED BY <1>1, <1>2 DEF InteractionInv

LEMMA RestartKeeps ==
  ASSUME InteractionInv, Restart
  PROVE  InteractionInv'
<1>1. InteractionsTypeOK'
  BY DEF InteractionInv, InteractionsTypeOK, Terminal, Receipts, Responses, Restart,
      recordVars, hostVars, engineVars, traceVars
<1>2. ASSUME NEW d \in Requests
      PROVE  RecordInv(d)'
  <2>1. RecordInv(d)
    BY DEF InteractionInv
  <2>. QED
    BY <2>1, InteractionAssumption DEF InteractionInv, InteractionsTypeOK, RecordInv, Unannounced,
       SentForGood, AnswerOfEngine, AckedIsTaken, NoticeIsLast, RetiredWith, Requests, Terminal,
       Receipts, Responses,
       Restart, recordVars, hostVars, engineVars, traceVars
<1>. QED BY <1>1, <1>2 DEF InteractionInv

LEMMA InteractionsInitially ==
  ASSUME Init
  PROVE  InteractionInv
<1>1. InteractionsTypeOK
  <2>1. sends \in [Requests -> 0..2]
    BY DEF Init
  <2>2. /\ status \in [Requests -> {"none", "pending"} \cup Responses]
        /\ answer \in [Requests -> {"none", "mine", "other"}]
        /\ call \in [Requests -> {"idle", "probe", "adapter", "sent"}]
        /\ native \in [Requests -> {"none", "open", "mine", "other", "expired"}]
        /\ told \in [Requests -> {"none", "requested"} \cup Responses]
    BY DEF Init
  <2>3. /\ exec = "live" /\ due = {} /\ acked = {}
        /\ stream = TRUE /\ attached = TRUE /\ permit = TRUE /\ over = FALSE
    BY DEF Init
  <2>. QED BY <2>1, <2>2, <2>3 DEF InteractionsTypeOK
<1>2. ASSUME NEW k \in Requests
      PROVE  RecordInv(k)
  BY InteractionAssumption DEF Init, RecordInv, Unannounced, SentForGood, AnswerOfEngine, AckedIsTaken,
     NoticeIsLast, RetiredWith, Responses, Receipts
<1>. QED BY <1>1, <1>2 DEF InteractionInv

LEMMA InteractionsStep ==
  ASSUME InteractionInv, [Next]_vars
  PROVE  InteractionInv'
<1>1. ASSUME NEW k \in Requests, Reply(k)
      PROVE  InteractionInv'
  BY <1>1, ReplyAskedKeeps, ReplyCheckedKeeps, ReplyExpiredKeeps, ReplyTooLateKeeps, ReplyDroppedKeeps,
     ReplySentKeeps, ReplyReceiptKeeps DEF Reply
<1>2. ASSUME NEW k \in Requests, EventRequested(k) \/ EventResponse(k)
      PROVE  InteractionInv'
  BY <1>2, EventRequestedKeeps, EventResponseKeeps
<1>3. ASSUME NEW k \in Requests, NativeRequest(k) \/ NativeSettles(k) \/ Expires(k)
      PROVE  InteractionInv'
  BY <1>3, NativeRequestKeeps, NativeSettlesKeeps, ExpiresKeeps
<1>4. CASE EventTerminal \/ EventUnmatched \/ StreamEnds \/ Reconcile
  BY <1>4, EventTerminalKeeps, StreamStepsKeeps
<1>5. CASE NativeEnds \/ Revoke \/ Restart \/ RestoreSession
  BY <1>5, HostStepsKeeps, RestartKeeps
<1>6. CASE UNCHANGED vars
  BY <1>6 DEF InteractionInv, InteractionsTypeOK, RecordInv, Unannounced, SentForGood, AnswerOfEngine,
      AckedIsTaken, NoticeIsLast, RetiredWith, vars, recordVars, hostVars, engineVars, traceVars
<1>. QED BY <1>1, <1>2, <1>3, <1>4, <1>5, <1>6 DEF Next

LEMMA InteractionsInvariance == Spec => []InteractionInv
<1>1. Init => InteractionInv
  BY InteractionsInitially
<1>2. InteractionInv /\ [Next]_vars => InteractionInv'
  BY InteractionsStep
<1>. QED BY <1>1, <1>2, PTL DEF Spec

-----------------------------------------------------------------------------
(* The theorems.                                                             *)

(* A request is answered at most once by this Host, whatever becomes of the    *)
(* receipt and however the Host restarts (replyToApproval, replyToUserInput).  *)
THEOREM OneReply == Spec => []AnsweredOnce
<1>1. InteractionInv => AnsweredOnce
  BY DEF InteractionInv, RecordInv, SentForGood, AnsweredOnce
<1>. QED BY <1>1, InteractionsInvariance, PTL

(* Terminal evidence retires every request of the Execution, those that a     *)
(* reply is under way for included (rejectPendingInteractions).               *)
THEOREM NothingLeftOpen == Spec => []RetiredByEvent
<1>1. InteractionInv => RetiredByEvent
  BY DEF InteractionInv, RecordInv, RetiredWith, RetiredByEvent
<1>. QED BY <1>1, InteractionsInvariance, PTL

LEMMA AnswersAgreeAlways ==
  ASSUME InteractionInv
  PROVE  AnswersAgree
<1>1. AnswerIsTrue
  BY DEF InteractionInv, RecordInv, AnswerOfEngine, AnswerIsTrue, Requests
<1>2. acked \subseteq Requests
  BY DEF InteractionInv, InteractionsTypeOK
<1>3. ConfirmedAnswerIsRecorded
  BY <1>2 DEF InteractionInv, RecordInv, AnswerOfEngine, AckedIsTaken, ConfirmedAnswerIsRecorded, Requests
<1>4. NoticeStands
  BY DEF InteractionInv, RecordInv, NoticeIsLast, NoticeStands
<1>. QED BY <1>1, <1>3, <1>4 DEF AnswersAgree, InteractionInv

LEMMA SettledStays ==
  ASSUME InteractionInv, [Next]_vars
  PROVE  SettledIsKept
<1>. DEFINE Kept(d) ==
        /\ status[d] \notin {"none", "pending"} /\ status'[d] # status[d] => status'[d] = told'[d]
        /\ d \in Questions /\ answer[d] # "none" => answer'[d] = answer[d]
<1>. SUFFICES ASSUME NEW d \in Requests
              PROVE  Kept(d)
  BY DEF SettledIsKept
<1>. USE DEF recordVars, hostVars, engineVars, traceVars
<1>1. /\ RecordInv(d) /\ InteractionsTypeOK
      /\ d \in Questions /\ answer[d] # "none" => answer[d] = native[d]
      /\ told[d] = "none" => status[d] = "none"
  BY DEF InteractionInv, RecordInv, Unannounced, AnswerOfEngine
<1>2. ASSUME NEW k \in Requests, Reply(k)
      PROVE  Kept(d)
  <2>1. CASE ReplyReceipt(k)
    BY <2>1, <1>1, InteractionAssumption DEF ReplyReceipt, MergeReceipt, InteractionsTypeOK, Requests
  <2>2. CASE ReplyExpired(k) \/ ReplyTooLate(k)
    BY <2>2, <1>1 DEF ReplyExpired, ReplyTooLate, InteractionsTypeOK
  <2>3. CASE ReplyAsked(k) \/ ReplyChecked(k) \/ ReplyDropped(k) \/ ReplySent(k)
    BY <2>3 DEF ReplyAsked, ReplyChecked, ReplyDropped, ReplySent
  <2>. QED BY <1>2, <2>1, <2>2, <2>3 DEF Reply
<1>3. ASSUME NEW k \in Requests, EventRequested(k)
      PROVE  Kept(d)
  BY <1>1, <1>3 DEF EventRequested, InteractionsTypeOK
<1>4. ASSUME NEW k \in Requests, EventResponse(k)
      PROVE  Kept(d)
  <2>1. CASE k = d
    BY <1>1, <1>4, <2>1 DEF EventResponse, LateAnswer, Answered, Named, InteractionsTypeOK
  <2>2. CASE k # d
    BY <1>1, <1>4, <2>2 DEF EventResponse, LateAnswer, Answered, InteractionsTypeOK
  <2>. QED BY <2>1, <2>2
<1>5. ASSUME NEW k \in Requests, NativeRequest(k) \/ NativeSettles(k) \/ Expires(k)
      PROVE  UNCHANGED recordVars
  BY <1>5 DEF NativeRequest, NativeSettles, Expires
<1>6. CASE EventTerminal
  BY <1>6, <1>1 DEF EventTerminal, RejectPendingInteractions, InteractionsTypeOK
<1>7. EventUnmatched \/ StreamEnds \/ Reconcile \/ NativeEnds \/ Revoke \/ Restart \/ RestoreSession
        \/ UNCHANGED vars => UNCHANGED recordVars
  BY DEF EventUnmatched, StreamEnds, Reconcile, NativeEnds, Revoke, Restart, RestoreSession, vars
<1>8. UNCHANGED recordVars => Kept(d)
  OBVIOUS
<1>. QED BY <1>2, <1>3, <1>4, <1>5, <1>6, <1>7, <1>8 DEF Next

(* The records say what the Engine took and last gave notice of, keep the      *)
(* answer that a receipt confirmed, and change after they are settled only    *)
(* when the Engine gives notice again (replyToUserInput, #applyEvent and       *)
(* applyLateEngineConfirmedUserInputResponse).                                *)
THEOREM TrueAnswers == Spec => AnswersAreTrue
<1>1. InteractionInv => AnswersAgree
  BY AnswersAgreeAlways
<1>2. InteractionInv /\ [Next]_vars => SettledIsKept
  BY SettledStays
<1>. QED BY <1>1, <1>2, InteractionsInvariance, PTL DEF Spec, AnswersAreTrue

(* No reply is sent under a revoked authorization, from a Host without the    *)
(* Session, after the expiry or for what was settled while the call waited     *)
(* (beforeDispatch).                                                          *)
THEOREM QualifiedReplies == Spec => RepliesAreQualified
<1>1. ASSUME InteractionInv, [Next]_vars, NEW k \in Requests, call[k] # "sent", call'[k] = "sent"
      PROVE  permit /\ attached /\ k \notin due /\ status[k] = "pending" /\ exec \notin Terminal
  <2>. USE DEF Goes
  <2>1. call \in [Requests -> {"idle", "probe", "adapter", "sent"}]
    BY <1>1 DEF InteractionInv, InteractionsTypeOK
  <2>2. ASSUME NEW j \in Requests, ReplySent(j)
        PROVE  BeforeDispatch(k)
    BY <1>1, <2>1, <2>2 DEF ReplySent
  <2>3. ASSUME NEW j \in Requests, ReplyAsked(j) \/ ReplyChecked(j) \/ ReplyExpired(j)
                                  \/ ReplyTooLate(j) \/ ReplyDropped(j) \/ ReplyReceipt(j)
        PROVE  FALSE
    BY <1>1, <2>1, <2>3 DEF ReplyAsked, ReplyChecked, ReplyExpired, ReplyTooLate, ReplyDropped, ReplyReceipt
  <2>4. ASSUME NEW j \in Requests,
               EventRequested(j) \/ EventResponse(j) \/ NativeRequest(j) \/ NativeSettles(j) \/ Expires(j)
        PROVE  FALSE
    BY <1>1, <2>4 DEF EventRequested, EventResponse, NativeRequest, NativeSettles, Expires
  <2>5. CASE EventTerminal \/ EventUnmatched \/ StreamEnds \/ Reconcile
    BY <1>1, <2>5 DEF EventTerminal, EventUnmatched, StreamEnds, Reconcile
  <2>6. CASE NativeEnds \/ Revoke \/ Restart \/ RestoreSession \/ UNCHANGED vars
    BY <1>1, <2>6 DEF NativeEnds, Revoke, Restart, RestoreSession, vars
  <2>. QED BY <1>1, <2>2, <2>3, <2>4, <2>5, <2>6 DEF Next, Reply, BeforeDispatch
<1>2. InteractionInv /\ [Next]_vars =>
        \A k \in Requests : call[k] # "sent" /\ call'[k] = "sent" =>
           permit /\ attached /\ k \notin due /\ status[k] = "pending" /\ exec \notin Terminal
  BY <1>1
<1>. QED BY <1>2, InteractionsInvariance, PTL DEF Spec, RepliesAreQualified
===============================================================================
