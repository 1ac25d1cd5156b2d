-------------------------- MODULE StopRequestsProofs --------------------------
(***************************************************************************)
(* Proofs about stop requests.  The argument is about whose turn it is to  *)
(* be unresolved: while the Execution has not ended only the latest request *)
(* can be, a request that reached the Engine stays so, and no call starts   *)
(* beside it.                                                               *)
(***************************************************************************)
EXTENDS StopRequests, TLAPS

Open == exec \notin Terminal

(* Room for the records, the one that nobody requested included.              *)
RoomLeft ==
    /\ Open => count <= MaxRequests
    /\ Open /\ call = "probe" => count < MaxRequests

(* Exactly the first count records exist, and only they reach the Engine.     *)
RecordsAreFirst ==
    /\ \A r \in Requests : r > count => status[r] = "none" /\ delivery[r] = "none"
    /\ reached \subseteq 1..count

(* The call has a record exactly when it is at or behind the adapter, and     *)
(* that record is the latest until the Execution ends, unresolved unless the   *)
(* notice of its refusal was read already.                                    *)
CallHasRecord ==
    /\ mine # 0 <=> call \in {"adapter", "refusing", "sent"}
    /\ mine <= count
    /\ mine # 0 /\ Open =>
         /\ mine = count
         /\ status[mine] \in Unresolved \/ (call = "refusing" /\ status[mine] = "unsupported")

(* Nothing unresolved is behind a later request, nor beside a starting call.  *)
LatestIsUnresolved ==
    Open => \A r \in Requests : status[r] \in Unresolved => r = count /\ call # "probe"

(* What is stored of the end is what happened.                                *)
EndIsNative == exec \in Terminal => native = exec

(* A request that reached the Engine stays unresolved until the Execution     *)
(* ends; a call before its send has not reached it.                           *)
ReachedIsUnresolved ==
    /\ Open => \A r \in reached : r = count /\ status[r] \in Unresolved
    /\ call = "adapter" => mine \notin reached /\ delivery[mine] \in {"pending", "unknown"}
    /\ call = "refusing" =>
         mine \notin reached /\ delivery[mine] \in {"pending", "unknown", "not-delivered"}

(* A notice speaks of a request that reached the Engine, or of the refusal for *)
(* which the call still waits; one that nobody will read may say anything.     *)
NoticesAreTrue ==
    \A r \in Requests :
       /\ notice[r] \in {"none", "requested", "unsupported"}
       /\ notice[r] = "requested" => r \in reached
       /\ notice[r] = "unsupported" /\ stream /\ Open => call = "refusing" /\ r = mine

StopInv ==
    /\ StopTypeOK /\ RoomLeft /\ RecordsAreFirst /\ CallHasRecord
    /\ LatestIsUnresolved /\ EndIsNative /\ ReachedIsUnresolved /\ NoticesAreTrue
    /\ StoppedHasOneConfirmation /\ NothingRequestedOfTheEnded
    /\ DeliveryIsTrue /\ InterruptedOnce


(* A call starts only beside no unresolved request, so later steps find its   *)
(* record to be the only one.                                                 *)
LEMMA StopAskedKeeps ==
  ASSUME StopInv, StopAsked
  PROVE  StopInv'
<1>1. RecordsAreFirst' /\ EndIsNative' /\ NoticesAreTrue' /\
    StoppedHasOneConfirmation' /\ NothingRequestedOfTheEnded' /\ DeliveryIsTrue' /\
    InterruptedOnce'
  BY DEF StopInv, RecordsAreFirst, EndIsNative, NoticesAreTrue,
      StoppedHasOneConfirmation, NothingRequestedOfTheEnded, DeliveryIsTrue,
      InterruptedOnce, Open, StopAsked, storeVars, hostVars, engineVars
<1>2. StopTypeOK'
  BY DEF StopInv, StopTypeOK, Requests, Terminal, Unresolved, Refusals,
      StopAsked, MayAsk, storeVars, hostVars, engineVars
<1>3. RoomLeft'
  BY DEF StopInv, RoomLeft, Open, Terminal, StopAsked, MayAsk, storeVars,
      hostVars, engineVars
<1>4. CallHasRecord'
  BY DEF StopInv, CallHasRecord, Open, Unresolved, Terminal, StopAsked, MayAsk,
      storeVars, hostVars, engineVars
<1>5. LatestIsUnresolved'
  BY DEF StopInv, LatestIsUnresolved, Open, Unresolved, Terminal, StopAsked,
      MayAsk, storeVars, hostVars, engineVars
<1>6. ReachedIsUnresolved'
  BY DEF StopInv, ReachedIsUnresolved, Open, Unresolved, Terminal, StopAsked,
      MayAsk, storeVars, hostVars, engineVars
<1>. QED BY <1>1, <1>2, <1>3, <1>4, <1>5, <1>6 DEF StopInv

LEMMA StopUnattachedKeeps ==
  ASSUME StopInv, StopUnattached
  PROVE  StopInv'
<1>1. EndIsNative' /\ NoticesAreTrue' /\ InterruptedOnce'
  BY DEF StopInv, EndIsNative, NoticesAreTrue, InterruptedOnce, Open, StopUnattached,
      callVars, hostVars, engineVars
<1>2. StopTypeOK'
  BY StopAssumption DEF StopInv, StopTypeOK, Requests, Terminal, Unresolved,
      Refusals, StopUnattached, MayAsk, Record, callVars, hostVars, engineVars
<1>3. RoomLeft'
  BY StopAssumption DEF StopInv, RoomLeft, StopTypeOK, Open, Requests,
      Terminal, Unresolved, Refusals, StopUnattached, MayAsk, Record, callVars,
      hostVars, engineVars
<1>4. RecordsAreFirst'
  BY StopAssumption DEF StopInv, RecordsAreFirst, StopTypeOK, Requests,
      Terminal, Unresolved, Refusals, StopUnattached, MayAsk, Record, callVars,
      hostVars, engineVars
<1>5. CallHasRecord'
  BY StopAssumption DEF StopInv, CallHasRecord, StopTypeOK, Open, Unresolved,
      Requests, Terminal, Refusals, StopUnattached, MayAsk, Record, callVars,
      hostVars, engineVars
<1>6. LatestIsUnresolved'
  BY DEF StopInv, LatestIsUnresolved, Open, Unresolved, Terminal,
      StopUnattached, MayAsk, Record, callVars, hostVars, engineVars
<1>7. ReachedIsUnresolved'
  BY StopAssumption DEF StopInv, ReachedIsUnresolved, StopTypeOK, Open,
      Unresolved, Requests, Terminal, Refusals, StopUnattached, MayAsk, Record,
      callVars, hostVars, engineVars
<1>8. StoppedHasOneConfirmation'
  BY StopAssumption DEF StopInv, StoppedHasOneConfirmation, StopTypeOK,
      Requests, Terminal, Unresolved, Refusals, StopUnattached, MayAsk, Record,
      callVars, hostVars, engineVars
<1>9. NothingRequestedOfTheEnded'
  BY DEF StopInv, NothingRequestedOfTheEnded, Terminal, StopUnattached, MayAsk,
      Record, callVars, hostVars, engineVars
<1>10. DeliveryIsTrue'
  BY StopAssumption DEF StopInv, DeliveryIsTrue, StopTypeOK, RecordsAreFirst,
      CallHasRecord, LatestIsUnresolved, ReachedIsUnresolved,
      StoppedHasOneConfirmation, Requests, Terminal, Unresolved, Refusals,
      Open, StopUnattached, MayAsk, Record, callVars, hostVars, engineVars
<1>. QED BY <1>1, <1>2, <1>3, <1>4, <1>5, <1>6, <1>7, <1>8, <1>9, <1>10 DEF StopInv

(* The record of the call is the latest and the only unresolved one.          *)
LEMMA StopRecordedKeeps ==
  ASSUME StopInv, StopRecorded
  PROVE  StopInv'
<1>1. EndIsNative' /\ NoticesAreTrue' /\ InterruptedOnce'
  BY DEF StopInv, EndIsNative, NoticesAreTrue, InterruptedOnce, Open, StopRecorded,
      hostVars, engineVars
<1>2. StopTypeOK'
  BY StopAssumption DEF StopInv, StopTypeOK, RoomLeft, Requests, Terminal,
      Unresolved, Refusals, Open, StopRecorded, Record, hostVars, engineVars
<1>3. RoomLeft'
  BY StopAssumption DEF StopInv, RoomLeft, StopTypeOK, Open, Requests,
      Terminal, Unresolved, Refusals, StopRecorded, Record, hostVars,
      engineVars
<1>4. RecordsAreFirst'
  BY StopAssumption DEF StopInv, RecordsAreFirst, StopTypeOK, Requests,
      Terminal, Unresolved, Refusals, StopRecorded, Record, hostVars,
      engineVars
<1>5. CallHasRecord'
  BY StopAssumption DEF StopInv, CallHasRecord, StopTypeOK, RoomLeft, Open,
      Unresolved, Requests, Terminal, Refusals, StopRecorded, Record, hostVars,
      engineVars
<1>6. LatestIsUnresolved'
  BY DEF StopInv, LatestIsUnresolved, Open, Unresolved, Terminal, StopRecorded,
      Record, hostVars, engineVars
<1>7. ReachedIsUnresolved'
  BY StopAssumption DEF StopInv, ReachedIsUnresolved, StopTypeOK, RoomLeft,
      RecordsAreFirst, LatestIsUnresolved, Open, Unresolved, Requests,
      Terminal, Refusals, StopRecorded, Record, hostVars, engineVars
<1>8. StoppedHasOneConfirmation'
  BY StopAssumption DEF StopInv, StoppedHasOneConfirmation, StopTypeOK,
      Requests, Terminal, Unresolved, Refusals, StopRecorded, Record, hostVars,
      engineVars
<1>9. NothingRequestedOfTheEnded'
  BY DEF StopInv, NothingRequestedOfTheEnded, Terminal, StopRecorded, Record,
      hostVars, engineVars
<1>10. DeliveryIsTrue'
  BY DEF StopInv, DeliveryIsTrue, StopRecorded, Record, hostVars, engineVars
<1>. QED BY <1>1, <1>2, <1>3, <1>4, <1>5, <1>6, <1>7, <1>8, <1>9, <1>10 DEF StopInv

LEMMA StopDroppedKeeps ==
  ASSUME StopInv, StopDropped
  PROVE  StopInv'
<1>1. RecordsAreFirst' /\ EndIsNative' /\ NoticesAreTrue' /\
    StoppedHasOneConfirmation' /\ NothingRequestedOfTheEnded' /\ DeliveryIsTrue' /\
    InterruptedOnce'
  BY DEF StopInv, RecordsAreFirst, EndIsNative, NoticesAreTrue,
      StoppedHasOneConfirmation, NothingRequestedOfTheEnded, DeliveryIsTrue,
      InterruptedOnce, Open, StopDropped, storeVars, hostVars, engineVars
<1>2. StopTypeOK'
  BY DEF StopInv, StopTypeOK, Requests, Terminal, Unresolved, Refusals,
      StopDropped, storeVars, hostVars, engineVars
<1>3. RoomLeft'
  BY DEF StopInv, RoomLeft, Open, Terminal, StopDropped, storeVars, hostVars,
      engineVars
<1>4. CallHasRecord'
  BY DEF StopInv, CallHasRecord, Open, Unresolved, Terminal, StopDropped,
      storeVars, hostVars, engineVars
<1>5. LatestIsUnresolved'
  BY DEF StopInv, LatestIsUnresolved, Open, Unresolved, Terminal, StopDropped,
      storeVars, hostVars, engineVars
<1>6. ReachedIsUnresolved'
  BY DEF StopInv, ReachedIsUnresolved, Open, Unresolved, Terminal, StopDropped,
      storeVars, hostVars, engineVars
<1>. QED BY <1>1, <1>2, <1>3, <1>4, <1>5, <1>6 DEF StopInv

(* Until now nothing has reached the Engine, for it would still be unresolved.*)
LEMMA StopSentKeeps ==
  ASSUME StopInv, StopSent
  PROVE  StopInv'
<1>1. Open /\ mine = count /\ mine \in 1..count /\ mine \in Requests /\ status[mine] \in Unresolved
  BY DEF StopInv, StopTypeOK, CallHasRecord, Open, Requests, StopSent, BeforeStopDispatch
<1>2. reached = {} /\ delivery[mine] \in {"pending", "unknown"}
  BY <1>1 DEF StopInv, ReachedIsUnresolved, StopSent
<1>3. reached' \in {reached, {mine}}
  BY <1>2 DEF StopSent
<1>4. EndIsNative' /\ StoppedHasOneConfirmation' /\ NothingRequestedOfTheEnded'
  BY DEF StopInv, EndIsNative, StoppedHasOneConfirmation,
      NothingRequestedOfTheEnded, StopSent, storeVars
<1>5. StopTypeOK'
  BY <1>1, <1>2, <1>3 DEF StopInv, StopTypeOK, StopSent, storeVars
<1>6. RoomLeft'
  BY DEF StopInv, RoomLeft, Open, Terminal, StopSent, BeforeStopDispatch,
      storeVars
<1>7. RecordsAreFirst'
  BY <1>1, <1>3 DEF StopInv, RecordsAreFirst, StopSent, storeVars
<1>8. CallHasRecord'
  BY DEF StopInv, CallHasRecord, Open, Unresolved, Terminal, StopSent,
      BeforeStopDispatch, storeVars
<1>9. LatestIsUnresolved'
  BY DEF StopInv, LatestIsUnresolved, Open, Unresolved, Terminal, StopSent,
      BeforeStopDispatch, storeVars
<1>10. ReachedIsUnresolved'
  BY <1>1, <1>2, <1>3 DEF StopInv, ReachedIsUnresolved, Open, StopSent,
      storeVars
<1>11. NoticesAreTrue'
  BY <1>1, <1>2 DEF StopInv, NoticesAreTrue, StopTypeOK, StopSent
<1>12. DeliveryIsTrue'
  BY <1>1, <1>2, <1>3 DEF StopInv, DeliveryIsTrue, StopSent, storeVars
<1>13. InterruptedOnce'
  BY <1>2, <1>3 DEF InterruptedOnce
<1>. QED BY <1>1, <1>2, <1>3, <1>4, <1>5, <1>6, <1>7, <1>8, <1>9, <1>10, <1>11,
    <1>12, <1>13 DEF StopInv

(* The refusal is announced before it is answered, and by nobody else.          *)
LEMMA StopFoundUnsupportedKeeps ==
  ASSUME StopInv, StopFoundUnsupported
  PROVE  StopInv'
<1>1. mine # 0 /\ mine \in Requests
  BY StopAssumption DEF StopInv, StopTypeOK, CallHasRecord, Requests, StopFoundUnsupported
<1>2. RoomLeft' /\ RecordsAreFirst' /\ EndIsNative' /\ StoppedHasOneConfirmation'
      /\ NothingRequestedOfTheEnded' /\ DeliveryIsTrue' /\ InterruptedOnce'
  BY DEF StopInv, RoomLeft, Open, RecordsAreFirst, EndIsNative, StoppedHasOneConfirmation,
      NothingRequestedOfTheEnded, DeliveryIsTrue, InterruptedOnce, StopFoundUnsupported,
      storeVars, engineVars
<1>3. StopTypeOK'
  BY DEF StopInv, StopTypeOK, StopFoundUnsupported, storeVars, engineVars
<1>4. CallHasRecord' /\ LatestIsUnresolved' /\ ReachedIsUnresolved'
  BY DEF StopInv, CallHasRecord, LatestIsUnresolved, ReachedIsUnresolved, Open,
      StopFoundUnsupported, storeVars, engineVars
<1>5. NoticesAreTrue'
  BY <1>1 DEF StopInv, StopTypeOK, NoticesAreTrue, Open, StopFoundUnsupported, storeVars,
      engineVars
<1>. QED BY <1>2, <1>3, <1>4, <1>5 DEF StopInv

(* An answer that is true of what the Engine got; a refusal means that it got *)
(* nothing.                                                                   *)
LEMMA AnswerKeeps ==
  ASSUME StopInv, mine # 0,
         NEW s \in Unresolved \cup Refusals, NEW d \in {"delivered", "not-delivered", "unknown"},
         d = "delivered" => mine \in reached, d = "not-delivered" => mine \notin reached,
         s \in Refusals => mine \notin reached,
         call = "refusing" => NoticeIsRead,
         Answer(s, d)
  PROVE  StopInv'
<1>1. EndIsNative' /\ NoticesAreTrue' /\ InterruptedOnce'
  BY DEF StopInv, EndIsNative, NoticesAreTrue, NoticeIsRead, InterruptedOnce, Open, Answer,
      hostVars, engineVars
<1>2. StopTypeOK'
  BY StopAssumption DEF StopInv, StopTypeOK, Requests, Terminal, Unresolved,
      Refusals, Answer, Answered, MergeStopDelivery, hostVars, engineVars
<1>3. RoomLeft'
  BY DEF StopInv, RoomLeft, Open, Terminal, Answer, Answered,
      MergeStopDelivery, hostVars, engineVars
<1>4. RecordsAreFirst'
  BY StopAssumption DEF StopInv, RecordsAreFirst, StopTypeOK, CallHasRecord,
      LatestIsUnresolved, ReachedIsUnresolved, StoppedHasOneConfirmation,
      Requests, Terminal, Unresolved, Refusals, Open, Answer, Answered,
      MergeStopDelivery, hostVars, engineVars
<1>5. CallHasRecord'
  BY StopAssumption DEF StopInv, CallHasRecord, StopTypeOK, Open, Unresolved,
      Requests, Terminal, Refusals, Answer, Answered, MergeStopDelivery,
      hostVars, engineVars
<1>6. LatestIsUnresolved'
  BY StopAssumption DEF StopInv, LatestIsUnresolved, StopTypeOK,
      RecordsAreFirst, CallHasRecord, ReachedIsUnresolved,
      StoppedHasOneConfirmation, Open, Unresolved, Requests, Terminal,
      Refusals, Answer, Answered, MergeStopDelivery, hostVars, engineVars
<1>7. ReachedIsUnresolved'
  BY DEF StopInv, ReachedIsUnresolved, Open, Unresolved, Terminal, Answer,
      Answered, MergeStopDelivery, hostVars, engineVars
<1>8. StoppedHasOneConfirmation'
  BY StopAssumption DEF StopInv, StoppedHasOneConfirmation, StopTypeOK,
      Requests, Terminal, Unresolved, Refusals, Answer, Answered,
      MergeStopDelivery, hostVars, engineVars
<1>9. NothingRequestedOfTheEnded'
  BY DEF StopInv, NothingRequestedOfTheEnded, Terminal, Answer, Answered,
      MergeStopDelivery, hostVars, engineVars
<1>10. DeliveryIsTrue'
  BY DEF StopInv, DeliveryIsTrue, Answer, Answered, MergeStopDelivery,
      hostVars, engineVars
<1>. QED BY <1>1, <1>2, <1>3, <1>4, <1>5, <1>6, <1>7, <1>8, <1>9, <1>10 DEF StopInv

(* The notice is about a request that reached the Engine, or about the one     *)
(* that is being refused, hence the latest: the event is applied to the record *)
(* it is about.                                                               *)
LEMMA EventInterruptionRequestedKeeps ==
  ASSUME StopInv, NEW r \in Requests, EventInterruptionRequested(r)
  PROVE  StopInv'
<1>0. Open /\ stream /\ notice[r] \in {"requested", "unsupported"}
  BY DEF StopInv, NoticesAreTrue, Open, EventInterruptionRequested
<1>1. \/ notice[r] = "requested" /\ r \in reached
      \/ notice[r] = "unsupported" /\ call = "refusing" /\ r = mine /\ r \notin reached
  BY <1>0 DEF StopInv, NoticesAreTrue, ReachedIsUnresolved
<1>2. /\ r = count /\ count \in Requests /\ count > 0 /\ status[count] # "confirmed"
      /\ \A q \in reached : q = count /\ status[q] \in Unresolved
  BY <1>0, <1>1 DEF StopInv, ReachedIsUnresolved, CallHasRecord, Requests, Unresolved
<1>3. /\ \A q \in Requests : q # count => status'[q] = status[q] /\ delivery'[q] = delivery[q]
      /\ status'[count] = notice[r] \/ status'[count] = status[count]
  BY <1>2 DEF StopInv, StopTypeOK, EventInterruptionRequested
<1>4. RoomLeft' /\ EndIsNative' /\ InterruptedOnce'
  BY DEF StopInv, RoomLeft, EndIsNative, InterruptedOnce, Open,
      EventInterruptionRequested, callVars, engineVars
<1>5. StopTypeOK'
  BY <1>1, <1>2 DEF StopInv, StopTypeOK, Requests, Terminal, Unresolved, Refusals,
      EventInterruptionRequested, MergeStopDelivery, MapStopDelivery, callVars,
      engineVars
<1>6. RecordsAreFirst'
  BY StopAssumption DEF StopInv, RecordsAreFirst, StopTypeOK, Requests,
      Terminal, Unresolved, Refusals, EventInterruptionRequested,
      MergeStopDelivery, MapStopDelivery, callVars, engineVars
<1>7. CallHasRecord'
  BY <1>1, <1>2, <1>3 DEF StopInv, CallHasRecord, ReachedIsUnresolved, Open, Unresolved,
      EventInterruptionRequested, callVars
<1>8. LatestIsUnresolved'
  BY <1>1, <1>2, <1>3 DEF StopInv, LatestIsUnresolved, ReachedIsUnresolved, Open, Unresolved,
      EventInterruptionRequested, callVars
<1>9. ReachedIsUnresolved'
  <2>1. CASE notice[r] = "requested" /\ r \in reached
    <3>1. call \notin {"adapter", "refusing"} /\ status'[count] \in Unresolved
      BY <1>0, <1>2, <1>3, <2>1 DEF StopInv, ReachedIsUnresolved, CallHasRecord, Requests, Unresolved
    <3>. QED
      BY <1>2, <3>1 DEF ReachedIsUnresolved, EventInterruptionRequested, callVars, engineVars
  <2>2. CASE notice[r] = "unsupported" /\ call = "refusing" /\ r = mine /\ r \notin reached
    <3>1. reached = {} /\ delivery'[mine] \in {"pending", "unknown", "not-delivered"}
      BY <1>2, <2>2 DEF StopInv, StopTypeOK, ReachedIsUnresolved, EventInterruptionRequested,
         MergeStopDelivery, MapStopDelivery, Refusals
    <3>. QED
      BY <2>2, <3>1 DEF ReachedIsUnresolved, EventInterruptionRequested, callVars, engineVars
  <2>. QED BY <1>1, <2>1, <2>2
<1>10. NoticesAreTrue'
  BY DEF StopInv, StopTypeOK, NoticesAreTrue, Open, EventInterruptionRequested,
      callVars, engineVars
<1>11. StoppedHasOneConfirmation'
  BY StopAssumption DEF StopInv, StoppedHasOneConfirmation, StopTypeOK,
      Requests, Terminal, Unresolved, Refusals, EventInterruptionRequested,
      MergeStopDelivery, MapStopDelivery, callVars, engineVars
<1>12. NothingRequestedOfTheEnded'
  BY DEF StopInv, NothingRequestedOfTheEnded, Terminal,
      EventInterruptionRequested, MergeStopDelivery, MapStopDelivery, callVars,
      engineVars
<1>13. DeliveryIsTrue'
  BY <1>1, <1>2 DEF StopInv, DeliveryIsTrue, StopTypeOK,
      EventInterruptionRequested, MergeStopDelivery, MapStopDelivery,
      engineVars
<1>. QED BY <1>1, <1>2, <1>3, <1>4, <1>5, <1>6, <1>7, <1>8, <1>9, <1>10, <1>11,
    <1>12, <1>13 DEF StopInv

LEMMA EventStartedKeeps ==
  ASSUME StopInv, EventStarted
  PROVE  StopInv'
<1>1. RecordsAreFirst' /\ NoticesAreTrue' /\ DeliveryIsTrue' /\ InterruptedOnce'
  BY DEF StopInv, RecordsAreFirst, NoticesAreTrue, DeliveryIsTrue,
      InterruptedOnce, Open, Terminal, EventStarted, callVars, hostVars, engineVars
<1>2. StopTypeOK'
  BY DEF StopInv, StopTypeOK, Requests, Terminal, Unresolved, Refusals,
      EventStarted, callVars, hostVars, engineVars
<1>3. RoomLeft'
  BY DEF StopInv, RoomLeft, Open, Terminal, EventStarted, callVars, hostVars,
      engineVars
<1>4. CallHasRecord'
  BY DEF StopInv, CallHasRecord, Open, Unresolved, Terminal, EventStarted,
      callVars, hostVars, engineVars
<1>5. LatestIsUnresolved'
  BY DEF StopInv, LatestIsUnresolved, Open, Unresolved, Terminal, EventStarted,
      callVars, hostVars, engineVars
<1>6. EndIsNative'
  BY DEF StopInv, EndIsNative, Terminal, EventStarted, callVars, hostVars,
      engineVars
<1>7. ReachedIsUnresolved'
  BY DEF StopInv, ReachedIsUnresolved, Open, Unresolved, Terminal,
      EventStarted, callVars, hostVars, engineVars
<1>8. StoppedHasOneConfirmation'
  BY DEF StopInv, StoppedHasOneConfirmation, EventStarted, callVars, hostVars,
      engineVars
<1>9. NothingRequestedOfTheEnded'
  BY DEF StopInv, NothingRequestedOfTheEnded, Terminal, EventStarted, callVars,
      hostVars, engineVars
<1>. QED BY <1>1, <1>2, <1>3, <1>4, <1>5, <1>6, <1>7, <1>8, <1>9 DEF StopInv

(* The end of an open Execution: the latest request, if it is unresolved, is  *)
(* the one that is confirmed; if it is not, the new record is.                *)
LEMMA EndsKeeps ==
  ASSUME StopInv, Open, Ends
  PROVE  StopInv'
<1>1. NoticesAreTrue' /\ InterruptedOnce'
  BY DEF StopInv, NoticesAreTrue, InterruptedOnce, Ends, callVars, hostVars,
      engineVars
<1>2. StopTypeOK'
  BY StopAssumption DEF StopInv, StopTypeOK, RoomLeft, Requests, Terminal,
      Unresolved, Refusals, Open, Ends, ConfirmStopRequests, ConfirmUnresolved,
      MarkStopRequestsUnconfirmed, Record, callVars, hostVars, engineVars
<1>3. RoomLeft'
  BY DEF StopInv, RoomLeft, Open, Terminal, Ends, ConfirmStopRequests,
      ConfirmUnresolved, MarkStopRequestsUnconfirmed, Record, callVars,
      hostVars, engineVars
<1>4. RecordsAreFirst'
  BY StopAssumption DEF StopInv, RecordsAreFirst, StopTypeOK, Requests,
      Terminal, Unresolved, Refusals, Ends, ConfirmStopRequests,
      ConfirmUnresolved, MarkStopRequestsUnconfirmed, Record, callVars,
      hostVars, engineVars
<1>5. CallHasRecord'
  BY StopAssumption DEF StopInv, CallHasRecord, StopTypeOK, Open, Unresolved,
      Requests, Terminal, Refusals, Ends, ConfirmStopRequests,
      ConfirmUnresolved, MarkStopRequestsUnconfirmed, Record, callVars,
      hostVars, engineVars
<1>6. LatestIsUnresolved'
  BY DEF StopInv, LatestIsUnresolved, Open, Unresolved, Terminal, Ends,
      ConfirmStopRequests, ConfirmUnresolved, MarkStopRequestsUnconfirmed,
      Record, callVars, hostVars, engineVars
<1>7. EndIsNative'
  BY DEF StopInv, EndIsNative, Terminal, Ends, ConfirmStopRequests,
      ConfirmUnresolved, MarkStopRequestsUnconfirmed, Record, callVars,
      hostVars, engineVars
<1>8. ReachedIsUnresolved'
  BY StopAssumption DEF StopInv, ReachedIsUnresolved, StopTypeOK,
      RecordsAreFirst, CallHasRecord, LatestIsUnresolved,
      StoppedHasOneConfirmation, Open, Unresolved, Requests, Terminal,
      Refusals, Ends, ConfirmStopRequests, ConfirmUnresolved,
      MarkStopRequestsUnconfirmed, Record, callVars, hostVars, engineVars
<1>9. StoppedHasOneConfirmation'
  BY StopAssumption DEF StopInv, StoppedHasOneConfirmation, StopTypeOK,
      RoomLeft, RecordsAreFirst, LatestIsUnresolved, Requests, Terminal,
      Unresolved, Refusals, Open, Ends, ConfirmStopRequests, ConfirmUnresolved,
      MarkStopRequestsUnconfirmed, Record, callVars, hostVars, engineVars
<1>10. NothingRequestedOfTheEnded'
  BY StopAssumption DEF StopInv, NothingRequestedOfTheEnded, StopTypeOK,
      Terminal, Requests, Unresolved, Refusals, Ends, ConfirmStopRequests,
      ConfirmUnresolved, MarkStopRequestsUnconfirmed, Record, callVars,
      hostVars, engineVars
<1>11. DeliveryIsTrue'
  BY StopAssumption DEF StopInv, DeliveryIsTrue, StopTypeOK, RecordsAreFirst,
      CallHasRecord, LatestIsUnresolved, ReachedIsUnresolved,
      StoppedHasOneConfirmation, Requests, Terminal, Unresolved, Refusals,
      Open, Ends, ConfirmStopRequests, ConfirmUnresolved,
      MarkStopRequestsUnconfirmed, Record, callVars, hostVars, engineVars
<1>. QED BY <1>1, <1>2, <1>3, <1>4, <1>5, <1>6, <1>7, <1>8, <1>9, <1>10, <1>11 DEF StopInv

(* What follows changes what is stored of the Execution but no outcome.       *)
LEMMA EventUnknownKeeps ==
  ASSUME StopInv, EventUnknown
  PROVE  StopInv'
<1>1. NoticesAreTrue' /\ InterruptedOnce'
  BY DEF StopInv, NoticesAreTrue, InterruptedOnce, Open, EventUnknown, callVars,
      hostVars, engineVars
<1>2. StopTypeOK'
  BY DEF StopInv, StopTypeOK, Requests, Terminal, Unresolved, Refusals,
      EventUnknown, MarkStopRequestsUnconfirmed, callVars, hostVars, engineVars
<1>3. RoomLeft'
  BY DEF StopInv, RoomLeft, Open, Terminal, EventUnknown,
      MarkStopRequestsUnconfirmed, callVars, hostVars, engineVars
<1>4. RecordsAreFirst'
  BY StopAssumption DEF StopInv, RecordsAreFirst, StopTypeOK, Requests,
      Terminal, Unresolved, Refusals, EventUnknown,
      MarkStopRequestsUnconfirmed, callVars, hostVars, engineVars
<1>5. CallHasRecord'
  BY StopAssumption DEF StopInv, CallHasRecord, StopTypeOK, Open, Unresolved,
      Requests, Terminal, Refusals, EventUnknown, MarkStopRequestsUnconfirmed,
      callVars, hostVars, engineVars
<1>6. LatestIsUnresolved'
  BY DEF StopInv, LatestIsUnresolved, Open, Unresolved, Terminal, EventUnknown,
      MarkStopRequestsUnconfirmed, callVars, hostVars, engineVars
<1>7. EndIsNative'
  BY DEF StopInv, EndIsNative, Terminal, EventUnknown,
      MarkStopRequestsUnconfirmed, callVars, hostVars, engineVars
<1>8. ReachedIsUnresolved'
  BY StopAssumption DEF StopInv, ReachedIsUnresolved, StopTypeOK,
      RecordsAreFirst, CallHasRecord, LatestIsUnresolved,
      StoppedHasOneConfirmation, Open, Unresolved, Requests, Terminal,
      Refusals, EventUnknown, MarkStopRequestsUnconfirmed, callVars, hostVars,
      engineVars
<1>9. StoppedHasOneConfirmation'
  BY StopAssumption DEF StopInv, StoppedHasOneConfirmation, StopTypeOK,
      Requests, Terminal, Unresolved, Refusals, EventUnknown,
      MarkStopRequestsUnconfirmed, callVars, hostVars, engineVars
<1>10. NothingRequestedOfTheEnded'
  BY DEF StopInv, NothingRequestedOfTheEnded, Terminal, EventUnknown,
      MarkStopRequestsUnconfirmed, callVars, hostVars, engineVars
<1>11. DeliveryIsTrue'
  BY DEF StopInv, DeliveryIsTrue, EventUnknown, MarkStopRequestsUnconfirmed,
      callVars, hostVars, engineVars
<1>. QED BY <1>1, <1>2, <1>3, <1>4, <1>5, <1>6, <1>7, <1>8, <1>9, <1>10, <1>11 DEF StopInv

LEMMA EventUnmatchedKeeps ==
  ASSUME StopInv, EventUnmatched
  PROVE  StopInv'
<1>1. RecordsAreFirst' /\ NoticesAreTrue' /\ DeliveryIsTrue' /\ InterruptedOnce'
  BY DEF StopInv, RecordsAreFirst, NoticesAreTrue, DeliveryIsTrue,
      InterruptedOnce, Open, Terminal, EventUnmatched, ExecUnknown, callVars, hostVars, engineVars
<1>2. StopTypeOK'
  BY DEF StopInv, StopTypeOK, Requests, Terminal, Unresolved, Refusals,
      EventUnmatched, ExecUnknown, callVars, hostVars, engineVars
<1>3. RoomLeft'
  BY DEF StopInv, RoomLeft, Open, Terminal, EventUnmatched, ExecUnknown,
      callVars, hostVars, engineVars
<1>4. CallHasRecord'
  BY DEF StopInv, CallHasRecord, Open, Unresolved, Terminal, EventUnmatched,
      ExecUnknown, callVars, hostVars, engineVars
<1>5. LatestIsUnresolved'
  BY DEF StopInv, LatestIsUnresolved, Open, Unresolved, Terminal,
      EventUnmatched, ExecUnknown, callVars, hostVars, engineVars
<1>6. EndIsNative'
  BY DEF StopInv, EndIsNative, Terminal, EventUnmatched, ExecUnknown, callVars,
      hostVars, engineVars
<1>7. ReachedIsUnresolved'
  BY DEF StopInv, ReachedIsUnresolved, Open, Unresolved, Terminal,
      EventUnmatched, ExecUnknown, callVars, hostVars, engineVars
<1>8. StoppedHasOneConfirmation'
  BY StopAssumption DEF StopInv, StoppedHasOneConfirmation, StopTypeOK,
      Requests, Terminal, Unresolved, Refusals, EventUnmatched, ExecUnknown,
      callVars, hostVars, engineVars
<1>9. NothingRequestedOfTheEnded'
  BY DEF StopInv, NothingRequestedOfTheEnded, Terminal, EventUnmatched,
      ExecUnknown, callVars, hostVars, engineVars
<1>. QED BY <1>1, <1>2, <1>3, <1>4, <1>5, <1>6, <1>7, <1>8, <1>9 DEF StopInv

LEMMA StreamEndsKeeps ==
  ASSUME StopInv, StreamEnds
  PROVE  StopInv'
<1>1. RecordsAreFirst' /\ NoticesAreTrue' /\ DeliveryIsTrue' /\ InterruptedOnce'
  BY DEF StopInv, RecordsAreFirst, NoticesAreTrue, DeliveryIsTrue,
      InterruptedOnce, StreamEnds, callVars, engineVars
<1>2. StopTypeOK'
  BY DEF StopInv, StopTypeOK, Requests, Terminal, Unresolved, Refusals,
      StreamEnds, ExecUnknown, callVars, engineVars
<1>3. RoomLeft'
  BY DEF StopInv, RoomLeft, Open, Terminal, StreamEnds, ExecUnknown, callVars,
      engineVars
<1>4. CallHasRecord'
  BY DEF StopInv, CallHasRecord, Open, Unresolved, Terminal, StreamEnds,
      ExecUnknown, callVars, engineVars
<1>5. LatestIsUnresolved'
  BY DEF StopInv, LatestIsUnresolved, Open, Unresolved, Terminal, StreamEnds,
      ExecUnknown, callVars, engineVars
<1>6. EndIsNative'
  BY DEF StopInv, EndIsNative, Terminal, StreamEnds, ExecUnknown, callVars,
      engineVars
<1>7. ReachedIsUnresolved'
  BY DEF StopInv, ReachedIsUnresolved, Open, Unresolved, Terminal, StreamEnds,
      ExecUnknown, callVars, engineVars
<1>8. StoppedHasOneConfirmation'
  BY StopAssumption DEF StopInv, StoppedHasOneConfirmation, StopTypeOK,
      Requests, Terminal, Unresolved, Refusals, StreamEnds, ExecUnknown,
      callVars, engineVars
<1>9. NothingRequestedOfTheEnded'
  BY DEF StopInv, NothingRequestedOfTheEnded, Terminal, StreamEnds,
      ExecUnknown, callVars, engineVars
<1>. QED BY <1>1, <1>2, <1>3, <1>4, <1>5, <1>6, <1>7, <1>8, <1>9 DEF StopInv

(* What happens outside the records.                                          *)
LEMMA NativeEndsKeeps ==
  ASSUME StopInv, NativeEnds
  PROVE  StopInv'
<1>1. RoomLeft' /\ RecordsAreFirst' /\ CallHasRecord' /\ LatestIsUnresolved' /\
    ReachedIsUnresolved' /\ NoticesAreTrue' /\ NothingRequestedOfTheEnded' /\
    DeliveryIsTrue' /\ InterruptedOnce'
  BY DEF StopInv, RoomLeft, RecordsAreFirst, CallHasRecord, LatestIsUnresolved,
      ReachedIsUnresolved, NoticesAreTrue, NothingRequestedOfTheEnded,
      DeliveryIsTrue, InterruptedOnce, Open, NativeEnds, storeVars, callVars,
      hostVars
<1>2. StopTypeOK'
  BY DEF StopInv, StopTypeOK, Requests, Terminal, Unresolved, Refusals,
      NativeEnds, storeVars, callVars, hostVars
<1>3. EndIsNative'
  BY DEF StopInv, EndIsNative, Terminal, NativeEnds, storeVars, callVars,
      hostVars
<1>4. StoppedHasOneConfirmation'
  BY DEF StopInv, StoppedHasOneConfirmation, NativeEnds, storeVars, callVars,
      hostVars
<1>. QED BY <1>1, <1>2, <1>3, <1>4 DEF StopInv

LEMMA RevokeKeeps ==
  ASSUME StopInv, Revoke
  PROVE  StopInv'
<1>1. RoomLeft' /\ RecordsAreFirst' /\ CallHasRecord' /\ LatestIsUnresolved' /\
    EndIsNative' /\ ReachedIsUnresolved' /\ NoticesAreTrue' /\
    StoppedHasOneConfirmation' /\ NothingRequestedOfTheEnded' /\ DeliveryIsTrue' /\
    InterruptedOnce'
  BY DEF StopInv, RoomLeft, RecordsAreFirst, CallHasRecord, LatestIsUnresolved,
      EndIsNative, ReachedIsUnresolved, NoticesAreTrue,
      StoppedHasOneConfirmation, NothingRequestedOfTheEnded, DeliveryIsTrue,
      InterruptedOnce, Open, Revoke, storeVars, callVars, engineVars
<1>2. StopTypeOK'
  BY DEF StopInv, StopTypeOK, Requests, Terminal, Unresolved, Refusals, Revoke,
      storeVars, callVars, engineVars
<1>. QED BY <1>1, <1>2 DEF StopInv

LEMMA RestartKeeps ==
  ASSUME StopInv, Restart
  PROVE  StopInv'
<1>1. RecordsAreFirst' /\ DeliveryIsTrue' /\ InterruptedOnce'
  BY DEF StopInv, RecordsAreFirst, DeliveryIsTrue, InterruptedOnce, Restart,
      engineVars
<1>2. StopTypeOK'
  <2>1. exec' \in {exec, "unknown"}
    BY DEF Restart, ExecUnknown
  <2>2. notice' \in [Requests -> {"none"} \cup Notices]
    BY DEF Restart
  <2>3. mine' \in 0..(MaxRequests + 1)
    BY StopAssumption DEF Restart
  <2>4. stream' \in BOOLEAN /\ attached' \in BOOLEAN
    BY DEF Restart
  <2>. QED BY <2>1, <2>2, <2>3, <2>4 DEF StopInv, StopTypeOK, Restart, engineVars
<1>3. RoomLeft'
  BY DEF StopInv, RoomLeft, Open, Terminal, Restart, ExecUnknown, engineVars
<1>4. CallHasRecord'
  BY StopAssumption DEF StopInv, CallHasRecord, StopTypeOK, Open, Unresolved,
      Requests, Terminal, Refusals, Restart, ExecUnknown, engineVars
<1>5. LatestIsUnresolved'
  BY DEF StopInv, LatestIsUnresolved, Open, Unresolved, Terminal, Restart,
      ExecUnknown, engineVars
<1>6. EndIsNative'
  BY DEF StopInv, EndIsNative, Terminal, Restart, ExecUnknown, engineVars
<1>7. ReachedIsUnresolved'
  BY DEF StopInv, ReachedIsUnresolved, Open, Unresolved, Terminal, Restart,
      ExecUnknown, engineVars
<1>8. NoticesAreTrue'
  BY DEF StopInv, NoticesAreTrue, Restart, ExecUnknown, engineVars
<1>9. StoppedHasOneConfirmation'
  BY StopAssumption DEF StopInv, StoppedHasOneConfirmation, StopTypeOK,
      Requests, Terminal, Unresolved, Refusals, Restart, ExecUnknown,
      engineVars
<1>10. NothingRequestedOfTheEnded'
  BY DEF StopInv, NothingRequestedOfTheEnded, Terminal, Restart, ExecUnknown,
      engineVars
<1>. QED BY <1>1, <1>2, <1>3, <1>4, <1>5, <1>6, <1>7, <1>8, <1>9, <1>10 DEF StopInv

LEMMA StopRefusedKeeps ==
  ASSUME StopInv, StopRefused, "late" \notin Notices
  PROVE  StopInv'
<1>1. /\ mine # 0 /\ mine \notin reached
      /\ call = "refusing" => NoticeIsRead
  BY DEF StopInv, CallHasRecord, ReachedIsUnresolved, StopRefused
<1>2. ASSUME NEW s \in Refusals \cup {"unknown"}, Answer(s, "not-delivered")
      PROVE  StopInv'
  BY <1>1, <1>2, AnswerKeeps DEF Unresolved
<1>3. CASE Answer("unknown", "unknown")
  BY <1>1, <1>3, AnswerKeeps DEF Unresolved
<1>. QED BY <1>2, <1>3 DEF StopRefused, MapStopDelivery, Refusals

LEMMA StopReceiptKeeps ==
  ASSUME StopInv, StopReceipt
  PROVE  StopInv'
<1>1. mine # 0 /\ call # "refusing"
  BY DEF StopInv, CallHasRecord, StopReceipt
<1>2. CASE mine \in reached /\ Answer("requested", "delivered")
  BY <1>1, <1>2, AnswerKeeps DEF Unresolved, Refusals
<1>3. CASE Answer("requested", "unknown") \/ Answer("unknown", "unknown")
  BY <1>1, <1>3, AnswerKeeps DEF Unresolved, Refusals
<1>4. ASSUME mine \notin reached, NEW s \in Refusals, Answer(s, "not-delivered")
      PROVE  StopInv'
  BY <1>1, <1>4, AnswerKeeps
<1>. QED BY <1>2, <1>3, <1>4 DEF StopReceipt, MapStopDelivery, Refusals

LEMMA StopUncertainKeeps ==
  ASSUME StopInv, StopUncertain
  PROVE  StopInv'
<1>1. mine # 0 /\ call # "refusing"
  BY DEF StopInv, CallHasRecord, StopUncertain
<1>. QED BY <1>1, AnswerKeeps DEF StopUncertain, Unresolved, Refusals

(* The initial state satisfies the invariant.                                 *)
LEMMA StopInitially ==
  ASSUME Init
  PROVE  StopInv
<1>1. StopTypeOK
  BY StopAssumption DEF Init, StopTypeOK
<1>2. RoomLeft /\ RecordsAreFirst /\ CallHasRecord
  BY StopAssumption DEF Init, RoomLeft, RecordsAreFirst, CallHasRecord, Requests
<1>3. LatestIsUnresolved /\ EndIsNative /\ ReachedIsUnresolved /\ NoticesAreTrue
  BY DEF Init, LatestIsUnresolved, EndIsNative, ReachedIsUnresolved, NoticesAreTrue,
      Unresolved, Terminal
<1>4. StoppedHasOneConfirmation /\ NothingRequestedOfTheEnded /\ DeliveryIsTrue
      /\ InterruptedOnce
  BY DEF Init, StoppedHasOneConfirmation, NothingRequestedOfTheEnded, DeliveryIsTrue,
      InterruptedOnce, Terminal
<1>. QED BY <1>1, <1>2, <1>3, <1>4 DEF StopInv

(* Every step keeps it.                                                       *)
LEMMA StopStep ==
  ASSUME StopInv, [Next]_vars, "late" \notin Notices
  PROVE  StopInv'
<1>1. CASE RequestStop
  BY <1>1, StopAskedKeeps, StopUnattachedKeeps, StopRecordedKeeps,
     StopDroppedKeeps, StopSentKeeps, StopFoundUnsupportedKeeps, StopRefusedKeeps,
     StopReceiptKeeps, StopUncertainKeeps DEF RequestStop
<1>2. CASE Events
  <2>1. ASSUME NEW r \in Requests, EventInterruptionRequested(r) PROVE StopInv'
    BY <2>1, EventInterruptionRequestedKeeps
  <2>2. CASE EventTerminal
    BY <2>2, EndsKeeps DEF EventTerminal, Open
  <2>. QED
    BY <1>2, <2>1, <2>2, EventStartedKeeps, EventUnknownKeeps, EventUnmatchedKeeps,
       StreamEndsKeeps DEF Events
<1>3. CASE Reconcile
  BY <1>3, EndsKeeps DEF Reconcile, Open, Terminal
<1>4. CASE NativeEnds \/ Revoke \/ Restart
  BY <1>4, NativeEndsKeeps, RevokeKeeps, RestartKeeps
<1>5. CASE UNCHANGED vars
  BY <1>5 DEF StopInv, StopTypeOK, RoomLeft, RecordsAreFirst, CallHasRecord,
      LatestIsUnresolved, EndIsNative, ReachedIsUnresolved, NoticesAreTrue,
      StoppedHasOneConfirmation, NothingRequestedOfTheEnded, DeliveryIsTrue,
      InterruptedOnce, Open, vars, storeVars, callVars, hostVars, engineVars
<1>. QED BY <1>1, <1>2, <1>3, <1>4, <1>5 DEF Next

LEMMA StopInvariance ==
  ASSUME "late" \notin Notices
  PROVE  Spec => []StopInv
<1>1. Init => StopInv
  BY StopInitially
<1>2. StopInv /\ [Next]_vars => StopInv'
  BY StopStep
<1>. QED BY <1>1, <1>2, PTL DEF Spec

-----------------------------------------------------------------------------
(* What holds of the records whatever notices the Engine emits, and however    *)
(* late they are: they are numbered in order, and a call knows its own.        *)
RecordsInv ==
    /\ StopTypeOK /\ RoomLeft /\ RecordsAreFirst
    /\ \A r \in Requests : notice[r] \in {"none", "requested", "unsupported"}
    /\ mine # 0 <=> call \in {"adapter", "refusing", "sent"}
    /\ mine <= count

LEMMA RecordedKeepsRecords ==
  ASSUME RecordsInv, NEW s \in {"requested", "unknown", "confirmed"},
         NEW d \in {"pending", "not-delivered", "not-requested"}, Record(s, d), count <= MaxRequests
  PROVE  /\ count' = count + 1 /\ count' \in 0..(MaxRequests + 1)
         /\ status' \in [Requests -> {"none", "confirmed"} \cup Unresolved \cup Refusals]
         /\ delivery' \in [Requests -> {"none", "pending", "delivered", "not-delivered",
                                       "unknown", "not-requested"}]
         /\ \A r \in Requests : r > count' => status'[r] = "none" /\ delivery'[r] = "none"
BY StopAssumption DEF RecordsInv, StopTypeOK, RecordsAreFirst, Record, Requests, Unresolved

LEMMA RequestKeepsRecords ==
  ASSUME RecordsInv, RequestStop
  PROVE  RecordsInv'
<1> USE DEF RecordsInv
<1>1. CASE StopAsked \/ StopDropped
  BY <1>1 DEF StopAsked, MayAsk, StopDropped, StopTypeOK, RoomLeft, RecordsAreFirst, Open,
     storeVars, hostVars, engineVars
<1>2. CASE StopUnattached
  <2>1. count' = count + 1 /\ count' <= MaxRequests /\ Record("unknown", "not-delivered")
    BY <1>2, StopAssumption DEF StopUnattached, Record, StopTypeOK
  <2>. QED
    BY <1>2, <2>1, RecordedKeepsRecords, StopAssumption
       DEF StopUnattached, StopTypeOK, RoomLeft, RecordsAreFirst, Open, callVars, hostVars, engineVars
<1>3. CASE StopRecorded
  <2>1. count < MaxRequests /\ Record("requested", "pending") /\ count \in Nat
    BY <1>3 DEF StopRecorded, RoomLeft, Open, StopTypeOK
  <2>. QED
    BY <1>3, <2>1, RecordedKeepsRecords, StopAssumption
       DEF StopRecorded, StopTypeOK, RoomLeft, RecordsAreFirst, Open, hostVars, engineVars
<1>4. ASSUME call \in {"adapter", "refusing", "sent"}
      PROVE  mine \in 1..count /\ mine \in Requests
  BY <1>4, StopAssumption DEF StopTypeOK, Requests
<1>5. CASE StopSent \/ StopFoundUnsupported
  BY <1>4, <1>5 DEF StopSent, StopFoundUnsupported, StopTypeOK, RoomLeft, RecordsAreFirst, Open,
     storeVars, engineVars
<1>6. ASSUME NEW s \in Refusals \cup Unresolved, NEW d \in {"delivered", "not-delivered", "unknown"},
             Answer(s, d), mine \in 1..count, mine \in Requests
      PROVE  RecordsInv'
  <2>1. /\ status' = [status EXCEPT ![mine] = status'[mine]]
        /\ status'[mine] \in {"confirmed"} \cup Unresolved \cup Refusals
        /\ delivery' = [delivery EXCEPT ![mine] = delivery'[mine]]
        /\ delivery'[mine] \in {"none", "pending", "delivered", "not-delivered",
                                "unknown", "not-requested"}
    BY <1>6 DEF Answer, Answered, MergeStopDelivery, StopTypeOK, Unresolved
  <2>. QED
    BY <1>6, <2>1, StopAssumption DEF Answer, StopTypeOK, RoomLeft, RecordsAreFirst, Open, Requests,
       hostVars, engineVars
<1>7. CASE StopRefused \/ StopReceipt \/ StopUncertain
  BY <1>4, <1>6, <1>7 DEF StopRefused, StopReceipt, StopUncertain, MapStopDelivery,
     Refusals, Unresolved
<1>. QED BY <1>1, <1>2, <1>3, <1>5, <1>7 DEF RequestStop

LEMMA EventsKeepRecords ==
  ASSUME RecordsInv, Events \/ Reconcile \/ NativeEnds \/ Revoke \/ Restart
  PROVE  RecordsInv'
<1> USE DEF RecordsInv
<1>1. CASE EventStarted \/ EventUnmatched \/ StreamEnds \/ NativeEnds \/ Revoke
  BY <1>1 DEF EventStarted, EventUnmatched, StreamEnds, ExecUnknown, NativeEnds, Revoke,
     StopTypeOK, RoomLeft, RecordsAreFirst, Open, Terminal, storeVars, callVars, hostVars, engineVars
<1>2. CASE Restart
  <2>1. /\ exec' \in {exec, "unknown"} /\ (exec \in Terminal => exec' = exec)
        /\ notice' \in [Requests -> {"none"} \cup Notices]
        /\ \A r \in Requests : notice'[r] = "none"
        /\ mine' = 0 /\ call' = "idle" /\ stream' \in BOOLEAN /\ attached' \in BOOLEAN
        /\ UNCHANGED <<count, status, delivery, permit, native, reached>>
    BY <1>2 DEF Restart, ExecUnknown, engineVars
  <2>2. StopTypeOK'
    BY <2>1, StopAssumption DEF StopTypeOK
  <2>3. RoomLeft'
    BY <2>1 DEF RoomLeft, Open
  <2>4. RecordsAreFirst'
    BY <2>1 DEF RecordsAreFirst
  <2>5. mine' <= count'
    BY <2>1, StopAssumption DEF StopTypeOK
  <2>. QED BY <2>1, <2>2, <2>3, <2>4, <2>5
<1>3. ASSUME MarkStopRequestsUnconfirmed \/ ConfirmUnresolved
      PROVE  /\ count' = count
             /\ status' \in [Requests -> {"none", "confirmed"} \cup Unresolved \cup Refusals]
             /\ delivery' \in [Requests -> {"none", "pending", "delivered", "not-delivered",
                                           "unknown", "not-requested"}]
             /\ \A r \in Requests : r > count => status'[r] = "none" /\ delivery'[r] = "none"
  BY <1>3 DEF MarkStopRequestsUnconfirmed, ConfirmUnresolved, StopTypeOK, RecordsAreFirst, Unresolved
<1>4. CASE EventUnknown
  BY <1>3, <1>4 DEF EventUnknown, StopTypeOK, RoomLeft, RecordsAreFirst, Open, Terminal,
     callVars, hostVars, engineVars
<1>5. CASE Open /\ Ends
  <2>1. count <= MaxRequests /\ count \in Nat /\ native \in Terminal /\ exec' = native
    BY <1>5 DEF Ends, RoomLeft, StopTypeOK
  <2>2. CASE MarkStopRequestsUnconfirmed \/ ConfirmUnresolved
    BY <1>3, <1>5, <2>1, <2>2 DEF Ends, StopTypeOK, RoomLeft, RecordsAreFirst, Open, callVars,
       hostVars, engineVars
  <2>3. CASE Record("confirmed", "not-requested")
    BY <1>5, <2>1, <2>3, RecordedKeepsRecords DEF Ends, StopTypeOK, RoomLeft, RecordsAreFirst, Open,
       callVars, hostVars, engineVars
  <2>. QED BY <1>5, <2>2, <2>3 DEF Ends, ConfirmStopRequests
<1>6. ASSUME NEW r \in Requests, EventInterruptionRequested(r)
      PROVE  RecordsInv'
  <2>1. notice[r] \in {"requested", "unsupported"}
    BY <1>6 DEF EventInterruptionRequested
  <2>2. CASE UNCHANGED <<status, delivery>>
    BY <1>6, <2>2 DEF EventInterruptionRequested, StopTypeOK, RoomLeft, RecordsAreFirst, Open,
       callVars, engineVars
  <2>3. CASE count > 0 /\ delivery[count] # "not-requested"
    <3>1. count \in Requests
      BY <2>3, StopAssumption DEF StopTypeOK, Requests
    <3>2. /\ status' = [status EXCEPT ![count] = status'[count]]
          /\ status'[count] \in {"confirmed"} \cup Unresolved \cup Refusals
          /\ delivery' = [delivery EXCEPT ![count] = delivery'[count]]
          /\ delivery'[count] \in {"none", "pending", "delivered", "not-delivered",
                                   "unknown", "not-requested"}
      BY <1>6, <2>1, <2>3, <3>1 DEF EventInterruptionRequested, MergeStopDelivery,
         MapStopDelivery, StopTypeOK, Unresolved, Refusals
    <3>3. /\ notice' = [notice EXCEPT ![r] = "none"]
          /\ UNCHANGED <<exec, count, call, mine, stream, attached, permit, native, reached>>
      BY <1>6 DEF EventInterruptionRequested, callVars, engineVars
    <3>4. StopTypeOK' /\ RoomLeft'
      BY <3>1, <3>2, <3>3 DEF StopTypeOK, RoomLeft, Open
    <3>5. RecordsAreFirst'
      BY <3>1, <3>2, <3>3 DEF StopTypeOK, RecordsAreFirst
    <3>6. \A q \in Requests : notice'[q] \in {"none", "requested", "unsupported"}
      BY <3>3 DEF StopTypeOK
    <3>. QED
      BY <3>3, <3>4, <3>5, <3>6
  <2>. QED BY <1>6, <2>2, <2>3 DEF EventInterruptionRequested
<1>. QED
  BY <1>1, <1>2, <1>4, <1>5, <1>6 DEF Events, EventTerminal, Reconcile, Open, Terminal

LEMMA RecordsInvariance == Spec => []RecordsInv
<1>1. Init => RecordsInv
  BY StopAssumption DEF Init, RecordsInv, StopTypeOK, RoomLeft, RecordsAreFirst, Requests, Open
<1>2. RecordsInv /\ [Next]_vars => RecordsInv'
  <2>1. RecordsInv /\ UNCHANGED vars => RecordsInv'
    BY DEF RecordsInv, StopTypeOK, RoomLeft, RecordsAreFirst, Open, vars, storeVars, callVars,
       hostVars, engineVars
  <2>. QED BY <2>1, RequestKeepsRecords, EventsKeepRecords DEF Next
<1>. QED BY <1>1, <1>2, PTL DEF Spec

(* The variables keep their types, and the records their room, however many    *)
(* requests the caller makes, for every Engine (requestStop and what it calls). *)
THEOREM StopTypeInvariance == Spec => []StopTypeOK
<1>1. RecordsInv => StopTypeOK
  BY DEF RecordsInv
<1>. QED BY <1>1, RecordsInvariance, PTL

(* An Execution is interrupted at most once: requestStop refuses a second      *)
(* request as long as the first is unresolved, and one that has reached the   *)
(* Engine stays unresolved until the Execution ends.                          *)
THEOREM OneInterrupt ==
  ASSUME "late" \notin Notices
  PROVE  Spec => []InterruptedOnce
<1>1. StopInv => InterruptedOnce
  BY DEF StopInv
<1>. QED BY <1>1, StopInvariance, PTL

(* A stopped Execution has exactly one confirmed request, and no other        *)
(* Execution has any (confirmStopRequests and the merge of late receipts).    *)
THEOREM OneConfirmation ==
  ASSUME "late" \notin Notices
  PROVE  Spec => []StoppedHasOneConfirmation
<1>1. StopInv => StoppedHasOneConfirmation
  BY DEF StopInv
<1>. QED BY <1>1, StopInvariance, PTL

(* What a record says of its delivery is true, and no request of an ended      *)
(* Execution claims to be under way (mergeStopDelivery and                    *)
(* markStopRequestsUnconfirmed).                                              *)
THEOREM RecordsAreTrue ==
  ASSUME "late" \notin Notices
  PROVE  Spec => []RecordsTellTheTruth
<1>1. StopInv => RecordsTellTheTruth
  BY DEF StopInv, RecordsTellTheTruth
<1>. QED BY <1>1, StopInvariance, PTL

(* Confirmations and proofs of delivery are never lost, for every Engine.      *)
(* What a call remembers of its record is a number, and the number of a new   *)
(* record is not yet taken.                                                   *)
LEMMA EvidenceStep ==
  ASSUME RecordsInv, [Next]_vars, NEW r \in Requests
  PROVE  /\ status[r] = "confirmed" => status'[r] = "confirmed"
         /\ delivery[r] = "delivered" => delivery'[r] = "delivered"
<1>1. CASE UNCHANGED <<status, delivery>>
  BY <1>1
<1>2. ASSUME NEW s, NEW d, Record(s, d)
      PROVE  r <= count => status'[r] = status[r] /\ delivery'[r] = delivery[r]
  BY <1>2 DEF RecordsInv, StopTypeOK, Record, Requests
<1>3. r > count => status[r] = "none" /\ delivery[r] = "none"
  BY DEF RecordsInv, RecordsAreFirst
<1>4. r > count \/ r <= count
  BY DEF RecordsInv, StopTypeOK, Requests
<1>5. CASE StopUnattached \/ StopRecorded
  BY <1>2, <1>3, <1>4, <1>5 DEF StopUnattached, StopRecorded
<1>6. ASSUME NEW s, NEW d, Answer(s, d)
      PROVE  /\ status[r] = "confirmed" => status'[r] = "confirmed"
             /\ delivery[r] = "delivered" => delivery'[r] = "delivered"
  BY <1>6 DEF RecordsInv, StopTypeOK, Answer, Answered, MergeStopDelivery
<1>7. CASE StopRefused \/ StopReceipt \/ StopUncertain
  BY <1>6, <1>7 DEF StopRefused, StopReceipt, StopUncertain
<1>8. CASE MarkStopRequestsUnconfirmed \/ ConfirmUnresolved
  BY <1>8 DEF MarkStopRequestsUnconfirmed, ConfirmUnresolved, Unresolved
<1>9. CASE ConfirmStopRequests
  BY <1>2, <1>3, <1>4, <1>8, <1>9 DEF ConfirmStopRequests
<1>10. CASE \E q \in Requests : EventInterruptionRequested(q)
  BY <1>10 DEF RecordsInv, StopTypeOK, EventInterruptionRequested, MergeStopDelivery
<1>11. CASE EventTerminal \/ EventUnknown \/ Reconcile
  BY <1>8, <1>9, <1>11 DEF EventTerminal, EventUnknown, Reconcile, Ends
<1>12. CASE EventStarted \/ EventUnmatched \/ StreamEnds \/ NativeEnds \/ Revoke \/ Restart
  BY <1>1, <1>12 DEF EventStarted, EventUnmatched, StreamEnds, NativeEnds, Revoke, Restart,
      storeVars
<1>13. CASE StopAsked \/ StopDropped \/ StopSent \/ StopFoundUnsupported
  BY <1>1, <1>13 DEF StopAsked, StopDropped, StopSent, StopFoundUnsupported, storeVars
<1>. QED BY <1>1, <1>5, <1>7, <1>10, <1>11, <1>12, <1>13
         DEF Next, RequestStop, Events, vars, storeVars

(* A late receipt, a late notice, the end of the Execution and a restart take *)
(* no confirmation and no proof of delivery away.                             *)
THEOREM EvidenceStays == Spec => EvidenceIsKept
<1>1. RecordsInv /\ [Next]_vars =>
        [\A r \in Requests :
           /\ status[r] = "confirmed" => status'[r] = "confirmed"
           /\ delivery[r] = "delivered" => delivery'[r] = "delivered"]_vars
  BY EvidenceStep
<1>. QED BY <1>1, RecordsInvariance, PTL DEF Spec, EvidenceIsKept

(* No interrupt is sent unless the guard holds at that moment, for every      *)
(* Engine (beforeStopDispatch).                                               *)
THEOREM QualifiedStops == Spec => StopsAreQualified
<1>1. [Next]_vars =>
        [call' = "sent" /\ call # "sent" => permit /\ attached /\ exec \notin Terminal]_vars
  BY DEF Next, RequestStop, Events, StopAsked, StopUnattached, StopRecorded, StopDropped,
      StopSent, BeforeStopDispatch, StopFoundUnsupported, StopRefused, StopReceipt,
      StopUncertain, Answer, EventInterruptionRequested, EventStarted, EventTerminal,
      EventUnknown, EventUnmatched, StreamEnds, Reconcile, Ends, NativeEnds, Revoke,
      Restart, vars, callVars
<1>. QED BY <1>1, PTL DEF Spec, StopsAreQualified

===============================================================================
