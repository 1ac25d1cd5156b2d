------------------------------ MODULE ChannelRpc ------------------------------
(***************************************************************************)
(* One ChannelClient and its ChannelServer over an ordered transport: the  *)
(* calls and the event subscriptions of one channel.  Requests may be made *)
(* before the server says that it is ready, may reach it before the        *)
(* channel is registered, and may be given up at any time.                 *)
(***************************************************************************)
EXTENDS Naturals, Sequences, SequencesExt

CONSTANTS Calls, Events   \* the calls and the subscriptions of the client

ASSUME RpcAssumption == Calls \cap Events = {}

Requests == Calls \cup Events
Settled == {"answered", "failed", "cancelled", "closed"}

VARIABLES
    initialized,  \* the client has seen Initialize
    disposed,     \* the client was disposed; its transport is gone
    call,         \* the promise of each call
    heard,        \* the Emitter of each subscription: whether somebody listens
    deferred,     \* requests that wait for whenInitialized
    up, down,     \* messages to the server and to the client
    ready,        \* the server has sent Initialize
    registered,   \* registerChannel was called
    flushed,      \* and its flushPendingRequests has run
    pending,      \* pendingRequests of the channel
    late,         \* those whose timer has fired
    active,       \* activeRequests of the server
    running,      \* calls that the channel has not finished
    tokens,       \* those whose token is cancelled
    runs,         \* ghost: how often the channel was called, up to 2
    waited        \* ghost: the requests that waited, for Initialize or for the channel

clientVars == <<initialized, disposed, call, heard, deferred>>
serverVars == <<ready, registered, flushed, pending, late, active, running, tokens, runs>>
protocolVars == <<clientVars, up, down, serverVars>>
vars == <<protocolVars, waited>>

Init ==
    /\ initialized = FALSE /\ disposed = FALSE
    /\ call = [c \in Calls |-> "none"]
    /\ heard = [v \in Events |-> "none"]
    /\ deferred = {} /\ up = <<>> /\ down = <<>>
    /\ ready = FALSE /\ registered \in BOOLEAN /\ flushed = registered
    /\ pending = <<>> /\ late = {} /\ active = {} /\ running = {} /\ tokens = {}
    /\ runs = [c \in Calls |-> 0] /\ waited = {}

Message(type, k) == [type |-> type, id |-> k]

-----------------------------------------------------------------------------
(* The client.                                                               *)

(* doRequest at once, or when the server is ready.                            *)
RequestOrDefer(type, k) ==
    IF initialized
    THEN up' = Append(up, Message(type, k)) /\ UNCHANGED deferred
    ELSE deferred' = deferred \cup {k} /\ UNCHANGED up

RequestPromise(c) ==
    /\ ~disposed /\ call[c] = "none"
    /\ call' = [call EXCEPT ![c] = "asked"]
    /\ RequestOrDefer("Promise", c)
    /\ UNCHANGED <<initialized, disposed, heard, down, serverVars>>

(* The first listener of the event.                                           *)
Listen(v) ==
    /\ ~disposed /\ heard[v] = "none"
    /\ heard' = [heard EXCEPT ![v] = "on"]
    /\ RequestOrDefer("EventListen", v)
    /\ UNCHANGED <<initialized, disposed, call, down, serverVars>>

(* doRequest of a call checks that the call is still wanted.                  *)
StillWanted(k) == k \in Calls => call[k] = "asked"

RequestInitialized(k) ==
    /\ initialized /\ k \in deferred
    /\ deferred' = deferred \ {k}
    /\ up' = IF StillWanted(k) /\ ~disposed
             THEN Append(up, Message(IF k \in Calls THEN "Promise" ELSE "EventListen", k))
             ELSE up
    /\ UNCHANGED <<initialized, disposed, call, heard, down, serverVars>>

Cancel(c) ==
    /\ ~disposed /\ call[c] = "asked"
    /\ call' = [call EXCEPT ![c] = "cancelled"]
    /\ up' = Append(up, Message("PromiseCancel", c))
    /\ UNCHANGED <<initialized, disposed, heard, deferred, down, serverVars>>

(* The last listener leaves.  It does not come back to the same Emitter.      *)
Unlisten(v) ==
    /\ ~disposed /\ heard[v] = "on"
    /\ heard' = [heard EXCEPT ![v] = "off"]
    /\ up' = Append(up, Message("EventDispose", v))
    /\ UNCHANGED <<initialized, disposed, call, deferred, down, serverVars>>

(* onBuffer.  A response to a request that has no handler has no effect.      *)
ClientReceives ==
    /\ ~disposed /\ down # <<>>
    /\ down' = Tail(down)
    /\ LET msg == Head(down)
           mine == msg.id \in Calls /\ call[msg.id] = "asked"
       IN /\ initialized' = (initialized \/ msg.type = "Initialize")
          /\ call' = CASE mine /\ msg.type = "PromiseSuccess" -> [call EXCEPT ![msg.id] = "answered"]
                       [] mine /\ msg.type = "PromiseError" -> [call EXCEPT ![msg.id] = "failed"]
                       [] OTHER -> call
    /\ UNCHANGED <<disposed, heard, deferred, up, serverVars>>

RejectPending == [c \in Calls |-> IF call[c] = "asked" THEN "closed" ELSE call[c]]

(* The transport is gone: both ends are disposed.                             *)
Dispose ==
    /\ ~disposed /\ disposed' = TRUE
    /\ call' = RejectPending
    /\ heard' = [v \in Events |-> IF heard[v] = "on" THEN "off" ELSE heard[v]]
    /\ up' = <<>> /\ down' = <<>>
    /\ tokens' = tokens \cup (active \cap Calls) /\ active' = {}
    /\ UNCHANGED <<initialized, deferred, ready, registered, flushed, pending, late, running, runs>>

-----------------------------------------------------------------------------
(* The server.                                                               *)

Ready ==
    /\ ~disposed /\ ~ready /\ ready' = TRUE
    /\ down' = Append(down, Message("Initialize", "none"))
    /\ UNCHANGED <<clientVars, up, registered, flushed, pending, late, active, running, tokens, runs>>

(* onPromise and onEventListen for requests that find their channel.          *)
Serve(ks) ==
    /\ active' = active \cup ks
    /\ running' = running \cup (ks \cap Calls)
    /\ runs' = [c \in Calls |-> IF c \in ks /\ runs[c] < 2 THEN runs[c] + 1 ELSE runs[c]]

(* Faulty variant: the request is forgotten and its token left alone.          *)
ForgetActive(k) ==
    /\ active' = active \ {k}
    /\ UNCHANGED <<tokens, running, runs>>

(* disposeActiveRequest.                                                      *)
DisposeActive(k) ==
    /\ active' = active \ {k}
    /\ tokens' = IF k \in active \cap Calls THEN tokens \cup {k} ELSE tokens
    /\ UNCHANGED <<running, runs>>

(* onRawMessage.  A request for a channel that is not there is collected.     *)
ServerReceives ==
    /\ up # <<>> /\ up' = Tail(up)
    /\ LET msg == Head(up) IN
       IF msg.type \in {"Promise", "EventListen"}
       THEN /\ IF registered
               THEN Serve({msg.id}) /\ UNCHANGED pending
               ELSE pending' = Append(pending, msg.id) /\ UNCHANGED <<active, running, runs>>
            /\ UNCHANGED tokens
       ELSE DisposeActive(msg.id) /\ UNCHANGED pending
    /\ UNCHANGED <<clientVars, down, ready, registered, flushed, late>>

(* Faulty variant: nobody is told.                                             *)
PendingTimerOnlyLogs(k) ==
    /\ Contains(pending, k) /\ k \notin late
    /\ late' = late \cup {k}
    /\ UNCHANGED <<clientVars, up, down, ready, registered, flushed, pending, active, running, tokens, runs>>

(* The timer of a collected request.  Only a call is told.                    *)
PendingTimer(k) ==
    /\ Contains(pending, k) /\ k \notin late
    /\ late' = late \cup {k}
    /\ down' = IF k \in Calls /\ ~disposed THEN Append(down, Message("PromiseError", k)) ELSE down
    /\ UNCHANGED <<clientVars, up, ready, registered, flushed, pending, active, running, tokens, runs>>

RegisterChannel ==
    /\ ~registered /\ registered' = TRUE
    /\ UNCHANGED <<clientVars, up, down, ready, flushed, pending, late, active, running, tokens, runs>>

(* Faulty variant: what is served stays collected.                             *)
KeepPending == UNCHANGED pending

ForgetPending == pending' = <<>>

(* flushPendingRequests, in a timer of its own.  Also a request that was       *)
(* answered with an error, was cancelled, or was disposed is served.          *)
FlushPendingRequests ==
    /\ registered /\ ~flushed
    /\ flushed' = TRUE
    /\ Serve(ToSet(pending))
    /\ ForgetPending
    /\ UNCHANGED <<clientVars, up, down, ready, registered, late, tokens>>

(* The channel finishes a call, with a result or an error.                    *)
ChannelFinishes(c) ==
    /\ c \in running
    /\ running' = running \ {c} /\ active' = active \ {c}
    /\ \E type \in {"PromiseSuccess", "PromiseError"} :
          down' = IF disposed THEN down ELSE Append(down, Message(type, c))
    /\ UNCHANGED <<clientVars, up, ready, registered, flushed, pending, late, tokens, runs>>

Step ==
    \/ \E c \in Calls : RequestPromise(c) \/ Cancel(c) \/ ChannelFinishes(c)
    \/ \E v \in Events : Listen(v) \/ Unlisten(v)
    \/ \E k \in Requests : RequestInitialized(k) \/ PendingTimer(k)
    \/ ClientReceives \/ Dispose
    \/ Ready \/ ServerReceives \/ RegisterChannel \/ FlushPendingRequests

Waits == deferred \cup ToSet(pending)

Next == Step /\ waited' = waited \cup Waits'

Spec == Init /\ [][Next]_vars

(* Messages arrive, timers fire and channels finish their calls.              *)
Fairness ==
    /\ \A c \in Calls : WF_protocolVars(ChannelFinishes(c))
    /\ \A k \in Requests : WF_protocolVars(RequestInitialized(k)) /\ WF_protocolVars(PendingTimer(k))
    /\ WF_protocolVars(Ready) /\ WF_protocolVars(ClientReceives)
    /\ WF_protocolVars(ServerReceives) /\ WF_protocolVars(FlushPendingRequests)

LiveSpec == Spec /\ Fairness

-----------------------------------------------------------------------------
(* Properties.                                                               *)

(* The types of the variables.                                                *)
RpcTypeOK ==
    /\ call \in [Calls -> {"none", "asked"} \cup Settled]
    /\ heard \in [Events -> {"none", "on", "off"}]
    /\ deferred \subseteq Requests /\ ToSet(pending) \subseteq Requests /\ late \subseteq Requests
    /\ active \subseteq Requests /\ running \subseteq Calls /\ tokens \subseteq Calls
    /\ runs \in [Calls -> 0..2]
    /\ {initialized, disposed, ready, registered, flushed} \subseteq BOOLEAN
    /\ Waits \subseteq waited /\ waited \subseteq Requests

(* A call is executed at most once, also when it was collected while its       *)
(* channel was being registered.                                              *)
ExecutedOnce ==
    \A c \in Calls : runs[c] <= 1 /\ (runs[c] = 1 => ~Contains(pending, c))

(* A call that was cancelled or rejected before the server was ready is never *)
(* sent ("requests already rejected must not be sent").                       *)
RejectedIsNotSent ==
    \A c \in Calls : Len(up') > Len(up) /\ up'[Len(up')] = Message("Promise", c)
       => call'[c] = "asked"

(* Whoever gave a request up is not served any more once the server has heard  *)
(* of it: a cancelled call has a cancelled token, and an event is not listened *)
(* to for nobody.  It takes a request that did not wait: the cancellation of   *)
(* one that waits for the channel is lost, and a listener that leaves before   *)
(* Initialize is announced after it has left.                                 *)
GivenUpIsDropped ==
    /\ \A c \in Calls \ waited : call[c] = "cancelled" /\ ~Contains(up, Message("PromiseCancel", c))
          => c \notin running \ tokens
    /\ \A v \in Events \ waited : heard[v] = "off" /\ ~Contains(up, Message("EventDispose", v))
          => v \notin active

(* Every call settles: its channel answers, its timer fires, or the client     *)
(* gives it up or is disposed.                                                *)
CallsSettle == \A c \in Calls : call[c] = "asked" ~> call[c] \in Settled

(* A client that is disposed leaves no call behind.                           *)
DisposedIsSettled == disposed => \A c \in Calls : call[c] # "asked"

(* A call is executed at most once, and none is left open by a client that is  *)
(* gone.                                                                      *)
CallsAreTrue == RpcTypeOK /\ ExecutedOnce /\ DisposedIsSettled

(* A request that was given up is not sent, and not served any more.           *)
GivenUpStaysSo == [][GivenUpIsDropped' /\ RejectedIsNotSent]_vars
===============================================================================
