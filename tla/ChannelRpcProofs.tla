--------------------------- MODULE ChannelRpcProofs ---------------------------
(***************************************************************************)
(* Safety of ChannelRpc, for every set of calls and subscriptions.         *)
(*                                                                         *)
(* A call is one token that moves: it waits for Initialize, is on the way, *)
(* waits for the channel, or was run; it is in one of these places at      *)
(* most.  A cancellation is behind the request it cancels on the ordered   *)
(* transport, so that it finds what it has to stop, unless the request was *)
(* taken out of that order because it waited.                              *)
(***************************************************************************)
EXTENDS ChannelRpc, TLAPS

(* What is on the way to the server.                                          *)
UpMessages == [type : {"Promise", "PromiseCancel"}, id : Calls]
                 \cup [type : {"EventListen", "EventDispose"}, id : Events]

Sent(type, k) == Contains(up, Message(type, k))

Once(s, x) == \A i, j \in 1..Len(s) : s[i] = x /\ s[j] = x => i = j

Before(s, x, y) == \A i, j \in 1..Len(s) : s[i] = x /\ s[j] = y => i < j

OnceSent(type, k) == Once(up, Message(type, k))

InOrder(first, second, k) == Before(up, Message(first, k), Message(second, k))

Shape ==
    /\ RpcTypeOK /\ DisposedIsSettled
    /\ up \in Seq(UpMessages) /\ pending \in Seq(Requests)

(* Where a call is, before it has been run.                                   *)
Unrun(c) == c \notin ToSet(pending) /\ runs[c] = 0

CallOK(c) ==
    /\ call[c] = "none" \/ c \in deferred => ~Sent("Promise", c) /\ Unrun(c)
    /\ call[c] = "none" => c \notin deferred
    /\ Sent("Promise", c) => Unrun(c)
    /\ OnceSent("Promise", c)
    /\ c \in ToSet(pending) => runs[c] = 0
    /\ runs[c] <= 1

(* A cancellation follows its call, and leaves nothing running.               *)
CancelOK(c) ==
    /\ Sent("PromiseCancel", c) => call[c] = "cancelled"
    /\ c \in running \ tokens => c \in active
    /\ c \notin waited =>
          /\ InOrder("Promise", "PromiseCancel", c)
          /\ call[c] = "cancelled" /\ ~Sent("PromiseCancel", c)
                => ~Sent("Promise", c) /\ c \notin running \ tokens

(* The same of a subscription and its end.                                    *)
ListenOK(v) ==
    /\ Sent("EventDispose", v) => heard[v] = "off"
    /\ v \notin waited =>
          /\ InOrder("EventListen", "EventDispose", v)
          /\ heard[v] = "off" /\ ~Sent("EventDispose", v)
                => ~Sent("EventListen", v) /\ v \notin active

RpcInv ==
    /\ Shape
    /\ \A c \in Calls : CallOK(c) /\ CancelOK(c)
    /\ \A v \in Events : ListenOK(v)

-----------------------------------------------------------------------------
(* Messages in a sequence.                                                   *)

LEMMA AppendContains ==
    ASSUME NEW S, NEW s \in Seq(S), NEW e \in S, NEW x
    PROVE  /\ Append(s, e) \in Seq(S)
           /\ Contains(Append(s, e), x) <=> Contains(s, x) \/ x = e
           /\ Once(s, x) /\ (x # e \/ ~Contains(s, x)) => Once(Append(s, e), x)
<1>1. /\ Append(s, e) \in Seq(S) /\ Len(s) \in Nat /\ Len(Append(s, e)) = Len(s) + 1
      /\ \A i \in 1..Len(s) : Append(s, e)[i] = s[i]
      /\ Append(s, e)[Len(s) + 1] = e
  OBVIOUS
<1>2. Contains(Append(s, e), x) <=> Contains(s, x) \/ x = e
  BY <1>1 DEF Contains
<1>3. Once(s, x) /\ (x # e \/ ~Contains(s, x)) => Once(Append(s, e), x)
  BY <1>1 DEF Contains, Once
<1>4. QED
  BY <1>1, <1>2, <1>3

LEMMA AppendBefore ==
    ASSUME NEW S, NEW s \in Seq(S), NEW e \in S, NEW x, NEW y, x # y,
           Before(s, x, y), x # e \/ ~Contains(s, y)
    PROVE  Before(Append(s, e), x, y)
<1>1. /\ Len(s) \in Nat /\ Len(Append(s, e)) = Len(s) + 1
      /\ \A i \in 1..Len(s) : Append(s, e)[i] = s[i]
      /\ Append(s, e)[Len(s) + 1] = e
  OBVIOUS
<1>2. QED
  BY <1>1 DEF Contains, Before

LEMMA TailContains ==
    ASSUME NEW S, NEW s \in Seq(S), s # <<>>, NEW x
    PROVE  /\ Tail(s) \in Seq(S) /\ Head(s) \in S
           /\ Contains(s, x) <=> x = Head(s) \/ Contains(Tail(s), x)
           /\ Once(s, x) => Once(Tail(s), x)
           /\ Once(s, x) /\ x = Head(s) => ~Contains(Tail(s), x)
<1>1. /\ Tail(s) \in Seq(S) /\ Head(s) \in S /\ Head(s) = s[1]
      /\ Len(s) \in Nat \ {0} /\ Len(Tail(s)) = Len(s) - 1
      /\ \A i \in 1..(Len(s) - 1) : Tail(s)[i] = s[i + 1]
  OBVIOUS
<1>2. Contains(Tail(s), x) => Contains(s, x)
  BY <1>1 DEF Contains
<1>3. ASSUME NEW i \in 1..Len(s), s[i] = x, i # 1 PROVE Contains(Tail(s), x)
  <2>1. i - 1 \in 1..Len(Tail(s)) /\ Tail(s)[i - 1] = x
    BY <1>1, <1>3
  <2>2. QED
    BY <2>1 DEF Contains
<1>4. Contains(s, x) <=> x = Head(s) \/ Contains(Tail(s), x)
  BY <1>1, <1>2, <1>3 DEF Contains
<1>5. ASSUME Once(s, x) PROVE Once(Tail(s), x)
  <2> SUFFICES ASSUME NEW i \in 1..Len(Tail(s)), NEW j \in 1..Len(Tail(s)),
                      Tail(s)[i] = x, Tail(s)[j] = x
               PROVE  i = j
    BY DEF Once
  <2>1. i + 1 \in 1..Len(s) /\ j + 1 \in 1..Len(s) /\ s[i + 1] = x /\ s[j + 1] = x
    BY <1>1
  <2>2. i + 1 = j + 1
    BY <1>5, <2>1 DEF Once
  <2>3. QED
    BY <2>2
<1>6. ASSUME Once(s, x), x = Head(s), NEW i \in 1..Len(Tail(s)), Tail(s)[i] = x PROVE FALSE
  <2>1. i + 1 \in 1..Len(s) /\ s[i + 1] = x /\ 1 \in 1..Len(s) /\ s[1] = x
    BY <1>1, <1>6
  <2>2. i + 1 = 1
    BY <1>6, <2>1 DEF Once
  <2>3. QED
    BY <2>2
<1>7. QED
  BY <1>1, <1>4, <1>5, <1>6 DEF Contains

LEMMA TailBefore ==
    ASSUME NEW S, NEW s \in Seq(S), s # <<>>, NEW x, NEW y, Before(s, x, y)
    PROVE  Before(Tail(s), x, y) /\ (y = Head(s) => ~Contains(s, x))
<1>1. /\ Head(s) = s[1] /\ Len(s) \in Nat \ {0} /\ Len(Tail(s)) = Len(s) - 1
      /\ \A i \in 1..(Len(s) - 1) : Tail(s)[i] = s[i + 1]
  OBVIOUS
<1>2. Before(Tail(s), x, y)
  <2> SUFFICES ASSUME NEW i \in 1..Len(Tail(s)), NEW j \in 1..Len(Tail(s)),
                      Tail(s)[i] = x, Tail(s)[j] = y
               PROVE  i < j
    BY DEF Before
  <2>1. i + 1 \in 1..Len(s) /\ j + 1 \in 1..Len(s) /\ s[i + 1] = x /\ s[j + 1] = y
    BY <1>1
  <2>2. i + 1 < j + 1
    BY <2>1 DEF Before
  <2>3. QED
    BY <2>2
<1>3. ASSUME y = Head(s), NEW i \in 1..Len(s), s[i] = x PROVE FALSE
  BY <1>1, <1>3 DEF Before
<1>4. QED
  BY <1>2, <1>3 DEF Contains

LEMMA EmptyContains ==
    \A x, y : ~Contains(<<>>, x) /\ Once(<<>>, x) /\ Before(<<>>, x, y)
BY DEF Contains, Once, Before

LEMMA SetOf ==
    ASSUME NEW S, NEW s \in Seq(S)
    PROVE  /\ \A x : Contains(s, x) <=> x \in ToSet(s)
           /\ \A e \in S : ToSet(Append(s, e)) = ToSet(s) \cup {e}
           /\ ToSet(s) \subseteq S
<1>1. \A x : Contains(s, x) <=> x \in ToSet(s)
  BY DEF Contains, ToSet
<1>2. ASSUME NEW e \in S PROVE ToSet(Append(s, e)) = ToSet(s) \cup {e}
  <2>1. /\ DOMAIN Append(s, e) = DOMAIN s \cup {Len(s) + 1} /\ Append(s, e)[Len(s) + 1] = e
        /\ \A i \in DOMAIN s : Append(s, e)[i] = s[i]
    OBVIOUS
  <2>2. QED
    BY <2>1, Zenon DEF ToSet
<1>3. ToSet(s) \subseteq S
  BY DEF ToSet
<1>4. QED
  BY <1>1, <1>2, <1>3
LEMMA Messages ==
    \A t1, k1, t2, k2 : Message(t1, k1) = Message(t2, k2) <=> t1 = t2 /\ k1 = k2
BY DEF Message

(* A message is sent to the server.                                           *)
LEMMA Sends ==
    ASSUME up \in Seq(UpMessages), NEW t, NEW k, Message(t, k) \in UpMessages,
           up' = Append(up, Message(t, k))
    PROVE  /\ up' \in Seq(UpMessages)
           /\ \A t2, k2 : Sent(t2, k2)' <=> Sent(t2, k2) \/ (t2 = t /\ k2 = k)
           /\ \A t2, k2 : OnceSent(t2, k2) /\ (t2 # t \/ k2 # k \/ ~Sent(t2, k2))
                             => OnceSent(t2, k2)'
           /\ \A a, b, k2 : a # b /\ InOrder(a, b, k2) /\ (a # t \/ k2 # k \/ ~Sent(b, k2))
                               => InOrder(a, b, k2)'
<1>1. up' \in Seq(UpMessages)
  OBVIOUS
<1>2. ASSUME NEW t2, NEW k2
      PROVE  /\ Sent(t2, k2)' <=> Sent(t2, k2) \/ (t2 = t /\ k2 = k)
             /\ OnceSent(t2, k2) /\ (t2 # t \/ k2 # k \/ ~Sent(t2, k2)) => OnceSent(t2, k2)'
  BY Messages, AppendContains DEF Sent, OnceSent
<1>3. ASSUME NEW a, NEW b, NEW k2, a # b, InOrder(a, b, k2), a # t \/ k2 # k \/ ~Sent(b, k2)
      PROVE  InOrder(a, b, k2)'
  BY <1>3, Messages, AppendBefore DEF Sent, InOrder
<1>4. QED
  BY <1>1, <1>2, <1>3

(* The server receives a message.                                             *)
LEMMA Receives ==
    ASSUME up \in Seq(UpMessages), up # <<>>, up' = Tail(up)
    PROVE  /\ up' \in Seq(UpMessages)
           /\ \E t, k :
                 /\ Head(up) = Message(t, k) /\ Message(t, k) \in UpMessages
                 /\ \A t2, k2 : Sent(t2, k2) <=> Sent(t2, k2)' \/ (t2 = t /\ k2 = k)
                 /\ OnceSent(t, k) => ~Sent(t, k)'
                 /\ \A a : InOrder(a, t, k) => ~Sent(a, k)
           /\ \A t2, k2 : OnceSent(t2, k2) => OnceSent(t2, k2)'
           /\ \A a, b, k2 : InOrder(a, b, k2) => InOrder(a, b, k2)'
<1>1. Head(up) \in UpMessages /\ up' \in Seq(UpMessages)
  OBVIOUS
<1>2. PICK t, k : Head(up) = Message(t, k)
  BY <1>1 DEF UpMessages, Message
<1>3. \A t2, k2 : Sent(t2, k2) <=> Sent(t2, k2)' \/ (t2 = t /\ k2 = k)
  BY <1>2, TailContains, Messages DEF Sent
<1>4. OnceSent(t, k) => ~Sent(t, k)'
  BY <1>2, TailContains DEF Sent, OnceSent
<1>5. \A a : InOrder(a, t, k) => ~Sent(a, k)
  BY <1>2, TailBefore DEF Sent, InOrder
<1>6. \A t2, k2 : OnceSent(t2, k2) => OnceSent(t2, k2)'
  BY TailContains DEF OnceSent
<1>7. \A a, b, k2 : InOrder(a, b, k2) => InOrder(a, b, k2)'
  BY TailBefore DEF InOrder
<1>8. QED
  BY <1>1, <1>2, <1>3, <1>4, <1>5, <1>6, <1>7

LEMMA MessageTypes ==
    /\ \A c \in Calls : /\ Message("Promise", c) \in UpMessages
                         /\ Message("PromiseCancel", c) \in UpMessages
    /\ \A v \in Events : /\ Message("EventListen", v) \in UpMessages
                          /\ Message("EventDispose", v) \in UpMessages
    /\ \A t, k : Message(t, k) \in UpMessages =>
          \/ t \in {"Promise", "PromiseCancel"} /\ k \in Calls
          \/ t \in {"EventListen", "EventDispose"} /\ k \in Events
BY DEF Message, UpMessages

-----------------------------------------------------------------------------
(* The steps.                                                                *)

LEMMA InitRpc == Init => RpcInv
<1> SUFFICES ASSUME Init PROVE RpcInv
  OBVIOUS
<1>1. ToSet(<<>>) = {}
  BY DEF ToSet
<1>2. Shape
  <2>1. up \in Seq(UpMessages) /\ pending \in Seq(Requests)
    BY DEF Init
  <2>2. {initialized, disposed, ready, registered, flushed} \subseteq BOOLEAN
    BY DEF Init
  <2>3. Waits \subseteq waited /\ waited \subseteq Requests /\ ToSet(pending) \subseteq Requests
    BY <1>1 DEF Init, Waits
  <2>4. /\ call \in [Calls -> {"none", "asked"} \cup Settled]
        /\ heard \in [Events -> {"none", "on", "off"}] /\ runs \in [Calls -> 0..2]
    BY DEF Init
  <2>5. QED
    BY <2>1, <2>2, <2>3, <2>4 DEF Init, Shape, RpcTypeOK, DisposedIsSettled
<1>3. \A c \in Calls : CallOK(c) /\ CancelOK(c)
  BY <1>1, EmptyContains DEF Init, CallOK, CancelOK, Unrun, Sent, OnceSent, InOrder
<1>4. \A v \in Events : ListenOK(v)
  BY EmptyContains DEF Init, ListenOK, Sent, InOrder
<1>5. QED
  BY <1>2, <1>3, <1>4 DEF RpcInv
(* What every step does to the requests that have waited.                      *)
Follows == waited' = waited \cup Waits'

LEMMA WaitGrows ==
    ASSUME Follows
    PROVE  waited \subseteq waited' /\ deferred' \subseteq waited' /\ ToSet(pending') \subseteq waited'
BY DEF Follows, Waits

LEMMA WaitedTypes ==
    ASSUME Shape, Follows, deferred' \subseteq Requests, ToSet(pending') \subseteq Requests
    PROVE  Waits' \subseteq waited' /\ waited' \subseteq Requests
BY DEF Follows, Waits, Shape, RpcTypeOK

(* A step that sends and receives no request, and settles no call of the client *)
(* by cancelling it.                                                          *)
LEMMA QuietRpc ==
    ASSUME RpcInv, Follows, UNCHANGED <<up, heard, deferred, pending, active, running, tokens, runs>>,
           \A c \in Calls : call'[c] # call[c] => call[c] = "asked" /\ call'[c] \in {"answered", "failed"},
           Shape'
    PROVE  RpcInv'
<1>1. waited \subseteq waited'
  BY WaitGrows
<1>2. ASSUME NEW c \in Calls PROVE CallOK(c)' /\ CancelOK(c)'
  BY <1>1 DEF RpcInv, CallOK, CancelOK, Unrun, Sent, OnceSent, InOrder
<1>3. ASSUME NEW v \in Events PROVE ListenOK(v)'
  BY <1>1 DEF RpcInv, ListenOK, Sent, InOrder
<1>4. QED
  BY <1>2, <1>3 DEF RpcInv


LEMMA RequestPromiseRpc ==
    ASSUME RpcInv, Follows, NEW c \in Calls, RequestPromise(c)
    PROVE  RpcInv'
<1> USE DEF RequestPromise, RequestOrDefer, clientVars, serverVars
<1>1. Shape /\ waited \subseteq waited' /\ deferred' \subseteq waited'
  BY WaitGrows DEF RpcInv
<1>2. Message("Promise", c) \in UpMessages /\ up \in Seq(UpMessages)
  BY <1>1, MessageTypes DEF Shape
<1>3. up' \in Seq(UpMessages)
  BY <1>2, Sends DEF Shape
<1>4. Shape'
  <2>1. deferred' \subseteq Requests /\ ToSet(pending') \subseteq Requests
    BY <1>1 DEF Shape, RpcTypeOK, Requests
  <2>2. call' \in [Calls -> {"none", "asked"} \cup Settled]
    BY <1>1 DEF Shape, RpcTypeOK
  <2>3. QED
    BY <1>1, <1>3, <2>1, <2>2, WaitedTypes DEF Shape, RpcTypeOK, DisposedIsSettled
<1>5. /\ CallOK(c) /\ CancelOK(c) /\ call[c] = "none"
      /\ call' = [call EXCEPT ![c] = "asked"] /\ call \in [Calls -> {"none", "asked"} \cup Settled]
  BY <1>1 DEF RpcInv, Shape, RpcTypeOK
<1>6. CASE initialized
  <2>1. /\ \A t2, k2 : Sent(t2, k2)' <=> Sent(t2, k2) \/ (t2 = "Promise" /\ k2 = c)
        /\ \A t2, k2 : OnceSent(t2, k2) /\ (t2 # "Promise" \/ k2 # c \/ ~Sent(t2, k2)) => OnceSent(t2, k2)'
        /\ \A a, b, k2 : a # b /\ InOrder(a, b, k2) /\ (a # "Promise" \/ k2 # c \/ ~Sent(b, k2))
                            => InOrder(a, b, k2)'
    BY <1>2, <1>6, Sends
  <2>2. CallOK(c)' /\ CancelOK(c)'
    BY <1>1, <1>5, <1>6, <2>1 DEF CallOK, CancelOK, Unrun
  <2>3. ASSUME NEW d \in Calls, d # c PROVE CallOK(d)' /\ CancelOK(d)'
    BY <1>1, <1>5, <1>6, <2>1, <2>3 DEF RpcInv, CallOK, CancelOK, Unrun
  <2>4. ASSUME NEW v \in Events PROVE ListenOK(v)'
    BY <1>1, <1>6, <2>1, RpcAssumption DEF RpcInv, ListenOK
  <2>5. QED
    BY <1>4, <2>2, <2>3, <2>4 DEF RpcInv
<1>7. CASE ~initialized
  <2>1. CallOK(c)' /\ CancelOK(c)'
    BY <1>1, <1>5, <1>7 DEF CallOK, CancelOK, Unrun, Sent, OnceSent, InOrder
  <2>2. ASSUME NEW d \in Calls, d # c PROVE CallOK(d)' /\ CancelOK(d)'
    BY <1>1, <1>5, <1>7, <2>2 DEF RpcInv, CallOK, CancelOK, Unrun, Sent, OnceSent, InOrder
  <2>3. ASSUME NEW v \in Events PROVE ListenOK(v)'
    BY <1>1, <1>7 DEF RpcInv, ListenOK, Sent, InOrder
  <2>4. QED
    BY <1>4, <2>1, <2>2, <2>3 DEF RpcInv
<1>8. QED
  BY <1>6, <1>7

LEMMA ListenRpc ==
    ASSUME RpcInv, Follows, NEW v \in Events, Listen(v)
    PROVE  RpcInv'
<1> USE DEF Listen, RequestOrDefer, clientVars, serverVars
<1>1. Shape /\ waited \subseteq waited' /\ deferred' \subseteq waited'
  BY WaitGrows DEF RpcInv
<1>2. Message("EventListen", v) \in UpMessages /\ up \in Seq(UpMessages)
  BY <1>1, MessageTypes DEF Shape
<1>3. up' \in Seq(UpMessages)
  BY <1>2, Sends DEF Shape
<1>4. Shape'
  <2>1. deferred' \subseteq Requests /\ ToSet(pending') \subseteq Requests
    BY <1>1 DEF Shape, RpcTypeOK, Requests
  <2>2. heard' \in [Events -> {"none", "on", "off"}]
    BY <1>1 DEF Shape, RpcTypeOK
  <2>3. QED
    BY <1>1, <1>3, <2>1, <2>2, WaitedTypes DEF Shape, RpcTypeOK, DisposedIsSettled
<1>5. /\ ListenOK(v) /\ heard[v] = "none"
      /\ heard' = [heard EXCEPT ![v] = "on"] /\ heard \in [Events -> {"none", "on", "off"}]
  BY <1>1 DEF RpcInv, Shape, RpcTypeOK
<1>6. CASE initialized
  <2>1. /\ \A t2, k2 : Sent(t2, k2)' <=> Sent(t2, k2) \/ (t2 = "EventListen" /\ k2 = v)
        /\ \A t2, k2 : OnceSent(t2, k2) /\ (t2 # "EventListen" \/ k2 # v \/ ~Sent(t2, k2)) => OnceSent(t2, k2)'
        /\ \A a, b, k2 : a # b /\ InOrder(a, b, k2) /\ (a # "EventListen" \/ k2 # v \/ ~Sent(b, k2))
                            => InOrder(a, b, k2)'
    BY <1>2, <1>6, Sends
  <2>2. ListenOK(v)'
    BY <1>1, <1>5, <1>6, <2>1 DEF ListenOK
  <2>3. ASSUME NEW w \in Events, w # v PROVE ListenOK(w)'
    BY <1>1, <1>5, <1>6, <2>1, <2>3 DEF RpcInv, ListenOK
  <2>4. ASSUME NEW c \in Calls PROVE CallOK(c)' /\ CancelOK(c)'
    BY <1>1, <1>6, <2>1, RpcAssumption DEF RpcInv, CallOK, CancelOK, Unrun
  <2>5. QED
    BY <1>4, <2>2, <2>3, <2>4 DEF RpcInv
<1>7. CASE ~initialized
  <2>1. ListenOK(v)'
    BY <1>1, <1>5, <1>7 DEF ListenOK, Sent, InOrder
  <2>2. ASSUME NEW w \in Events, w # v PROVE ListenOK(w)'
    BY <1>1, <1>5, <1>7, <2>2 DEF RpcInv, ListenOK, Sent, InOrder
  <2>3. ASSUME NEW c \in Calls PROVE CallOK(c)' /\ CancelOK(c)'
    BY <1>1, <1>7, RpcAssumption DEF RpcInv, CallOK, CancelOK, Unrun, Sent, OnceSent, InOrder
  <2>4. QED
    BY <1>4, <2>1, <2>2, <2>3 DEF RpcInv
<1>8. QED
  BY <1>6, <1>7

LEMMA RequestInitializedRpc ==
    ASSUME RpcInv, Follows, NEW k \in Requests, RequestInitialized(k)
    PROVE  RpcInv'
<1> USE DEF RequestInitialized, clientVars, serverVars
<1>1. Shape /\ waited \subseteq waited' /\ k \in waited
  BY WaitGrows DEF RpcInv, Shape, RpcTypeOK, Waits
<1> DEFINE t == IF k \in Calls THEN "Promise" ELSE "EventListen"
<1>2. Message(t, k) \in UpMessages /\ up \in Seq(UpMessages)
  BY <1>1, MessageTypes DEF Shape, Requests
<1>3. up' = up \/ (up' = Append(up, Message(t, k)) /\ StillWanted(k))
  OBVIOUS
<1> HIDE DEF t
<1>4. up' \in Seq(UpMessages)
  BY <1>2, <1>3, Sends
<1>5. Shape'
  <2>1. deferred' \subseteq Requests /\ ToSet(pending') \subseteq Requests
    BY <1>1 DEF Shape, RpcTypeOK
  <2>2. QED
    BY <1>1, <1>4, <2>1, WaitedTypes DEF Shape, RpcTypeOK, DisposedIsSettled
<1>6. CASE up' = up
  <2>1. ASSUME NEW c \in Calls PROVE CallOK(c)' /\ CancelOK(c)'
    BY <1>1, <1>6 DEF RpcInv, CallOK, CancelOK, Unrun, Sent, OnceSent, InOrder
  <2>2. ASSUME NEW v \in Events PROVE ListenOK(v)'
    BY <1>1, <1>6 DEF RpcInv, ListenOK, Sent, InOrder
  <2>3. QED
    BY <1>5, <2>1, <2>2 DEF RpcInv
<1>7. CASE up' = Append(up, Message(t, k)) /\ StillWanted(k)
  <2>1. /\ \A t2, k2 : Sent(t2, k2)' <=> Sent(t2, k2) \/ (t2 = t /\ k2 = k)
        /\ \A t2, k2 : OnceSent(t2, k2) /\ (t2 # t \/ k2 # k \/ ~Sent(t2, k2)) => OnceSent(t2, k2)'
        /\ \A a, b, k2 : a # b /\ InOrder(a, b, k2) /\ (a # t \/ k2 # k \/ ~Sent(b, k2))
                            => InOrder(a, b, k2)'
    BY <1>2, <1>7, Sends
  <2>2. ASSUME NEW c \in Calls, c # k PROVE CallOK(c)' /\ CancelOK(c)'
    BY <1>1, <2>1, <2>2 DEF RpcInv, CallOK, CancelOK, Unrun
  <2>3. ASSUME k \in Calls PROVE CallOK(k)' /\ CancelOK(k)'
    <3>1. t = "Promise" /\ call[k] = "asked" /\ k \in deferred /\ k \notin deferred'
      BY <1>7, <2>3 DEF StillWanted, t
    <3>2. CallOK(k) /\ CancelOK(k)
      BY <2>3 DEF RpcInv
    <3>3. CallOK(k)'
      BY <2>1, <3>1, <3>2 DEF CallOK, Unrun
    <3>4. CancelOK(k)'
      BY <1>1, <2>1, <3>1, <3>2 DEF CancelOK
    <3>5. QED
      BY <3>3, <3>4
  <2>4. ASSUME NEW v \in Events, v # k PROVE ListenOK(v)'
    BY <1>1, <2>1, <2>4 DEF RpcInv, ListenOK
  <2>5. ASSUME k \in Events PROVE ListenOK(k)'
    <3>1. t = "EventListen"
      BY <2>5, RpcAssumption DEF t
    <3>2. QED
      BY <1>1, <2>1, <2>5, <3>1 DEF RpcInv, ListenOK
  <2>6. QED
    BY <1>5, <2>2, <2>3, <2>4, <2>5 DEF RpcInv
<1>8. QED
  BY <1>3, <1>6, <1>7

LEMMA CancelRpc ==
    ASSUME RpcInv, Follows, NEW c \in Calls, Cancel(c)
    PROVE  RpcInv'
<1> USE DEF Cancel, clientVars, serverVars
<1>1. Shape /\ waited \subseteq waited'
  BY WaitGrows DEF RpcInv
<1>2. Message("PromiseCancel", c) \in UpMessages /\ up \in Seq(UpMessages)
  BY <1>1, MessageTypes DEF Shape
<1>3. /\ up' \in Seq(UpMessages)
      /\ \A t2, k2 : Sent(t2, k2)' <=> Sent(t2, k2) \/ (t2 = "PromiseCancel" /\ k2 = c)
      /\ \A t2, k2 : OnceSent(t2, k2) /\ (t2 # "PromiseCancel" \/ k2 # c \/ ~Sent(t2, k2))
                        => OnceSent(t2, k2)'
      /\ \A a, b, k2 : a # b /\ InOrder(a, b, k2) /\ (a # "PromiseCancel" \/ k2 # c \/ ~Sent(b, k2))
                          => InOrder(a, b, k2)'
  BY <1>2, Sends
<1>4. Shape'
  <2>1. deferred' \subseteq Requests /\ ToSet(pending') \subseteq Requests
    BY <1>1 DEF Shape, RpcTypeOK
  <2>2. call' \in [Calls -> {"none", "asked"} \cup Settled]
    BY <1>1 DEF Shape, RpcTypeOK, Settled
  <2>3. QED
    BY <1>1, <1>3, <2>1, <2>2, WaitedTypes DEF Shape, RpcTypeOK, DisposedIsSettled
<1>5. call' = [call EXCEPT ![c] = "cancelled"] /\ call \in [Calls -> {"none", "asked"} \cup Settled]
  BY <1>1 DEF Shape, RpcTypeOK
<1>6. ASSUME NEW d \in Calls PROVE CallOK(d)' /\ CancelOK(d)'
  BY <1>1, <1>3, <1>5 DEF RpcInv, CallOK, CancelOK, Unrun
<1>7. ASSUME NEW v \in Events PROVE ListenOK(v)'
  BY <1>1, <1>3, RpcAssumption DEF RpcInv, ListenOK
<1>8. QED
  BY <1>4, <1>6, <1>7 DEF RpcInv

LEMMA UnlistenRpc ==
    ASSUME RpcInv, Follows, NEW v \in Events, Unlisten(v)
    PROVE  RpcInv'
<1> USE DEF Unlisten, clientVars, serverVars
<1>1. Shape /\ waited \subseteq waited'
  BY WaitGrows DEF RpcInv
<1>2. Message("EventDispose", v) \in UpMessages /\ up \in Seq(UpMessages)
  BY <1>1, MessageTypes DEF Shape
<1>3. /\ up' \in Seq(UpMessages)
      /\ \A t2, k2 : Sent(t2, k2)' <=> Sent(t2, k2) \/ (t2 = "EventDispose" /\ k2 = v)
      /\ \A t2, k2 : OnceSent(t2, k2) /\ (t2 # "EventDispose" \/ k2 # v \/ ~Sent(t2, k2))
                        => OnceSent(t2, k2)'
      /\ \A a, b, k2 : a # b /\ InOrder(a, b, k2) /\ (a # "EventDispose" \/ k2 # v \/ ~Sent(b, k2))
                          => InOrder(a, b, k2)'
  BY <1>2, Sends
<1>4. Shape'
  <2>1. deferred' \subseteq Requests /\ ToSet(pending') \subseteq Requests
    BY <1>1 DEF Shape, RpcTypeOK
  <2>2. heard' \in [Events -> {"none", "on", "off"}]
    BY <1>1 DEF Shape, RpcTypeOK
  <2>3. QED
    BY <1>1, <1>3, <2>1, <2>2, WaitedTypes DEF Shape, RpcTypeOK, DisposedIsSettled
<1>5. heard' = [heard EXCEPT ![v] = "off"] /\ heard \in [Events -> {"none", "on", "off"}]
  BY <1>1 DEF Shape, RpcTypeOK
<1>6. ASSUME NEW w \in Events PROVE ListenOK(w)'
  BY <1>1, <1>3, <1>5 DEF RpcInv, ListenOK
<1>7. ASSUME NEW c \in Calls PROVE CallOK(c)' /\ CancelOK(c)'
  BY <1>1, <1>3, RpcAssumption DEF RpcInv, CallOK, CancelOK, Unrun
<1>8. QED
  BY <1>4, <1>6, <1>7 DEF RpcInv

LEMMA ClientReceivesRpc ==
    ASSUME RpcInv, Follows, ClientReceives
    PROVE  RpcInv'
<1>1. Shape
  BY DEF RpcInv
<1> DEFINE msg == Head(down)
           mine == msg.id \in Calls /\ call[msg.id] = "asked"
<1>2. \/ call' = call
      \/ mine /\ call' = [call EXCEPT ![msg.id] = "answered"]
      \/ mine /\ call' = [call EXCEPT ![msg.id] = "failed"]
  BY DEF ClientReceives
<1>3. /\ initialized' \in BOOLEAN
      /\ UNCHANGED <<up, heard, deferred, pending, active, running, tokens, runs, disposed,
                     ready, registered, late>>
      /\ ~disposed
  BY <1>1 DEF ClientReceives, serverVars, Shape, RpcTypeOK
<1>4. /\ call' \in [Calls -> {"none", "asked"} \cup Settled]
      /\ \A c \in Calls : call'[c] # call[c] => call[c] = "asked" /\ call'[c] \in {"answered", "failed"}
  <2>1. call \in [Calls -> {"none", "asked"} \cup Settled]
    BY <1>1 DEF Shape, RpcTypeOK
  <2> HIDE DEF msg
  <2>2. QED
    BY <1>2, <2>1 DEF Settled
<1>5. deferred' \subseteq Requests /\ ToSet(pending') \subseteq Requests
  BY <1>1, <1>3 DEF Shape, RpcTypeOK
<1>6. flushed' = flushed
  BY DEF ClientReceives, serverVars
<1>7. Shape'
  BY <1>1, <1>3, <1>4, <1>5, <1>6, WaitedTypes DEF Shape, RpcTypeOK, DisposedIsSettled
<1>8. QED
  BY <1>3, <1>4, <1>7, QuietRpc

(* Ready, RegisterChannel and PendingTimer touch no request.                   *)
LEMMA ServerQuietRpc ==
    ASSUME RpcInv, Follows,
           Ready \/ RegisterChannel \/ \E k \in Requests : PendingTimer(k)
    PROVE  RpcInv'
<1>1. Shape
  BY DEF RpcInv
<1>2. /\ UNCHANGED <<clientVars, up, pending, active, running, tokens, runs>>
      /\ {ready', registered', flushed'} \subseteq BOOLEAN /\ late' \subseteq Requests
  BY <1>1 DEF Ready, RegisterChannel, PendingTimer, Shape, RpcTypeOK, clientVars
<1>3. UNCHANGED <<call, heard, deferred, initialized, disposed>>
  BY <1>2 DEF clientVars
<1>4. deferred' \subseteq Requests /\ ToSet(pending') \subseteq Requests
  BY <1>1, <1>2, <1>3 DEF Shape, RpcTypeOK
<1>5. Shape'
  BY <1>1, <1>2, <1>3, <1>4, WaitedTypes DEF Shape, RpcTypeOK, DisposedIsSettled
<1>6. QED
  BY <1>2, <1>3, <1>5, QuietRpc

LEMMA ChannelFinishesRpc ==
    ASSUME RpcInv, Follows, NEW c \in Calls, ChannelFinishes(c)
    PROVE  RpcInv'
<1>1. Shape /\ waited \subseteq waited'
  BY WaitGrows DEF RpcInv
<1>2. /\ running' = running \ {c} /\ active' = active \ {c}
      /\ UNCHANGED <<initialized, disposed, call, heard, deferred, up, ready, registered, flushed,
                     pending, late, tokens, runs>>
  BY DEF ChannelFinishes, clientVars
<1>3. deferred' \subseteq Requests /\ ToSet(pending') \subseteq Requests
  BY <1>1, <1>2 DEF Shape, RpcTypeOK
<1>4. Shape'
  BY <1>1, <1>2, <1>3, WaitedTypes DEF Shape, RpcTypeOK, DisposedIsSettled
<1>5. ASSUME NEW d \in Calls PROVE CallOK(d)' /\ CancelOK(d)'
  BY <1>1, <1>2 DEF RpcInv, CallOK, CancelOK, Unrun, Sent, OnceSent, InOrder
<1>6. ASSUME NEW v \in Events PROVE ListenOK(v)'
  BY <1>1, <1>2 DEF RpcInv, ListenOK, Sent, InOrder
<1>7. QED
  BY <1>4, <1>5, <1>6 DEF RpcInv

LEMMA DisposeRpc ==
    ASSUME RpcInv, Follows, Dispose
    PROVE  RpcInv'
<1>1. Shape /\ waited \subseteq waited'
  BY WaitGrows DEF RpcInv
<1>2. /\ disposed' = TRUE /\ up' = <<>> /\ active' = {}
      /\ tokens' = tokens \cup (active \cap Calls)
      /\ call' = [c \in Calls |-> IF call[c] = "asked" THEN "closed" ELSE call[c]]
      /\ heard' = [v \in Events |-> IF heard[v] = "on" THEN "off" ELSE heard[v]]
      /\ UNCHANGED <<initialized, deferred, ready, registered, flushed, pending, late, running, runs>>
  BY DEF Dispose, RejectPending
<1>3. deferred' \subseteq Requests /\ ToSet(pending') \subseteq Requests
  BY <1>1, <1>2 DEF Shape, RpcTypeOK
<1>4. /\ call' \in [Calls -> {"none", "asked"} \cup Settled]
      /\ heard' \in [Events -> {"none", "on", "off"}]
      /\ up' \in Seq(UpMessages)
  BY <1>1, <1>2 DEF Shape, RpcTypeOK, Settled
<1>5. Shape'
  BY <1>1, <1>2, <1>3, <1>4, WaitedTypes DEF Shape, RpcTypeOK, DisposedIsSettled
<1>6. \A t, k : ~Sent(t, k)' /\ OnceSent(t, k)'
  BY <1>2, EmptyContains DEF Sent, OnceSent
<1>7. \A a, b, k : InOrder(a, b, k)'
  BY <1>2, EmptyContains DEF InOrder
<1>8. ASSUME NEW c \in Calls PROVE CallOK(c)' /\ CancelOK(c)'
  <2>1. CallOK(c)'
    BY <1>2, <1>6 DEF RpcInv, CallOK, Unrun
  <2>2. c \notin running' \ tokens'
    BY <1>2 DEF RpcInv, CancelOK
  <2>3. CancelOK(c)'
    BY <1>6, <1>7, <2>2 DEF CancelOK
  <2>4. QED
    BY <2>1, <2>3
<1>9. ASSUME NEW v \in Events PROVE ListenOK(v)'
  BY <1>2, <1>6, <1>7 DEF ListenOK
<1>10. QED
  BY <1>5, <1>8, <1>9 DEF RpcInv

LEMMA FlushPendingRpc ==
    ASSUME RpcInv, Follows, FlushPendingRequests
    PROVE  RpcInv'
<1>1. Shape /\ waited \subseteq waited' /\ ToSet(pending) \subseteq waited
  BY WaitGrows DEF RpcInv, Shape, RpcTypeOK, Waits
<1>2. /\ pending' = <<>> /\ flushed' = TRUE
      /\ active' = active \cup ToSet(pending)
      /\ running' = running \cup (ToSet(pending) \cap Calls)
      /\ runs' = [c \in Calls |-> IF c \in ToSet(pending) /\ runs[c] < 2 THEN runs[c] + 1 ELSE runs[c]]
      /\ UNCHANGED <<initialized, disposed, call, heard, deferred, up, ready, registered, late, tokens>>
  BY DEF FlushPendingRequests, Serve, ForgetPending, clientVars
<1>3. ToSet(pending') = {}
  BY <1>2 DEF ToSet
<1>4. /\ deferred' \subseteq Requests /\ ToSet(pending) \subseteq Requests
      /\ runs \in [Calls -> 0..2]
  BY <1>1, <1>2 DEF Shape, RpcTypeOK
<1>5. runs' \in [Calls -> 0..2]
  BY <1>2, <1>4
<1>6. pending' \in Seq(Requests)
  BY <1>2
<1>7. Shape'
  BY <1>1, <1>2, <1>3, <1>4, <1>5, <1>6, WaitedTypes DEF Shape, RpcTypeOK, DisposedIsSettled
<1>8. ASSUME NEW c \in Calls PROVE CallOK(c)' /\ CancelOK(c)'
  <2>1. CallOK(c)'
    BY <1>2, <1>3, <1>4 DEF RpcInv, CallOK, Unrun, Sent, OnceSent
  <2>2. CancelOK(c)'
    BY <1>1, <1>2 DEF RpcInv, CancelOK, Sent, InOrder
  <2>3. QED
    BY <2>1, <2>2
<1>9. ASSUME NEW v \in Events PROVE ListenOK(v)'
  BY <1>1, <1>2 DEF RpcInv, ListenOK, Sent, InOrder
<1>10. QED
  BY <1>7, <1>8, <1>9 DEF RpcInv

LEMMA ServerReceivesRpc ==
    ASSUME RpcInv, Follows, ServerReceives
    PROVE  RpcInv'
<1>1. Shape /\ waited \subseteq waited' /\ ToSet(pending') \subseteq waited'
  BY WaitGrows DEF RpcInv
<1>2. up \in Seq(UpMessages) /\ up # <<>> /\ up' = Tail(up) /\ pending \in Seq(Requests)
  BY <1>1 DEF ServerReceives, Shape
<1>3. PICK t, k :
        /\ Head(up) = Message(t, k) /\ Message(t, k) \in UpMessages
        /\ \A t2, k2 : Sent(t2, k2) <=> Sent(t2, k2)' \/ (t2 = t /\ k2 = k)
        /\ OnceSent(t, k) => ~Sent(t, k)'
        /\ \A a : InOrder(a, t, k) => ~Sent(a, k)
  BY <1>2, Receives
<1>4. /\ up' \in Seq(UpMessages)
      /\ \A t2, k2 : OnceSent(t2, k2) => OnceSent(t2, k2)'
      /\ \A a, b, k2 : InOrder(a, b, k2) => InOrder(a, b, k2)'
  BY <1>2, Receives
<1>5. /\ Head(up).type = t /\ Head(up).id = k
      /\ \/ t \in {"Promise", "PromiseCancel"} /\ k \in Calls
         \/ t \in {"EventListen", "EventDispose"} /\ k \in Events
  BY <1>3, MessageTypes DEF Message
<1>6. UNCHANGED <<initialized, disposed, call, heard, deferred, ready, registered, flushed, late>>
  BY DEF ServerReceives, clientVars
<1>7. deferred' \subseteq Requests /\ k \in Requests /\ ToSet(pending) \subseteq Requests
  BY <1>1, <1>5, <1>6 DEF Shape, RpcTypeOK, Requests
<1>8. CASE t \in {"Promise", "EventListen"} /\ registered
  <2>1. /\ active' = active \cup {k} /\ running' = running \cup ({k} \cap Calls)
        /\ runs' = [c \in Calls |-> IF c \in {k} /\ runs[c] < 2 THEN runs[c] + 1 ELSE runs[c]]
        /\ pending' = pending /\ tokens' = tokens
    BY <1>5, <1>8 DEF ServerReceives, Serve
  <2>2. runs \in [Calls -> 0..2] /\ runs' \in [Calls -> 0..2]
    BY <1>1, <2>1 DEF Shape, RpcTypeOK
  <2>3. Shape'
    BY <1>1, <1>4, <1>6, <1>7, <2>1, <2>2, WaitedTypes DEF Shape, RpcTypeOK, DisposedIsSettled
  <2>4. ASSUME NEW c \in Calls, c # k PROVE CallOK(c)' /\ CancelOK(c)'
    BY <1>1, <1>3, <1>4, <1>6, <2>1, <2>2, <2>4 DEF RpcInv, CallOK, CancelOK, Unrun
  <2>5. ASSUME k \in Calls PROVE CallOK(k)' /\ CancelOK(k)'
    <3>1. t = "Promise" /\ CallOK(k) /\ CancelOK(k)
      BY <1>5, <1>8, <2>5, RpcAssumption DEF RpcInv
    <3>2. Sent("Promise", k) /\ ~Sent("Promise", k)'
      BY <1>3, <3>1 DEF CallOK
    <3>3. CallOK(k)'
      BY <1>4, <1>6, <2>1, <2>2, <2>5, <3>1, <3>2 DEF CallOK, Unrun
    <3>4. CancelOK(k)'
      BY <1>1, <1>3, <1>4, <1>6, <2>1, <3>1, <3>2 DEF CancelOK
    <3>5. QED
      BY <3>3, <3>4
  <2>6. ASSUME NEW v \in Events, v # k PROVE ListenOK(v)'
    BY <1>1, <1>3, <1>4, <1>6, <2>1, <2>6 DEF RpcInv, ListenOK
  <2>7. ASSUME k \in Events PROVE ListenOK(k)'
    <3>1. t = "EventListen" /\ ListenOK(k)
      BY <1>5, <1>8, <2>7, RpcAssumption DEF RpcInv
    <3>2. QED
      BY <1>1, <1>3, <1>4, <1>6, <2>1, <3>1 DEF ListenOK
  <2>8. QED
    BY <2>3, <2>4, <2>5, <2>6, <2>7 DEF RpcInv
<1>9. CASE t \in {"Promise", "EventListen"} /\ ~registered
  <2>1. /\ pending' = Append(pending, k)
        /\ UNCHANGED <<active, running, runs, tokens>>
    BY <1>5, <1>9 DEF ServerReceives
  <2>2. ToSet(pending') = ToSet(pending) \cup {k} /\ pending' \in Seq(Requests) /\ k \in waited'
    BY <1>1, <1>2, <1>7, <2>1, SetOf
  <2>3. Shape'
    BY <1>1, <1>4, <1>6, <1>7, <2>1, <2>2, WaitedTypes DEF Shape, RpcTypeOK, DisposedIsSettled
  <2>4. ASSUME NEW c \in Calls, c # k PROVE CallOK(c)' /\ CancelOK(c)'
    BY <1>1, <1>3, <1>4, <1>6, <2>1, <2>2, <2>4 DEF RpcInv, CallOK, CancelOK, Unrun
  <2>5. ASSUME k \in Calls PROVE CallOK(k)' /\ CancelOK(k)'
    <3>1. t = "Promise" /\ CallOK(k) /\ CancelOK(k)
      BY <1>5, <1>9, <2>5, RpcAssumption DEF RpcInv
    <3>2. Sent("Promise", k) /\ ~Sent("Promise", k)'
      BY <1>3, <3>1 DEF CallOK
    <3>3. CallOK(k)'
      BY <1>4, <1>6, <2>1, <2>2, <3>1, <3>2 DEF CallOK, Unrun
    <3>4. CancelOK(k)'
      BY <1>3, <1>4, <1>6, <2>1, <2>2, <3>1, <3>2 DEF CancelOK
    <3>5. QED
      BY <3>3, <3>4
  <2>6. ASSUME NEW v \in Events, v # k PROVE ListenOK(v)'
    BY <1>1, <1>3, <1>4, <1>6, <2>1, <2>6 DEF RpcInv, ListenOK
  <2>7. ASSUME k \in Events PROVE ListenOK(k)'
    <3>1. t = "EventListen" /\ ListenOK(k)
      BY <1>5, <1>9, <2>7, RpcAssumption DEF RpcInv
    <3>2. QED
      BY <1>3, <1>4, <1>6, <2>1, <2>2, <3>1 DEF ListenOK
  <2>8. QED
    BY <2>3, <2>4, <2>5, <2>6, <2>7 DEF RpcInv
<1>10. CASE t \in {"PromiseCancel", "EventDispose"}
  <2>1. /\ active' = active \ {k}
        /\ tokens' = IF k \in active \cap Calls THEN tokens \cup {k} ELSE tokens
        /\ UNCHANGED <<running, runs, pending>>
    BY <1>5, <1>10 DEF ServerReceives, DisposeActive
  <2>2. Shape'
    BY <1>1, <1>4, <1>6, <1>7, <2>1, WaitedTypes DEF Shape, RpcTypeOK, DisposedIsSettled
  <2>3. ASSUME NEW c \in Calls, c # k PROVE CallOK(c)' /\ CancelOK(c)'
    BY <1>1, <1>3, <1>4, <1>6, <2>1, <2>3 DEF RpcInv, CallOK, CancelOK, Unrun
  <2>4. ASSUME k \in Calls PROVE CallOK(k)' /\ CancelOK(k)'
    <3>1. t = "PromiseCancel" /\ CallOK(k) /\ CancelOK(k)
      BY <1>5, <1>10, <2>4, RpcAssumption DEF RpcInv
    <3>2. CallOK(k)'
      BY <1>3, <1>4, <1>6, <2>1, <3>1 DEF CallOK, Unrun
    <3>3. k \notin running' \ tokens'
      BY <2>1, <2>4, <3>1 DEF CancelOK
    <3>4. CancelOK(k)'
      BY <1>1, <1>3, <1>4, <1>6, <3>1, <3>3 DEF CancelOK
    <3>5. QED
      BY <3>2, <3>4
  <2>5. ASSUME NEW v \in Events, v # k PROVE ListenOK(v)'
    BY <1>1, <1>3, <1>4, <1>6, <2>1, <2>5 DEF RpcInv, ListenOK
  <2>6. ASSUME k \in Events PROVE ListenOK(k)'
    <3>1. t = "EventDispose" /\ ListenOK(k)
      BY <1>5, <1>10, <2>6, RpcAssumption DEF RpcInv
    <3>2. QED
      BY <1>1, <1>3, <1>4, <1>6, <2>1, <3>1 DEF ListenOK
  <2>7. QED
    BY <2>2, <2>3, <2>4, <2>5, <2>6 DEF RpcInv
<1>11. QED
  BY <1>5, <1>8, <1>9, <1>10

-----------------------------------------------------------------------------
(* The theorems.                                                             *)

LEMMA StepRpc == RpcInv /\ [Next]_vars => RpcInv'
<1>1. ASSUME RpcInv, Next PROVE RpcInv'
  <2>1. Follows
    BY <1>1 DEF Next, Follows
  <2>2. CASE \E c \in Calls : RequestPromise(c) \/ Cancel(c) \/ ChannelFinishes(c)
    BY <1>1, <2>1, <2>2, RequestPromiseRpc, CancelRpc, ChannelFinishesRpc
  <2>3. CASE \E v \in Events : Listen(v) \/ Unlisten(v)
    BY <1>1, <2>1, <2>3, ListenRpc, UnlistenRpc
  <2>4. CASE \E k \in Requests : RequestInitialized(k)
    BY <1>1, <2>1, <2>4, RequestInitializedRpc
  <2>5. CASE Ready \/ RegisterChannel \/ \E k \in Requests : PendingTimer(k)
    BY <1>1, <2>1, <2>5, ServerQuietRpc
  <2>6. CASE ClientReceives
    BY <1>1, <2>1, <2>6, ClientReceivesRpc
  <2>7. CASE Dispose
    BY <1>1, <2>1, <2>7, DisposeRpc
  <2>8. CASE ServerReceives
    BY <1>1, <2>1, <2>8, ServerReceivesRpc
  <2>9. CASE FlushPendingRequests
    BY <1>1, <2>1, <2>9, FlushPendingRpc
  <2>10. QED
    BY <1>1, <2>2, <2>3, <2>4, <2>5, <2>6, <2>7, <2>8, <2>9 DEF Next, Step
<1>2. ASSUME RpcInv, UNCHANGED vars PROVE RpcInv'
  <2>1. Shape'
    BY <1>2 DEF vars, protocolVars, clientVars, serverVars, RpcInv, Shape, RpcTypeOK, Waits,
                DisposedIsSettled
  <2>2. QED
    BY <1>2, <2>1 DEF vars, protocolVars, clientVars, serverVars, RpcInv, CallOK, CancelOK,
                      ListenOK, Unrun, Sent, OnceSent, InOrder
<1>3. QED
  BY <1>1, <1>2

(* Where each call and each subscription is, at every moment.                  *)
THEOREM RpcInvariant == Spec => []RpcInv
BY InitRpc, StepRpc, PTL DEF Spec

(* However the readiness of the server, the registration of the channel, its    *)
(* flush and the transport interleave, no call is executed twice, and a client  *)
(* that is disposed has no call left open.                                    *)
THEOREM CallsTrue == Spec => []CallsAreTrue
<1>1. RpcInv => CallsAreTrue
  <2> SUFFICES ASSUME RpcInv PROVE ExecutedOnce
    BY DEF RpcInv, Shape, CallsAreTrue
  <2>1. \A c \in Calls : Contains(pending, c) => c \in ToSet(pending)
    BY SetOf DEF RpcInv, Shape
  <2>2. \A c \in Calls : runs[c] <= 1 /\ (c \in ToSet(pending) => runs[c] = 0)
    BY DEF RpcInv, CallOK
  <2>3. QED
    BY <2>1, <2>2 DEF ExecutedOnce
<1>2. QED
  BY RpcInvariant, <1>1, PTL

(* A call that is no longer wanted is not sent, and once the server has heard   *)
(* that a request was given up it does not serve it, unless it had waited.    *)
THEOREM GivenUp == Spec => GivenUpStaysSo
<1>1. RpcInv' => GivenUpIsDropped'
  BY DEF RpcInv, CancelOK, ListenOK, GivenUpIsDropped, Sent
<1>2. RpcInv /\ Next => RejectedIsNotSent
  <2> SUFFICES ASSUME RpcInv, Next, NEW c \in Calls, Len(up') > Len(up),
                      up'[Len(up')] = Message("Promise", c)
               PROVE  call'[c] = "asked"
    BY DEF RejectedIsNotSent
  <2>1. up \in Seq(UpMessages) /\ call \in [Calls -> {"none", "asked"} \cup Settled]
    BY DEF RpcInv, Shape, RpcTypeOK
  <2>2. up' # up /\ up' # <<>> /\ ~(up # <<>> /\ up' = Tail(up))
    BY <2>1
  <2>3. ASSUME NEW m, up' = Append(up, m) PROVE m = Message("Promise", c)
    BY <2>1, <2>3
  <2>4. ASSUME NEW d \in Calls, RequestPromise(d) PROVE call'[c] = "asked"
    BY <2>1, <2>2, <2>3, <2>4, Messages DEF RequestPromise, RequestOrDefer
  <2>5. ASSUME NEW d \in Calls, Cancel(d) PROVE call'[c] = "asked"
    BY <2>3, <2>5, Messages DEF Cancel
  <2>6. ASSUME NEW v \in Events, Listen(v) \/ Unlisten(v) PROVE call'[c] = "asked"
    BY <2>2, <2>3, <2>6, Messages DEF Listen, RequestOrDefer, Unlisten
  <2>7. ASSUME NEW k \in Requests, RequestInitialized(k) PROVE call'[c] = "asked"
    BY <2>2, <2>3, <2>7, Messages DEF RequestInitialized, StillWanted
  <2>8. QED
    BY <2>2, <2>4, <2>5, <2>6, <2>7
       DEF Next, Step, ChannelFinishes, PendingTimer, ClientReceives, Dispose, Ready,
           ServerReceives, RegisterChannel, FlushPendingRequests
<1>3. RpcInv /\ [Next]_vars => [GivenUpIsDropped' /\ RejectedIsNotSent]_vars
  BY <1>1, <1>2, StepRpc
<1>4. QED
  BY RpcInvariant, <1>3, PTL DEF Spec, GivenUpStaysSo
===============================================================================
