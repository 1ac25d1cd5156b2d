-------------------------- MODULE PersistentProtocol --------------------------
(***************************************************************************)
(* The two ends of a PersistentProtocol.  Each numbers its messages, holds *)
(* them until the peer acknowledges them, and writes them again on a new   *)
(* socket.  The client side is driven by RemoteAgentConnection, which      *)
(* starts one more reconnection whenever the protocol reports a closed     *)
(* socket.  Each waits for a socket of its own and then makes it that of   *)
(* the protocol, so that the client's sockets follow each other in any     *)
(* order.  The server side takes a new socket when it accepts one, which   *)
(* may be before the client does; sockets are numbered as they reach it.   *)
(***************************************************************************)
EXTENDS Naturals, Sequences, FiniteSets

CONSTANTS
    ClientMsgs,   \* messages the client sends
    ServerMsgs,   \* messages the server sends
    MaxSockets,   \* sockets the client opens; the last one does not break,
                  \* and is opened when no other is on its way
    MaxBreaks,    \* sockets that break
    MaxLoops,     \* reconnections under way at the same time
    Impatient,    \* the ends whose grace period may run out
    High, Low,    \* water marks of the held messages
    ReplayMax     \* limit of the held messages

ASSUME ProtocolAssumption ==
    /\ ClientMsgs \in Nat /\ ServerMsgs \in Nat /\ MaxSockets \in Nat \ {0}
    /\ MaxBreaks \in Nat /\ MaxLoops \in Nat
    /\ Impatient \subseteq {"client", "server"}
    /\ High \in Nat /\ Low \in Nat /\ ReplayMax \in Nat
    /\ Low <= High /\ High <= ReplayMax

Ends == {"client", "server"}
Peer(e) == IF e = "client" THEN "server" ELSE "client"
MaxMsgs(e) == IF e = "client" THEN ClientMsgs ELSE ServerMsgs
Sockets == 1..MaxSockets
Frames == [type : {"Regular", "KeepAlive", "Disconnect"}, id : Nat, ack : Nat]

VARIABLES
    socket,      \* the socket each end reads and writes
    opened,      \* the sockets opened so far
    arriving,    \* those that a reconnect() has opened and not yet handed over
    broken,      \* those that are gone
    noticed,     \* the client was told that its socket is gone
    wire,        \* frames that each end has written on each socket
    outgoingMsgId, outgoingUnackMsg, incomingAckId, saturated, overflowed,
    closed,      \* the ends that fired onClose
    loops,       \* reconnect() calls under way that have no socket yet
    reported,    \* the last RemoteConnectionState
    got          \* ghost: the highest message each end has delivered

netVars == <<socket, opened, arriving, broken, noticed>>
flowVars == <<saturated, overflowed, closed>>
remoteVars == <<loops, reported>>
vars == <<netVars, wire, outgoingMsgId, outgoingUnackMsg, incomingAckId, flowVars, remoteVars, got>>

Init ==
    /\ socket = [e \in Ends |-> 1] /\ opened = 1 /\ arriving = {} /\ broken = {}
    /\ noticed = FALSE
    /\ wire = [n \in Sockets |-> [e \in Ends |-> <<>>]]
    /\ outgoingMsgId = [e \in Ends |-> 0]
    /\ outgoingUnackMsg = [e \in Ends |-> <<>>]
    /\ incomingAckId = [e \in Ends |-> 0]
    /\ saturated = [e \in Ends |-> FALSE]
    /\ overflowed = [e \in Ends |-> FALSE]
    /\ closed = {}
    /\ loops = 0 /\ reported = "connected"
    /\ got = [e \in Ends |-> 0]

-----------------------------------------------------------------------------
(* Writing.                                                                  *)

(* Whether e reads socket n or will: the client its own and those that are to  *)
(* replace it, the server its own and every later one.                        *)
Reads(e, n) ==
    IF e = "client" THEN n = socket["client"] \/ n \in arriving ELSE n >= socket["server"]

(* What is written on a socket that is gone, or that the peer has replaced, is *)
(* lost.                                                                      *)
Written(n, e, frames) ==
    IF n \in broken \/ ~Reads(Peer(e), n) THEN wire ELSE [wire EXCEPT ![n][e] = @ \o frames]

WriteMessage(e, type, id) ==
    wire' = Written(socket[e], e, <<[type |-> type, id |-> id, ack |-> incomingAckId[e]]>>)

(* abandonSession; only the first call has an effect.                         *)
AbandonSession(e) ==
    /\ overflowed' = [overflowed EXCEPT ![e] = TRUE]
    /\ closed' = closed \cup {e}

Send(e) ==
    LET id == outgoingMsgId[e] + 1
        msg == [type |-> "Regular", id |-> id, ack |-> incomingAckId[e]]
        bytes == Len(outgoingUnackMsg[e]) + 1
        farewell == [type |-> "Disconnect", id |-> 0, ack |-> incomingAckId[e]]
        over == bytes > ReplayMax
    IN /\ id <= MaxMsgs(e)
       /\ outgoingMsgId' = [outgoingMsgId EXCEPT ![e] = id]
       /\ outgoingUnackMsg' = [outgoingUnackMsg EXCEPT ![e] = Append(@, msg)]
       /\ wire' = Written(socket[e], e,
                     IF over /\ ~overflowed[e] THEN <<msg, farewell>> ELSE <<msg>>)
       /\ IF over
          THEN AbandonSession(e) /\ UNCHANGED saturated
          ELSE /\ saturated' = [saturated EXCEPT ![e] = @ \/ bytes > High]
               /\ UNCHANGED <<overflowed, closed>>
       /\ UNCHANGED <<netVars, incomingAckId, remoteVars, got>>

(* The timer of startKeepAlive.  It is slow: all that e wrote has been read or *)
(* lost.                                                                      *)
KeepAlive(e) ==
    /\ \A n \in Sockets : wire[n][e] = <<>>
    /\ WriteMessage(e, "KeepAlive", 0)
    /\ UNCHANGED <<netVars, outgoingMsgId, outgoingUnackMsg, incomingAckId, flowVars, remoteVars, got>>

-----------------------------------------------------------------------------
(* Reading.                                                                  *)

(* Faulty variant: one message too many is taken for acknowledged.            *)
AcknowledgedAndNext(queue, ack) ==
    CHOOSE n \in 0..Len(queue) :
       /\ \A i \in 1..n : queue[i].id <= ack + 1
       /\ n < Len(queue) => queue[n + 1].id > ack + 1

(* How many of the held messages, from the first on, processAck removes.      *)
Acknowledged(queue, ack) ==
    CHOOSE n \in 0..Len(queue) :
       /\ \A i \in 1..n : queue[i].id <= ack
       /\ n < Len(queue) => queue[n + 1].id > ack

Unacked(queue, ack) == SubSeq(queue, Acknowledged(queue, ack) + 1, Len(queue))

StaysSaturated(was, bytes) == was /\ bytes > Low

(* One turn of the loop of readMessages.                                      *)
ReadMessage(e) ==
    LET queue == wire[socket[e]][Peer(e)]
        frame == Head(queue)
        rest == Unacked(outgoingUnackMsg[e], frame.ack)
    IN /\ queue # <<>>
       /\ wire' = [wire EXCEPT ![socket[e]][Peer(e)] = Tail(@)]
       /\ outgoingUnackMsg' = [outgoingUnackMsg EXCEPT ![e] = rest]
       /\ saturated' = [saturated EXCEPT ![e] = StaysSaturated(@, Len(rest))]
       /\ IF frame.type = "Regular"
          THEN /\ incomingAckId' = [incomingAckId EXCEPT ![e] = frame.id]
               /\ got' = [got EXCEPT ![e] = IF frame.id > @ THEN frame.id ELSE @]
          ELSE UNCHANGED <<incomingAckId, got>>
       /\ closed' = IF frame.type = "Disconnect" THEN closed \cup {e} ELSE closed
       /\ UNCHANGED <<netVars, outgoingMsgId, overflowed, remoteVars>>

-----------------------------------------------------------------------------
(* Sockets.                                                                  *)

(* A socket is gone, with what was still on its way.  One that nobody reads    *)
(* may go unseen.                                                             *)
Break(n) ==
    /\ n \in 1..opened /\ n \notin broken /\ n < MaxSockets /\ Cardinality(broken) < MaxBreaks
    /\ \E e \in Ends : Reads(e, n)
    /\ broken' = broken \cup {n}
    /\ wire' = [wire EXCEPT ![n] = [e \in Ends |-> <<>>]]
    /\ UNCHANGED <<socket, opened, arriving, noticed, outgoingMsgId, outgoingUnackMsg,
                   incomingAckId, flowVars, remoteVars, got>>

(* Faulty variant: nothing is reported.                                        *)
StartReconnectQuietly ==
    /\ loops + Cardinality(arriving) < MaxLoops /\ opened < MaxSockets
    /\ loops' = loops + 1 /\ UNCHANGED reported

(* onSocketClose has one listener, which starts a reconnection, whether or not *)
(* another is under way.                                                      *)
StartReconnect ==
    /\ loops + Cardinality(arriving) < MaxLoops /\ opened < MaxSockets
    /\ loops' = loops + 1 /\ reported' = "reconnecting"

SocketClosed ==
    /\ socket["client"] \in broken /\ ~noticed
    /\ noticed' = TRUE
    /\ StartReconnect
    /\ UNCHANGED <<socket, opened, arriving, broken, wire, outgoingMsgId, outgoingUnackMsg, incomingAckId,
                   flowVars, got>>

(* startAckCheck, by which also a silent socket is given up.                   *)
AckTimeout ==
    /\ outgoingUnackMsg["client"] # <<>>
    /\ StartReconnect
    /\ UNCHANGED <<netVars, wire, outgoingMsgId, outgoingUnackMsg, incomingAckId, flowVars, got>>

(* The oldest held message is older than the grace period.                    *)
GraceExceeded(e) ==
    /\ e \in Impatient /\ outgoingUnackMsg[e] # <<>> /\ ~overflowed[e]
    /\ AbandonSession(e)
    /\ WriteMessage(e, "Disconnect", 0)
    /\ UNCHANGED <<netVars, outgoingMsgId, outgoingUnackMsg, incomingAckId, saturated, remoteVars, got>>

(* Faulty variant: nothing is written again.                                   *)
ReplaceSocketOnly(e, n) ==
    /\ socket' = [socket EXCEPT ![e] = n]
    /\ wire' = [wire EXCEPT ![socket[e]][Peer(e)] = <<>>]
    /\ UNCHANGED <<outgoingMsgId, outgoingUnackMsg, incomingAckId, flowVars, got>>

(* replaceSocket: what the old one still held is no longer read, and every    *)
(* held message is written again, with the acknowledgement of that time.      *)
ReplaceSocket(e, n) ==
    /\ socket' = [socket EXCEPT ![e] = n]
    /\ wire' = [Written(n, e, outgoingUnackMsg[e]) EXCEPT ![socket[e]][Peer(e)] = <<>>]
    /\ UNCHANGED <<outgoingMsgId, outgoingUnackMsg, incomingAckId, flowVars, got>>

(* connect() has reached the server; the caller is resumed later.              *)
Connect ==
    /\ loops > 0 /\ opened < MaxSockets
    /\ opened + 1 = MaxSockets => arriving = {}
    /\ opened' = opened + 1 /\ arriving' = arriving \cup {opened + 1}
    /\ loops' = loops - 1
    /\ UNCHANGED <<socket, broken, noticed, wire, outgoingMsgId, outgoingUnackMsg, incomingAckId,
                   flowVars, reported, got>>

(* connect() throws, and the next attempt follows.                            *)
ConnectFails(n) ==
    /\ n \in arriving /\ n \in broken
    /\ arriving' = arriving \ {n}
    /\ loops' = loops + 1
    /\ UNCHANGED <<socket, opened, broken, noticed, wire, outgoingMsgId, outgoingUnackMsg,
                   incomingAckId, flowVars, reported, got>>

(* connect() returns, perhaps after that of a later attempt.  The socket that *)
(* is replaced is not closed, but its close is no longer heard.               *)
ReconnectSucceeds(n) ==
    /\ n \in arriving
    /\ arriving' = arriving \ {n}
    /\ ReplaceSocket("client", n)
    /\ noticed' = FALSE
    /\ reported' = "connected"
    /\ UNCHANGED <<opened, broken, loops>>

(* The last attempt has failed, whatever another call has reached meanwhile.  *)
(* One that fails and is not the last changes nothing.                        *)
ReconnectGivesUp ==
    /\ loops > 0
    /\ loops' = loops - 1 /\ reported' = "disconnected"
    /\ UNCHANGED <<netVars, wire, outgoingMsgId, outgoingUnackMsg, incomingAckId, flowVars, got>>

(* The server takes one socket after the other, in the order in which they    *)
(* have reached it, before or after the client does.                          *)
Accept ==
    /\ socket["server"] < opened
    /\ ReplaceSocket("server", socket["server"] + 1)
    /\ UNCHANGED <<opened, arriving, broken, noticed, remoteVars>>

Next ==
    \/ \E e \in Ends : Send(e) \/ KeepAlive(e) \/ ReadMessage(e) \/ GraceExceeded(e)
    \/ \E n \in Sockets : Break(n) \/ ConnectFails(n) \/ ReconnectSucceeds(n)
    \/ Accept \/ SocketClosed \/ AckTimeout \/ Connect \/ ReconnectGivesUp

Spec == Init /\ [][Next]_vars

(* Sockets carry what is written, timers fire, the client tries again, and    *)
(* the server accepts the newest connection.                                  *)
Fairness ==
    /\ \A e \in Ends : WF_vars(ReadMessage(e)) /\ WF_vars(KeepAlive(e))
    /\ WF_vars(SocketClosed \/ AckTimeout)
    /\ WF_vars(Connect \/ \E n \in Sockets : ReconnectSucceeds(n))
    /\ WF_vars(Accept)

LiveSpec == Spec /\ Fairness

-----------------------------------------------------------------------------
(* Properties.                                                               *)

(* The types of the variables.                                                *)
ProtocolTypeOK ==
    /\ socket \in [Ends -> Sockets] /\ opened \in Sockets
    /\ arriving \subseteq Sockets /\ broken \subseteq Sockets
    /\ noticed \in BOOLEAN
    /\ wire \in [Sockets -> [Ends -> Seq(Frames)]]
    /\ outgoingMsgId \in [Ends -> Nat]
    /\ outgoingUnackMsg \in [Ends -> Seq(Frames)]
    /\ incomingAckId \in [Ends -> Nat]
    /\ saturated \in [Ends -> BOOLEAN] /\ overflowed \in [Ends -> BOOLEAN]
    /\ closed \subseteq Ends
    /\ loops \in Nat /\ reported \in {"connected", "reconnecting", "disconnected"}
    /\ got \in [Ends -> Nat]

(* The promise of the transport, however often the socket is replaced ("why   *)
(* the Remote mode loses no message when a broken line is restored").         *)
Abstract == INSTANCE ReliableLine WITH
    sent <- outgoingMsgId,
    held <- [e \in Ends |-> outgoingMsgId[e] - Len(outgoingUnackMsg[e])]
ImplementsReliableLine == Abstract!Line

(* What the peer has not received is still held, so that it can be written     *)
(* again, and nobody acknowledges what it has not received: replays move the   *)
(* acknowledgement back, never ahead.                                          *)
NothingForgotten ==
    \A e \in Ends :
       /\ outgoingMsgId[e] - Len(outgoingUnackMsg[e]) <= got[Peer(e)]
       /\ got[Peer(e)] <= outgoingMsgId[e]
       /\ incomingAckId[e] <= got[e]

(* The flow control tells the truth: between the edges it reported, the number *)
(* of held messages is on the side it said, until the session is abandoned.    *)
WaterMarksHold ==
    \A e \in Ends :
       /\ saturated[e] => Len(outgoingUnackMsg[e]) > Low
       /\ ~saturated[e] /\ ~overflowed[e] => Len(outgoingUnackMsg[e]) <= High

(* "connected" is not reported on a socket known to be gone, and while it      *)
(* reports "reconnecting" somebody is trying.  "disconnected" promises nothing *)
(* here: a reconnection may give up after another has succeeded.               *)
ReportedIsTrue ==
    /\ reported = "connected" => ~noticed
    /\ reported = "reconnecting" => loops > 0 \/ arriving # {}

Crossed == socket["client"] # socket["server"]

(* The owner of e was told that the session is no more, or the client, which   *)
(* alone can connect, has given up a line that is indeed down.                 *)
GivenUp(e) ==
    \/ e \in closed
    \/ reported = "disconnected" /\ loops = 0 /\ arriving = {}
       /\ (Crossed \/ socket["client"] \in broken)

(* The client sits on a whole socket that the server has left behind, and has  *)
(* nothing unacknowledged that would tell it.                                  *)
LeftBehind ==
    /\ Crossed /\ socket["client"] \notin broken
    /\ loops = 0 /\ arriving = {} /\ outgoingUnackMsg["client"] = <<>>

(* Every message arrives, or its sender or the client is told, or it is the    *)
(* server's and the client is left behind for good.                            *)
EveryMessageArrives ==
    \A e \in Ends : \A n \in 1..MaxMsgs(e) :
       outgoingMsgId[e] >= n
          ~> got[Peer(e)] >= n \/ GivenUp(e) \/ (e = "server" /\ []LeftBehind)

(* Flow control never stops a sender for good, with the same exceptions.       *)
SaturationEnds ==
    \A e \in Ends : saturated[e] ~> ~saturated[e] \/ GivenUp(e) \/ (e = "server" /\ []LeftBehind)

(* Every message is held until it was received, whatever sockets do.           *)
HeldUntilReceived == ProtocolTypeOK /\ NothingForgotten

(* What the callbacks have told the owner of the connection is true: flow      *)
(* control and the state of the connection.                                   *)
CallbacksAreTrue == WaterMarksHold /\ ReportedIsTrue

(* No end waits for ever for the peer to have its messages without being told, *)
(* except the server whose client is left behind.                              *)
NobodyWaitsInSilence == EveryMessageArrives /\ SaturationEnds
===============================================================================
