----------------------------- MODULE ReliableLine -----------------------------
(***************************************************************************)
(* What the two ends of a persistent connection promise each other: what   *)
(* one end has sent, the other receives in the order of sending, without a *)
(* gap, and what it has not received the sender still holds.  A message    *)
(* received again is a stuttering step.                                    *)
(***************************************************************************)
EXTENDS Naturals

CONSTANT Ends

VARIABLES
    sent,     \* how many messages each end has sent
    got,      \* how many of the messages of the peer each end has received
    held      \* how many of its first messages each end no longer holds

lineVars == <<sent, got, held>>

LineInit ==
    /\ sent = [e \in Ends |-> 0]
    /\ got = [e \in Ends |-> 0]
    /\ held = [e \in Ends |-> 0]

Send(e) ==
    /\ sent' = [sent EXCEPT ![e] = @ + 1]
    /\ UNCHANGED <<got, held>>

(* The next message arrives, or one that had arrived before; in the same step *)
(* the receiver may learn that some of its own have arrived.                  *)
Receive(e, p) ==
    /\ \/ UNCHANGED got
       \/ got[e] < sent[p] /\ got' = [got EXCEPT ![e] = @ + 1]
    /\ \E k \in held[e]..got[p] : held' = [held EXCEPT ![e] = k]
    /\ UNCHANGED sent

LineNext == \E e \in Ends : Send(e) \/ \E p \in Ends \ {e} : Receive(e, p)

Line == LineInit /\ [][LineNext]_lineVars
===============================================================================
