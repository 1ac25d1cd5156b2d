--------------------------- MODULE MCEventIngestion ---------------------------
(***************************************************************************)
(* Engines for TLC.                                                        *)
(***************************************************************************)
EXTENDS EventIngestion

Event(id, stream, sequence, type) ==
    [id |-> id, stream |-> stream, sequence |-> sequence, type |-> type,
     matches |-> TRUE, evidence |-> TRUE]

(* The events of an Engine that contradicts itself at most about the end, as   *)
(* its first stream and a stream after a restart bring them.                  *)
HonestTypes == <<"input.accepted", "execution.started", "execution.completed", "execution.failed">>
Honest == {Event(n, stream, n, HonestTypes[n]) : n \in 1..4, stream \in 1..2}

(* Three identities and two numbers, used for anything, one flaw at a time.   *)
Wild == {ev \in [id : 1..3, stream : {1}, sequence : {0, 1, 2}, type : {"input.accepted", "execution.started", "execution.completed"},
                 matches : BOOLEAN, evidence : BOOLEAN] : ev.matches \/ ev.evidence}

(* Numbers with gaps.                                                         *)
Gapped == {Event(n, 1, n, IF n = 1 THEN "input.accepted" ELSE "execution.unknown") : n \in 1..5}
          \cup {Event(1, 1, 4, "input.accepted"), Event(3, 1, 5, "execution.unknown")}

MCUniverse == [honest |-> Honest, wild |-> Wild, gapped |-> Gapped]
MCEngines == DOMAIN MCUniverse
MCMaxDeliveries == [honest |-> 5, wild |-> 3, gapped |-> 5]
===============================================================================
