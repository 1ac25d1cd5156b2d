----------------------------- MODULE SerialSession ----------------------------
(***************************************************************************)
(* What a Session promises whoever gives it work, whatever it does to keep *)
(* the promise: work waits in one line, is taken from the front of it, and *)
(* is taken only when nothing else is open.  A piece of work is new, waits, *)
(* is open (handed to the Engine, its end not yet known) and is over; it   *)
(* never goes back.  The user may cancel a waiting Input or move it in the *)
(* line; otherwise the Session gives up all of its waiting Inputs, or all  *)
(* of its waiting work, and never picks one.                               *)
(*                                                                         *)
(* The line is a set of waiting work and the relation "is ahead of".       *)
(***************************************************************************)
CONSTANTS Turns,       \* user turns
          Maintenance  \* maintenance commands, which share the line with them

AllWork == Turns \cup Maintenance

VARIABLES waiting, \* work that waits
          ahead,   \* pairs of waiting work, the first ahead of the second
          open,    \* work the Engine may have
          over     \* work that has ended or been given up

vars == <<waiting, ahead, open, over>>

New == AllWork \ (waiting \cup open \cup over)

(* The relation r between members of S only.                                 *)
Within(r, S) == {p \in r : p[1] \in S /\ p[2] \in S}

IsLine(r, S) ==
    /\ r \subseteq S \X S
    /\ \A v, w \in S : v # w => (<<v, w>> \in r <=> <<w, v>> \notin r)
    /\ \A w \in S : <<w, w>> \notin r
    /\ \A u, v, w \in S : <<u, v>> \in r /\ <<v, w>> \in r => <<u, w>> \in r

Init == waiting = {} /\ ahead = {} /\ open = {} /\ over = {}

-----------------------------------------------------------------------------
(* The second half of a step, which the first has brought to the line S, r,  *)
(* open work o and ended work e: nothing, the front is taken, or the line is  *)
(* given up.                                                                 *)

Rest(S, r, o, e) == waiting' = S /\ ahead' = r /\ open' = o /\ over' = e

Take(S, r, o, e) ==
    /\ o = {}
    /\ \E w \in S : /\ \A v \in S \ {w} : <<w, v>> \in r
                    /\ Rest(S \ {w}, Within(r, S \ {w}), {w}, e)

GiveUp(S, r, o, e) ==
    \E kept \in {S \ Turns, {}} : Rest(kept, Within(r, kept), o, e \cup (S \ kept))

Then(S, r, o, e) == Rest(S, r, o, e) \/ Take(S, r, o, e) \/ GiveUp(S, r, o, e)

-----------------------------------------------------------------------------

(* Work that finds nobody waiting is open at once: a turn only if nothing    *)
(* else is open, maintenance also beside a turn, behind which the Engine     *)
(* itself will queue it.                                                     *)
Start(w) ==
    /\ w \in New /\ waiting = {}
    /\ open \subseteq (IF w \in Turns THEN {} ELSE Turns)
    /\ Rest(waiting, ahead, open \cup {w}, over)

Enter(w) ==
    /\ w \in New
    /\ Then(waiting \cup {w}, ahead \cup (waiting \X {w}), open, over)

End(w) ==
    /\ w \in open
    /\ Then(waiting, ahead, open \ {w}, over \cup {w})

Cancel(i) ==
    /\ i \in waiting \cap Turns
    /\ Rest(waiting \ {i}, Within(ahead, waiting \ {i}), open, over \cup {i})

(* One turn changes its place; the others keep their order.  Maintenance in  *)
(* the line is never overtaken.                                              *)
Move(i) ==
    /\ i \in waiting /\ waiting \subseteq Turns
    /\ \E r \in SUBSET (waiting \X waiting) :
         /\ IsLine(r, waiting)
         /\ Within(r, waiting \ {i}) = Within(ahead, waiting \ {i})
         /\ Then(waiting, r, open, over)

Next ==
    \/ \E w \in AllWork : Start(w) \/ Enter(w) \/ End(w)
    \/ \E i \in Turns : Cancel(i) \/ Move(i)
    \/ Then(waiting, ahead, open, over)

Spec == Init /\ [][Next]_vars

=============================================================================
