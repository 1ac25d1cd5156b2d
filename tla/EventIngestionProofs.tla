------------------------- MODULE EventIngestionProofs -------------------------
(***************************************************************************)
(* Safety of EventIngestion, for every Engine, every stream that it may    *)
(* deliver and every number of deliveries.                                 *)
(*                                                                         *)
(* A delivery only appends to the log, so the facts about the log that the *)
(* decision of the next event rests on are kept as an inductive invariant: *)
(* an Execution exists only after a vouched acceptance, an unambiguous     *)
(* Engine's acceptance made one exist, and the numbers have a bound, so    *)
(* that the latest of a stream is well defined.                            *)
(***************************************************************************)
EXTENDS EventIngestion, WellFoundedInduction, TLAPS

Terminal == TERMINAL_EXECUTION_STATUSES

(* The least and the greatest number of a set.                                *)
LEMMA MinOf ==
    ASSUME NEW S \in SUBSET Nat, S # {}
    PROVE  Min(S) \in S /\ \A y \in S : Min(S) <= y
<1>1. \E x \in S : \A y \in S : ~(<<y, x>> \in OpToRel(<, Nat))
  BY NatLessThanWellFounded, WFMin
<1>2. \A x, y \in Nat : y < x => <<y, x>> \in OpToRel(<, Nat)
  BY DEF OpToRel
<1>3. \E x \in S : \A y \in S : ~(y < x)
  BY <1>1, <1>2, Zenon
<1>4. \E x \in S : \A y \in S : x <= y
  BY <1>3
<1>5. QED
  BY <1>4 DEF Min

LEMMA MaxOf ==
    ASSUME NEW S \in SUBSET Nat, S # {}, NEW b \in Nat, \A x \in S : x <= b
    PROVE  Max(S) \in S /\ \A y \in S : y <= Max(S)
<1> DEFINE T == {b - x : x \in S}
<1>1. T \in SUBSET Nat
  OBVIOUS
<1>2. T # {}
  OBVIOUS
<1> HIDE DEF T
<1>3. Min(T) \in T /\ \A y \in T : Min(T) <= y
  BY <1>1, <1>2, MinOf
<1>4. PICK m \in S : Min(T) = b - m
  BY <1>3 DEF T
<1>5. \A y \in S : y <= m
  <2> TAKE y \in S
  <2>1. b - y \in T
    BY DEF T
  <2>2. b - m <= b - y
    BY <1>3, <1>4, <2>1
  <2>. QED
    BY <2>2
<1>6. \E x \in S : \A y \in S : x >= y
  BY <1>5
<1>7. QED
  BY <1>6 DEF Max

(* What Append does, position by position.                                    *)
LEMMA Appended ==
    ASSUME NEW S, NEW s \in Seq(S), NEW e \in S
    PROVE  /\ Append(s, e) \in Seq(S) /\ Len(s) \in Nat
           /\ DOMAIN s = 1..Len(s)
           /\ DOMAIN Append(s, e) = 1..(Len(s) + 1)
           /\ Len(Append(s, e)) = Len(s) + 1
           /\ \A i \in 1..Len(s) : Append(s, e)[i] = s[i]
           /\ Append(s, e)[Len(s) + 1] = e
OBVIOUS

(* An event that was logged: a delivery of the Engine.                        *)
LEMMA EventsAreOfTheEngine ==
    ASSUME IngestionTypeOK
    PROVE  \A i \in DOMAIN log : log[i] \in Universe[source] /\ log[i].sequence \in Nat
BY EngineAssumption DEF IngestionTypeOK

(* The invariant of the statuses: what the Execution and the Input are said to *)
(* be is vouched for.                                                         *)
EffectInv ==
    /\ EffectsAreTrue
    /\ exec # "none" => Vouched("input.accepted", Len(log))

(* A delivery as the proofs see it: the log before is a prefix of the log after. *)
Delivery(ev) ==
    /\ ev \in Universe[source] /\ source' = source
    /\ log' \in Seq(Universe[source]) /\ Len(log) \in Nat
    /\ DOMAIN log = 1..Len(log) /\ DOMAIN log' = 1..(Len(log) + 1) /\ Len(log') = Len(log) + 1
    /\ \A i \in 1..Len(log) : log'[i] = log[i]
    /\ log'[Len(log) + 1] = ev

LEMMA DeliveryOf ==
    ASSUME log \in Seq(Universe[source]), NEW ev \in Universe[source], ProcessEvent(ev)
    PROVE  Delivery(ev)
BY Appended DEF Delivery, ProcessEvent

-----------------------------------------------------------------------------
(* Outcomes and their evidence.                                              *)

LEMMA EffectInit == Init => EffectInv
<1> SUFFICES ASSUME Init PROVE EffectInv
  OBVIOUS
<1>1. log = <<>> /\ applied = <<>> /\ exec = "none" /\ input = "sent" /\ ended = FALSE /\ source \in Engines
  BY DEF Init
<1>2. ToSet(applied) = {}
  BY <1>1 DEF ToSet
<1>3. IngestionTypeOK
  <2>1. log \in Seq(Universe[source])
    BY <1>1
  <2>2. ended \in BOOLEAN
    BY <1>1
  <2>3. QED
    BY <1>1, <1>2, <2>1, <2>2, Zenon DEF IngestionTypeOK
<1>4. OutcomesAreVouched /\ InputFollows
  BY <1>1 DEF OutcomesAreVouched, InputFollows, TERMINAL_EXECUTION_STATUSES, Status
<1>5. QED
  BY <1>1, <1>3, <1>4 DEF EffectInv, EffectsAreTrue

(* What an event that is not ignored does to Execution and Input.             *)
LEMMA Effects ==
    ASSUME EffectInv, NEW ev \in Universe[source], Effect(ev)
    PROVE  \/ exec' = exec /\ input' = input
           \/ /\ exec = "none" /\ exec' = "none" /\ input' = "unknown"
           \/ /\ exec \notin {"none", "completed", "failed"}
              /\ exec' = "unknown" /\ input' = "unknown"
           \/ /\ exec = "none" /\ ev.type = "input.accepted" /\ ev.evidence
              /\ exec' = "accepted" /\ input' = "native-accepted"
           \/ /\ exec \notin {"none", "completed", "failed"} /\ ev.evidence
              /\ exec' = "started" /\ input' = "started"
           \/ /\ exec \notin {"none", "completed", "failed"} /\ ev.evidence
              /\ ev.type \in TerminalTypes
              /\ exec' = Status(ev.type) /\ input' = Status(ev.type)
<1>1. ev.type \in Kinds
  BY EngineAssumption DEF EffectInv, EffectsAreTrue, IngestionTypeOK
<1>2. exec = "none" => input \notin Terminal
  BY DEF EffectInv, EffectsAreTrue, InputFollows, Terminal, TERMINAL_EXECUTION_STATUSES
<1>3. exec \notin Terminal => input \notin Terminal
  BY DEF EffectInv, EffectsAreTrue, InputFollows, Terminal, TERMINAL_EXECUTION_STATUSES
<1>4. CASE ev.type = "input.accepted" /\ Accept(ev)
  BY <1>4, <1>2 DEF Accept, Becomes, SetInputUnknown, Terminal, TERMINAL_EXECUTION_STATUSES
<1>5. CASE ev.type # "input.accepted" /\ exec = "none" /\ SetInputUnknown
  BY <1>5, <1>2 DEF SetInputUnknown, Terminal, TERMINAL_EXECUTION_STATUSES
<1>6. CASE ev.type # "input.accepted" /\ exec # "none" /\ ApplyEvent(ev)
  <2>1. exec \notin {"none", "completed", "failed"} /\ input \notin Terminal
    BY <1>6, <1>3 DEF ApplyEvent, Terminal, TERMINAL_EXECUTION_STATUSES
  <2>2. CASE ev.type = "execution.unknown"
    BY <2>1, <2>2, <1>6 DEF ApplyEvent, Unproven, Proven, Becomes
  <2>3. CASE ev.type # "execution.unknown" /\ ~ev.evidence
    BY <2>1, <2>3, <1>6 DEF ApplyEvent, Unproven, Proven, SetInputUnknown, Terminal, TERMINAL_EXECUTION_STATUSES
  <2>4. CASE ev.type = "execution.started" /\ ev.evidence
    BY <2>1, <2>4, <1>6 DEF ApplyEvent, Unproven, Proven, Becomes
  <2>5. CASE ev.type \in TerminalTypes /\ ev.evidence
    BY <2>1, <2>5, <1>6 DEF ApplyEvent, Unproven, Proven, Becomes, TerminalTypes
  <2>6. QED
    BY <1>1, <1>6, <2>2, <2>3, <2>4, <2>5 DEF Kinds, TerminalTypes
<1>7. QED
  BY <1>4, <1>5, <1>6 DEF Effect

LEMMA TypePreserved ==
    ASSUME EffectInv, NEW ev \in Universe[source], ProcessEvent(ev)
    PROVE  IngestionTypeOK' /\ Delivery(ev)
<1>1. IngestionTypeOK
  BY DEF EffectInv, EffectsAreTrue
<1>2. Delivery(ev)
  BY <1>1, DeliveryOf DEF IngestionTypeOK
<1>3. /\ exec' \in {"none", "accepted", "started", "unknown"} \cup TERMINAL_EXECUTION_STATUSES
      /\ input' \in {"sent", "native-accepted", "started", "unknown"} \cup TERMINAL_EXECUTION_STATUSES
  <2>1. CASE Ignored(ev)
    BY <2>1, <1>1 DEF ProcessEvent, IngestionTypeOK
  <2>2. CASE ~Ignored(ev)
    BY <2>2, <1>1, Effects
       DEF ProcessEvent, IngestionTypeOK, Status, TerminalTypes, TERMINAL_EXECUTION_STATUSES
  <2>3. QED
    BY <2>1, <2>2
<1>4. ToSet(applied') \subseteq DOMAIN log'
  <2>1. ToSet(applied) \subseteq 1..Len(log)
    BY <1>1, <1>2 DEF IngestionTypeOK, Delivery
  <2>2. CASE applied' = applied
    BY <2>1, <2>2, <1>2 DEF Delivery
  <2>3. CASE applied' = Append(applied, Len(log) + 1)
    BY <2>1, <2>3, <1>2 DEF Delivery, ToSet
  <2>4. QED
    BY <2>2, <2>3 DEF ProcessEvent
<1>5. source' \in Engines /\ ended' \in BOOLEAN /\ log' \in Seq(Universe[source'])
  BY <1>1, <1>2 DEF IngestionTypeOK, Delivery, ProcessEvent
<1>6. QED
  BY <1>2, <1>3, <1>4, <1>5, Zenon DEF IngestionTypeOK

LEMMA EffectPreserved ==
    ASSUME EffectInv, NEW ev \in Universe[source], ProcessEvent(ev)
    PROVE  EffectInv'
<1>1. IngestionTypeOK' /\ Delivery(ev)
  BY TypePreserved
<1>2. \A type : Vouched(type, Len(log)) => Vouched(type, Len(log))'
  BY <1>1 DEF Vouched, Delivery
<1>3. OutcomesAreVouched /\ InputFollows
  BY DEF EffectInv, EffectsAreTrue
<1>4. (exec # "none" => Vouched("input.accepted", Len(log)))'
  <2>1. CASE exec # "none"
    BY <2>1, <1>1, <1>2 DEF EffectInv
  <2>2. CASE exec = "none" /\ exec' # "none"
    <3>1. ~Ignored(ev) /\ ev.type = "input.accepted" /\ ev.evidence
      BY <2>2, Effects DEF ProcessEvent
    <3>2. ev.matches
      BY <3>1 DEF Ignored
    <3>3. QED
      BY <3>1, <3>2, <1>1 DEF Vouched, Delivery
  <2>3. QED
    BY <2>1, <2>2
<1>5. OutcomesAreVouched'
  <2> SUFFICES ASSUME NEW type \in TerminalTypes, Status(type) \in {exec', input'}
               PROVE  \E k \in DOMAIN log' : /\ log'[k].type = type /\ log'[k].evidence /\ log'[k].matches
                                             /\ Vouched("input.accepted", k - 1)'
    BY DEF OutcomesAreVouched
  <2>1. CASE Status(type) \in {exec, input}
    <3>1. PICK k \in DOMAIN log : /\ log[k].type = type /\ log[k].evidence /\ log[k].matches
                                  /\ Vouched("input.accepted", k - 1)
      BY <2>1, <1>3 DEF OutcomesAreVouched
    <3>2. k \in DOMAIN log' /\ log'[k] = log[k] /\ \A i \in 1..(k - 1) : log'[i] = log[i]
      BY <1>1 DEF Delivery
    <3>3. QED
      BY <3>1, <3>2 DEF Vouched
  <2>2. CASE Status(type) \notin {exec, input}
    <3>1. ~Ignored(ev)
      BY <2>2 DEF ProcessEvent
    <3>2. exec # "none" /\ ev.evidence /\ ev.type = type
      BY <2>2, <3>1, Effects DEF ProcessEvent, Status, TerminalTypes
    <3>3. ev.matches
      BY <3>1 DEF Ignored
    <3>4. \E i \in 1..Len(log) :
            log'[i].type = "input.accepted" /\ log'[i].evidence /\ log'[i].matches
      BY <3>2, <1>1 DEF EffectInv, Vouched, Delivery
    <3>5. QED
      BY <3>2, <3>3, <3>4, <1>1 DEF Vouched, Delivery
  <2>3. QED
    BY <2>1, <2>2
<1>6. InputFollows'
  <2>1. CASE Ignored(ev)
    BY <2>1, <1>3 DEF InputFollows, ProcessEvent
  <2>2. CASE ~Ignored(ev)
    BY <2>2, <1>3, Effects DEF InputFollows, ProcessEvent, Status, TerminalTypes, TERMINAL_EXECUTION_STATUSES
  <2>3. QED
    BY <2>1, <2>2
<1>7. QED
  BY <1>1, <1>4, <1>5, <1>6 DEF EffectInv, EffectsAreTrue

(* The invariant of the statuses holds of every history of deliveries.         *)
THEOREM EffectInvariant == Spec => []EffectInv
<1>1. EffectInv /\ [Next]_vars => EffectInv'
  <2> SUFFICES ASSUME EffectInv, [Next]_vars PROVE EffectInv'
    OBVIOUS
  <2>1. CASE AbandonTask
    <3>1. EffectsAreTrue
      BY DEF EffectInv
    <3>2. IngestionTypeOK'
      BY <3>1, <2>1 DEF AbandonTask, EffectsAreTrue, IngestionTypeOK
    <3>3. OutcomesAreVouched' /\ InputFollows'
      BY <3>1, <2>1 DEF AbandonTask, EffectsAreTrue, OutcomesAreVouched, InputFollows, Vouched
    <3>4. QED
      BY <3>2, <3>3, <2>1 DEF EffectInv, EffectsAreTrue, AbandonTask, Vouched
  <2>2. ASSUME NEW ev \in Universe[source], ProcessEvent(ev) PROVE EffectInv'
    BY <2>2, EffectPreserved
  <2>3. CASE UNCHANGED vars
    BY <2>3 DEF EffectInv, EffectsAreTrue, IngestionTypeOK, OutcomesAreVouched, InputFollows,
                Vouched, vars
  <2>4. QED
    BY <2>1, <2>2, <2>3 DEF Next
<1>2. QED
  BY EffectInit, <1>1, PTL DEF Spec

(* Whatever an Engine delivers, in whatever order and how often, an outcome    *)
(* that is claimed for the Execution or the Input is one that the Engine        *)
(* vouched for, after an acceptance, and the Input claims no other.           *)
THEOREM EffectsTrue == Spec => []EffectsAreTrue
<1>1. EffectInv => EffectsAreTrue
  BY DEF EffectInv
<1>2. QED
  BY EffectInvariant, <1>1, PTL

-----------------------------------------------------------------------------
(* One effect for an event.                                                  *)

EffectOnceInv ==
    /\ OneEffectPerEvent
    /\ applied \in Seq(Nat)

LEMMA OneEffectStep ==
    ASSUME IngestionTypeOK, EffectOnceInv, NEW ev \in Universe[source], ProcessEvent(ev)
    PROVE  EffectOnceInv'
<1>1. Delivery(ev)
  BY DeliveryOf DEF IngestionTypeOK
<1>2. /\ applied \in Seq(Nat) /\ DOMAIN applied = 1..Len(applied) /\ Len(applied) \in Nat
      /\ \A i \in DOMAIN applied : applied[i] \in 1..Len(log)
  BY <1>1 DEF IngestionTypeOK, EffectOnceInv, ToSet, Delivery
<1>3. /\ \A i \in DOMAIN applied : log'[applied[i]] = log[applied[i]]
      /\ \A i, j \in DOMAIN applied : i # j =>
            \/ log[applied[i]].sequence = 0
            \/ log[applied[i]].stream # log[applied[j]].stream
            \/ log[applied[i]].sequence # log[applied[j]].sequence
  BY <1>1, <1>2 DEF EffectOnceInv, OneEffectPerEvent, OneEffectPerNumber, Delivery
<1>4. CASE applied' = applied
  <2>1. EffectOfFirstDelivery'
    BY <1>1, <1>2, <1>4 DEF EffectOnceInv, OneEffectPerEvent, EffectOfFirstDelivery, Delivery
  <2>2. OneEffectPerNumber'
    BY <1>3, <1>2, <1>4 DEF OneEffectPerNumber
  <2>3. QED
    BY <2>1, <2>2, <1>2, <1>4 DEF EffectOnceInv, OneEffectPerEvent
<1>5. CASE applied' = Append(applied, Len(log) + 1) /\ ~Ignored(ev)
  <2>1. /\ applied' \in Seq(Nat) /\ DOMAIN applied' = 1..(Len(applied) + 1)
        /\ \A i \in 1..Len(applied) : applied'[i] = applied[i]
        /\ applied'[Len(applied) + 1] = Len(log) + 1
    BY <1>1, <1>2, <1>5, Appended DEF Delivery
  <2>2. \A j \in 1..Len(log) : log[j].id # ev.id
    BY <1>1, <1>5 DEF Ignored, Duplicate, SameId, Delivery
  <2>3. EffectOfFirstDelivery'
    <3> SUFFICES ASSUME NEW i \in DOMAIN applied', NEW j \in DOMAIN log',
                        log'[j].id = log'[applied'[i]].id
                 PROVE  j >= applied'[i]
      BY DEF EffectOfFirstDelivery
    <3>1. CASE i \in 1..Len(applied)
      <4>1. applied'[i] = applied[i] /\ log'[applied[i]] = log[applied[i]] /\ applied[i] \in 1..Len(log)
        BY <3>1, <1>2, <1>3, <2>1
      <4>2. CASE j \in 1..Len(log)
        BY <4>1, <4>2, <3>1, <1>1, <1>2
           DEF EffectOnceInv, OneEffectPerEvent, EffectOfFirstDelivery, Delivery
      <4>3. CASE j = Len(log) + 1
        BY <4>1, <4>3, <1>1 DEF Delivery
      <4>4. QED
        BY <4>2, <4>3, <1>1 DEF Delivery
    <3>2. CASE i = Len(applied) + 1
      BY <3>2, <1>1, <2>1, <2>2 DEF Delivery
    <3>3. QED
      BY <3>1, <3>2, <1>2, <2>1
  <2>4. SameNumber(ev) = {}
    <3>1. SameNumber(ev) \in SUBSET Nat /\ SameNumber(ev) \subseteq 1..Len(log)
      BY <1>1 DEF SameNumber, Delivery
    <3>2. SameNumber(ev) # {} => Min(SameNumber(ev)) \in 1..Len(log)
      BY <3>1, MinOf
    <3>3. QED
      BY <3>2, <2>2, <1>5 DEF Ignored, SequenceConflict
  <2>5. \A j \in 1..Len(log) :
           ev.sequence = 0 \/ log[j].stream # ev.stream \/ log[j].sequence # ev.sequence
    BY <2>4, <1>1, EngineAssumption DEF SameNumber, Delivery, IngestionTypeOK
  <2>6. OneEffectPerNumber'
    <3> SUFFICES ASSUME NEW i \in DOMAIN applied', NEW j \in DOMAIN applied', i # j
                 PROVE  \/ log'[applied'[i]].sequence = 0
                        \/ log'[applied'[i]].stream # log'[applied'[j]].stream
                        \/ log'[applied'[i]].sequence # log'[applied'[j]].sequence
      BY DEF OneEffectPerNumber
    <3>1. CASE i \in 1..Len(applied) /\ j \in 1..Len(applied)
      <4>1. /\ applied'[i] = applied[i] /\ applied'[j] = applied[j]
            /\ i \in DOMAIN applied /\ j \in DOMAIN applied
        BY <3>1, <1>2, <2>1
      <4>2. QED
        BY <4>1, <1>3
    <3>2. CASE i = Len(applied) + 1 /\ j \in 1..Len(applied)
      BY <3>2, <1>1, <1>2, <2>1, <2>5 DEF Delivery
    <3>3. CASE j = Len(applied) + 1 /\ i \in 1..Len(applied)
      BY <3>3, <1>1, <1>2, <2>1, <2>5 DEF Delivery
    <3>4. QED
      BY <3>1, <3>2, <3>3, <1>2, <2>1
  <2>7. QED
    BY <2>1, <2>3, <2>6 DEF EffectOnceInv, OneEffectPerEvent
<1>6. QED
  BY <1>4, <1>5 DEF ProcessEvent

(* An event that is repeated, and one whose number is taken, changes nothing:   *)
(* the first delivery alone has its effect.                                   *)
THEOREM EffectOnce == Spec => []OneEffectPerEvent
<1>1. Init => EffectOnceInv
  BY DEF Init, EffectOnceInv, OneEffectPerEvent, EffectOfFirstDelivery, OneEffectPerNumber
<1>2. IngestionTypeOK /\ EffectOnceInv /\ [Next]_vars => EffectOnceInv'
  <2> SUFFICES ASSUME IngestionTypeOK, EffectOnceInv, [Next]_vars PROVE EffectOnceInv'
    OBVIOUS
  <2>1. CASE AbandonTask \/ UNCHANGED vars
    BY <2>1 DEF AbandonTask, vars, EffectOnceInv, OneEffectPerEvent, EffectOfFirstDelivery,
                OneEffectPerNumber
  <2>2. QED
    BY <2>1, OneEffectStep DEF Next
<1>3. EffectInv => IngestionTypeOK
  BY DEF EffectInv, EffectsAreTrue
<1>4. EffectOnceInv => OneEffectPerEvent
  BY DEF EffectOnceInv
<1>5. QED
  BY EffectInvariant, <1>1, <1>2, <1>3, <1>4, PTL DEF Spec

-----------------------------------------------------------------------------
(* The loss of events.                                                       *)

GapIssues == {"sequence-gap", "out-of-order-event", "event-conflict"}

(* The numbers have a bound, an Engine that is unambiguous had its acceptance   *)
(* believed, and whatever a stream lost was reported.                         *)
LossInv ==
    /\ LossIsVisible
    /\ \E b \in Nat : \A i \in DOMAIN log : log[i].sequence <= b
    /\ source \in Unambiguous =>
          \A a \in DOMAIN log : log[a].type = "input.accepted" => exec # "none"

LEMMA IssuesKept ==
    ASSUME NEW ev, ProcessEvent(ev)
    PROVE  issues \subseteq issues' /\ IssuesOf(ev) \subseteq issues'
BY DEF ProcessEvent

(* Where nothing was reported and nothing repeated, a number is the next one.   *)
LEMMA NumbersAreConsecutive ==
    ASSUME IngestionTypeOK, LossInv, NEW ev \in Universe[source], Delivery(ev),
           IssuesOf(ev) \cap GapIssues = {}, ~Duplicate(ev), ev.sequence > 0,
           NEW i \in DOMAIN log, log[i].stream = ev.stream, log[i].sequence > 0
    PROVE  \E m \in DOMAIN log :
              /\ log[m].stream = ev.stream /\ log[m].sequence > 0
              /\ \A k \in DOMAIN log : log[k].stream = ev.stream => log[k].sequence <= log[m].sequence
              /\ ev.sequence \in {log[m].sequence, log[m].sequence + 1}
<1>1. \A k \in DOMAIN log : log[k].sequence \in Nat
  BY EventsAreOfTheEngine
<1>2. ev.sequence \in Nat
  BY EngineAssumption DEF IngestionTypeOK
<1>3. Numbers(ev) \in SUBSET Nat /\ log[i].sequence \in Numbers(ev)
  BY <1>1 DEF Numbers
<1>4. PICK b \in Nat : \A k \in DOMAIN log : log[k].sequence <= b
  BY DEF LossInv
<1>5. \A x \in Numbers(ev) : x <= b
  BY <1>1, <1>4 DEF Numbers
<1>6. Max(Numbers(ev)) \in Numbers(ev) /\ \A y \in Numbers(ev) : y <= Max(Numbers(ev))
  BY <1>3, <1>5, MaxOf
<1>7. ~SequenceConflict(ev) /\ ~Gap(ev) /\ ~OutOfOrder(ev)
  BY DEF IssuesOf, When, GapIssues
<1>8. Numbered(ev)
  BY <1>3, <1>7 DEF Numbered
<1>9. PICK m \in DOMAIN log : /\ log[m].stream = ev.stream /\ log[m].sequence = Max(Numbers(ev))
                              /\ log[m].sequence > 0
  BY <1>1, <1>6 DEF Numbers
<1>10. \A k \in DOMAIN log : log[k].stream = ev.stream => log[k].sequence <= log[m].sequence
  BY <1>1, <1>6, <1>9 DEF Numbers
<1>11. ~(ev.sequence > log[m].sequence + 1) /\ ~(ev.sequence < log[m].sequence)
  BY <1>7, <1>8, <1>9 DEF Gap, OutOfOrder
<1>12. QED
  BY <1>1, <1>2, <1>9, <1>10, <1>11

LEMMA GapsStep ==
    ASSUME IngestionTypeOK, LossInv, NEW ev \in Universe[source], ProcessEvent(ev)
    PROVE  GapsAreReported'
<1>1. Delivery(ev)
  BY DeliveryOf DEF IngestionTypeOK
<1>2. \A k \in DOMAIN log : log[k].sequence \in Nat
  BY EventsAreOfTheEngine
<1>3. ev.sequence \in Nat
  BY EngineAssumption DEF IngestionTypeOK
<1> SUFFICES ASSUME issues' \cap GapIssues = {},
                    NEW i \in DOMAIN log', NEW j \in DOMAIN log',
                    NEW n \in (log'[i].sequence + 1)..(log'[j].sequence - 1),
                    log'[i].stream = log'[j].stream, 0 < log'[i].sequence, Fresh(log[i].stream)'
             PROVE  \E k \in DOMAIN log' : log'[k].stream = log'[i].stream /\ log'[k].sequence = n
  BY DEF GapsAreReported, GapIssues
<1>4. issues \cap GapIssues = {} /\ IssuesOf(ev) \cap GapIssues = {}
  BY IssuesKept
<1>5. Fresh(log'[i].stream)
  BY <1>1 DEF Fresh, Delivery
<1>6. n \in Nat /\ log'[i].sequence < n /\ n < log'[j].sequence
  BY <1>1, <1>2, <1>3 DEF Delivery
(* Between two deliveries of before, the report holds already.                *)
<1>7. ASSUME NEW a \in DOMAIN log, NEW c \in DOMAIN log, log[a].stream = log'[i].stream,
             log[c].stream = log[a].stream, 0 < log[a].sequence, NEW x \in Nat,
             log[a].sequence < x, x < log[c].sequence
      PROVE  \E k \in DOMAIN log : log[k].stream = log'[i].stream /\ log[k].sequence = x
  <2>1. x \in (log[a].sequence + 1)..(log[c].sequence - 1)
    BY <1>2, <1>7
  <2>2. QED
    BY <2>1, <1>4, <1>5, <1>7 DEF LossInv, LossIsVisible, GapsAreReported, GapIssues
<1>8. CASE i \in 1..Len(log) /\ j \in 1..Len(log)
  BY <1>1, <1>6, <1>7, <1>8 DEF Delivery
<1>9. CASE i = Len(log) + 1 /\ j \in 1..Len(log)
  <2>1. ev.stream = log'[i].stream /\ ~Duplicate(ev)
    BY <1>1, <1>9 DEF Fresh, Delivery, Duplicate, SameId
  <2>2. log[j].stream = ev.stream /\ log[j].sequence > 0 /\ ev.sequence > 0
        /\ ev.sequence + 1 < log[j].sequence
    BY <1>1, <1>2, <1>3, <1>6, <1>9 DEF Delivery
  <2>3. j \in DOMAIN log
    BY <1>1, <1>9 DEF Delivery
  <2>4. PICK m \in DOMAIN log : /\ log[j].sequence <= log[m].sequence
                                /\ ev.sequence \in {log[m].sequence, log[m].sequence + 1}
    BY <2>1, <2>2, <2>3, <1>1, <1>4, NumbersAreConsecutive
  <2>5. QED
    BY <2>2, <2>3, <2>4, <1>2, <1>3
<1>10. CASE i \in 1..Len(log) /\ j = Len(log) + 1
  <2>1. ev.stream = log'[i].stream /\ log'[i] = log[i] /\ ~Duplicate(ev) /\ log'[j] = ev
    BY <1>1, <1>10 DEF Fresh, Delivery, Duplicate, SameId
  <2>2. i \in DOMAIN log /\ log[i].stream = ev.stream /\ log[i].sequence > 0 /\ ev.sequence > 0
    BY <1>1, <1>2, <1>3, <1>6, <1>10, <2>1 DEF Delivery
  <2>3. PICK m \in DOMAIN log : /\ log[m].stream = ev.stream
                                /\ ev.sequence \in {log[m].sequence, log[m].sequence + 1}
    BY <2>1, <2>2, <1>1, <1>4, NumbersAreConsecutive
  <2>4. n <= log[m].sequence
    BY <1>2, <1>3, <1>6, <2>1, <2>3
  <2>5. m \in DOMAIN log' /\ log'[m] = log[m]
    BY <1>1 DEF Delivery
  <2>6. CASE n = log[m].sequence
    BY <2>1, <2>3, <2>5, <2>6
  <2>7. CASE n < log[m].sequence
    <3>1. \E k \in DOMAIN log : log[k].stream = log'[i].stream /\ log[k].sequence = n
      BY <2>1, <2>2, <2>3, <2>7, <1>6, <1>7
    <3>2. QED
      BY <3>1, <1>1 DEF Delivery
  <2>8. QED
    BY <2>4, <2>6, <2>7, <1>2, <1>6
<1>11. CASE i = Len(log) + 1 /\ j = Len(log) + 1
  BY <1>1, <1>3, <1>6, <1>11 DEF Delivery
<1>12. QED
  BY <1>1, <1>8, <1>9, <1>10, <1>11 DEF Delivery

(* An unambiguous Engine's event is ignored only when it is repeated.          *)
LEMMA OnlyRepetitionsIgnored ==
    ASSUME IngestionTypeOK, source \in Unambiguous, NEW ev \in Universe[source], Ignored(ev)
    PROVE  \E i \in DOMAIN log : log[i].id = ev.id /\ log[i].type = ev.type
<1>1. ev.matches /\ \A a \in Universe[source] : a.id = ev.id => a.type = ev.type
  BY DEF Unambiguous
<1>2. \A i \in DOMAIN log : log[i] \in Universe[source]
  BY EventsAreOfTheEngine
<1>3. CASE Duplicate(ev)
  BY <1>1, <1>2, <1>3 DEF Duplicate, SameId
<1>4. CASE SequenceConflict(ev)
  <2>1. PICK i \in SameNumber(ev) : TRUE
    BY <1>4 DEF SequenceConflict
  <2>2. i \in DOMAIN log /\ log[i].stream = ev.stream /\ log[i].sequence = ev.sequence
    BY <2>1 DEF SameNumber
  <2>3. log[i] = ev
    BY <2>2, <1>2 DEF Unambiguous
  <2>4. QED
    BY <2>2, <2>3
<1>5. QED
  BY <1>1, <1>3, <1>4 DEF Ignored

LEMMA ToldStep ==
    ASSUME EffectInv, LossInv, NEW ev \in Universe[source], ProcessEvent(ev)
    PROVE  /\ ToldOutcomeIsKnown'
           /\ source' \in Unambiguous =>
                 \A a \in DOMAIN log' : log'[a].type = "input.accepted" => exec' # "none"
<1>1. IngestionTypeOK
  BY DEF EffectInv, EffectsAreTrue
<1>2. Delivery(ev)
  BY <1>1, DeliveryOf DEF IngestionTypeOK
<1>3. /\ exec # "none" => exec' # "none"
      /\ exec \in Terminal => exec' \in Terminal
  <2>1. CASE Ignored(ev)
    BY <2>1 DEF ProcessEvent
  <2>2. CASE ~Ignored(ev)
    BY <2>2, Effects DEF ProcessEvent, Status, Terminal, TERMINAL_EXECUTION_STATUSES
  <2>3. QED
    BY <2>1, <2>2
<1> SUFFICES ASSUME source \in Unambiguous
             PROVE  /\ \A a \in DOMAIN log' : log'[a].type = "input.accepted" => exec' # "none"
                    /\ \A a, t \in DOMAIN log' :
                          /\ a < t /\ log'[a].type = "input.accepted" /\ log'[t].type \in TerminalTypes
                          /\ \A j \in 1..(t - 1) : log'[j].id # log'[t].id
                          => exec' \in Terminal
  BY <1>2 DEF ToldOutcomeIsKnown, Terminal, Delivery
<1>4. ev.evidence
  BY DEF Unambiguous
<1>5. \A a \in DOMAIN log' : log'[a].type = "input.accepted" => exec' # "none"
  <2> SUFFICES ASSUME NEW a \in DOMAIN log', log'[a].type = "input.accepted"
               PROVE  exec' # "none"
    OBVIOUS
  <2>1. CASE a \in 1..Len(log)
    BY <2>1, <1>2, <1>3 DEF LossInv, Delivery
  <2>2. CASE ev.type = "input.accepted" /\ Ignored(ev)
    BY <2>2, <1>1, <1>3, OnlyRepetitionsIgnored DEF LossInv
  <2>3. CASE ev.type = "input.accepted" /\ ~Ignored(ev)
    <3>1. Effect(ev)
      BY <2>3 DEF ProcessEvent
    <3>2. QED
      BY <3>1, <2>3, <1>4 DEF Effect, Accept, Becomes
  <2>4. QED
    BY <2>1, <2>2, <2>3, <1>2 DEF Delivery
<1>6. ASSUME NEW a \in DOMAIN log', NEW t \in DOMAIN log', a < t,
             log'[a].type = "input.accepted", log'[t].type \in TerminalTypes,
             \A j \in 1..(t - 1) : log'[j].id # log'[t].id
      PROVE  exec' \in Terminal
  <2>1. CASE t \in 1..Len(log)
    <3>1. a \in DOMAIN log /\ t \in DOMAIN log /\ log'[a] = log[a] /\ log'[t] = log[t]
          /\ \A j \in 1..(t - 1) : log[j].id # log[t].id
      BY <2>1, <1>2, <1>6 DEF Delivery
    <3>2. exec \in Terminal
      BY <3>1, <1>6 DEF LossInv, LossIsVisible, ToldOutcomeIsKnown, Terminal
    <3>3. QED
      BY <3>2, <1>3
  <2>2. CASE t = Len(log) + 1
    <3>1. /\ a \in DOMAIN log /\ log[a].type = "input.accepted" /\ ev.type \in TerminalTypes
          /\ \A j \in DOMAIN log : log[j].id # ev.id
      BY <2>2, <1>2, <1>6 DEF Delivery
    <3>2. exec # "none"
      BY <3>1 DEF LossInv
    <3>3. ~Ignored(ev)
      BY <3>1, <1>1, OnlyRepetitionsIgnored
    <3>4. Effect(ev)
      BY <3>3 DEF ProcessEvent
    <3>5. CASE exec \in Terminal
      BY <3>5, <1>3
    <3>6. CASE exec \notin Terminal
      <4>1. ApplyEvent(ev)
        BY <3>1, <3>2, <3>4, <3>6 DEF Effect, TerminalTypes, Terminal
      <4>2. exec' = Status(ev.type)
        BY <4>1, <3>1, <1>4 DEF ApplyEvent, Unproven, Proven, Becomes, TerminalTypes
      <4>3. QED
        BY <4>2 DEF Status, Terminal, TERMINAL_EXECUTION_STATUSES
    <3>7. QED
      BY <3>5, <3>6
  <2>3. QED
    BY <2>1, <2>2, <1>2 DEF Delivery
<1>7. QED
  BY <1>5, <1>6

(* However a stream repeats, reorders and loses its events: a number that is    *)
(* missing was reported, and the end of an Execution that was told is known.  *)
THEOREM LossVisible == Spec => []LossIsVisible
<1>1. Init => LossInv
  <2> SUFFICES ASSUME Init PROVE LossInv
    OBVIOUS
  <2>1. log = <<>> /\ DOMAIN log = {}
    BY DEF Init
  <2>2. QED
    BY <2>1 DEF LossInv, LossIsVisible, GapsAreReported, ToldOutcomeIsKnown
<1>2. EffectInv /\ LossInv /\ [Next]_vars => LossInv'
  <2> SUFFICES ASSUME EffectInv, LossInv, [Next]_vars PROVE LossInv'
    OBVIOUS
  <2>1. CASE AbandonTask \/ UNCHANGED vars
    BY <2>1 DEF AbandonTask, vars, LossInv, LossIsVisible, GapsAreReported, Fresh, ToldOutcomeIsKnown
  <2>2. ASSUME NEW ev \in Universe[source], ProcessEvent(ev) PROVE LossInv'
    <3>1. IngestionTypeOK
      BY DEF EffectInv, EffectsAreTrue
    <3>2. Delivery(ev) /\ ev.sequence \in Nat
      BY <2>2, <3>1, DeliveryOf, EngineAssumption DEF IngestionTypeOK
    <3>3. GapsAreReported'
      BY <2>2, <3>1, GapsStep
    <3>4. \E b \in Nat : \A i \in DOMAIN log' : log'[i].sequence <= b
      <4>1. PICK b \in Nat : \A i \in DOMAIN log : log[i].sequence <= b
        BY DEF LossInv
      <4>2. \A i \in DOMAIN log : log[i].sequence \in Nat
        BY <3>1, EventsAreOfTheEngine
      <4>3. b + ev.sequence \in Nat /\ \A i \in DOMAIN log' : log'[i].sequence <= b + ev.sequence
        BY <4>1, <4>2, <3>2 DEF Delivery
      <4>4. QED
        BY <4>3
    <3>5. QED
      BY <2>2, <3>3, <3>4, ToldStep DEF LossInv, LossIsVisible
  <2>3. QED
    BY <2>1, <2>2 DEF Next
<1>3. LossInv => LossIsVisible
  BY DEF LossInv
<1>4. QED
  BY EffectInvariant, <1>1, <1>2, <1>3, PTL DEF Spec

-----------------------------------------------------------------------------
(* The first outcome.                                                        *)

(* Once the Execution has ended nothing changes its outcome or the Input's, and *)
(* a terminal event that says otherwise is reported.                          *)
THEOREM FirstOutcome == Spec => FirstOutcomeStays
<1> DEFINE Stays ==
       /\ exec \in TERMINAL_EXECUTION_STATUSES => exec' = exec /\ input' = input
       /\ Len(log') > Len(log) =>
            LET ev == log'[Len(log')] IN
            exec \in TERMINAL_EXECUTION_STATUSES /\ ~Ignored(ev) /\ ev.type \in TerminalTypes
               /\ Status(ev.type) # exec => "contradictory-terminal" \in issues'
<1>1. EffectInv /\ [Next]_vars => [Stays]_vars
  <2> SUFFICES ASSUME EffectInv, NEW ev \in Universe[source], ProcessEvent(ev) PROVE Stays
    <3>1. IngestionTypeOK => log \in Seq(Universe[source])
      BY DEF IngestionTypeOK
    <3>2. CASE AbandonTask
      BY <3>1, <3>2 DEF AbandonTask, EffectInv, EffectsAreTrue
    <3>3. QED
      BY <3>2 DEF Next
  <2>1. Delivery(ev)
    BY DeliveryOf DEF EffectInv, EffectsAreTrue, IngestionTypeOK
  <2>2. log'[Len(log')] = ev
    BY <2>1 DEF Delivery
  <2>3. exec \in TERMINAL_EXECUTION_STATUSES => exec' = exec /\ input' = input
    <3>1. CASE Ignored(ev)
      BY <3>1 DEF ProcessEvent
    <3>2. CASE ~Ignored(ev)
      BY <3>2 DEF ProcessEvent, Effect, Accept, ApplyEvent, TERMINAL_EXECUTION_STATUSES
    <3>3. QED
      BY <3>1, <3>2
  <2>4. ASSUME exec \in TERMINAL_EXECUTION_STATUSES, ~Ignored(ev), ev.type \in TerminalTypes,
               Status(ev.type) # exec
        PROVE  "contradictory-terminal" \in issues'
    BY <2>4 DEF ProcessEvent, IssuesOfEffect, When
  <2>5. QED
    BY <2>2, <2>3, <2>4
<1>2. QED
  BY EffectInvariant, <1>1, PTL DEF Spec, FirstOutcomeStays
===============================================================================
