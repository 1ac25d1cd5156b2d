---------------------------- MODULE EventIngestion ----------------------------
(***************************************************************************)
(* How the runtime takes in the events of one native Execution.  The       *)
(* stream may repeat, reorder and drop events, number them with gaps,      *)
(* reuse an identity or a number, carry the event of another Execution, or *)
(* claim something without evidence of the Engine.  Every delivery is kept *)
(* in the log; what it may change is decided here.                         *)
(***************************************************************************)
EXTENDS Naturals, Sequences, SequencesExt, FiniteSetsExt

CONSTANTS
    Engines,       \* names of Engines
    Universe,      \* what each of them may deliver, each event any number of times
    MaxDeliveries  \* and how many deliveries are looked at

(* An event: its native id, its stream and source sequence (0 is null), what  *)
(* it says, whether it names this Execution, and whether the Engine vouches.  *)
Kinds == {"input.accepted", "execution.started", "execution.completed", "execution.failed",
          "execution.unknown"}

ASSUME EngineAssumption ==
    /\ MaxDeliveries \in [Engines -> Nat] /\ DOMAIN Universe = Engines
    /\ \A source \in Engines : \A ev \in Universe[source] :
          ev.sequence \in Nat /\ ev.type \in Kinds /\ {ev.matches, ev.evidence} \subseteq BOOLEAN

TerminalTypes == {"execution.completed", "execution.failed"}
TERMINAL_EXECUTION_STATUSES == {"completed", "failed"}
Status(type) == IF type = "execution.completed" THEN "completed" ELSE "failed"

VARIABLES
    source,   \* the Engine of this Execution
    log,      \* the event records, in the order of their delivery
    exec,     \* status of the Execution, "none" before it exists
    input,    \* status of the Input
    ended,    \* the Task has a terminal status
    issues,   \* the types of the integrity issues
    applied   \* ghost: the deliveries that changed the Execution, by position

vars == <<source, log, exec, input, ended, issues, applied>>

Init ==
    /\ source \in Engines
    /\ log = <<>> /\ exec = "none" /\ input = "sent" /\ ended = FALSE
    /\ issues = {} /\ applied = <<>>

-----------------------------------------------------------------------------
(* What the log knows of an event.                                           *)

SameId(ev) == {i \in DOMAIN log : log[i].id = ev.id}
SameNumber(ev) == {i \in DOMAIN log : ev.sequence > 0 /\ log[i].stream = ev.stream
                                                      /\ log[i].sequence = ev.sequence}
Numbers(ev) == {log[i].sequence : i \in {j \in DOMAIN log : log[j].stream = ev.stream}} \ {0}

Duplicate(ev) == SameId(ev) # {}

(* The number is taken by another event: the first with it in the log decides. *)
SequenceConflict(ev) ==
    /\ ~Duplicate(ev) /\ SameNumber(ev) # {}
    /\ log[Min(SameNumber(ev))].id # ev.id

Numbered(ev) ==
    ~Duplicate(ev) /\ ~SequenceConflict(ev) /\ ev.sequence > 0 /\ Numbers(ev) # {}

(* Faulty variant: off by one.                                                 *)
WideGap(ev) == Numbered(ev) /\ ev.sequence > Max(Numbers(ev)) + 2

Gap(ev) == Numbered(ev) /\ ev.sequence > Max(Numbers(ev)) + 1
OutOfOrder(ev) == Numbered(ev) /\ ev.sequence < Max(Numbers(ev))

(* The payload of a repeated event is compared with its first delivery, its    *)
(* number included.                                                           *)
SamePayload(ev) ==
    LET first == log[Min(SameId(ev))]
    IN first.type = ev.type /\ first.sequence = ev.sequence /\ first.evidence = ev.evidence

When(condition, issue) == IF condition THEN {issue} ELSE {}

IssuesOf(ev) ==
    When(Duplicate(ev) /\ SamePayload(ev), "duplicate-event")
    \cup When(SequenceConflict(ev) \/ (Duplicate(ev) /\ ~SamePayload(ev)), "event-conflict")
    \cup When(Gap(ev), "sequence-gap")
    \cup When(OutOfOrder(ev), "out-of-order-event")
    \cup When(~ev.matches, "unmatched-event")
    \cup When(ended \/ (exec \in TERMINAL_EXECUTION_STATUSES /\ ev.type \notin TerminalTypes),
              "late-event")

(* Faulty variant: an event counts as known by its number only.                *)
IgnoredByNumber(ev) == SameNumber(ev) # {} \/ ~ev.matches

(* Such a delivery is logged and changes nothing.                              *)
Ignored(ev) == Duplicate(ev) \/ SequenceConflict(ev) \/ ~ev.matches

-----------------------------------------------------------------------------
(* What an event changes.                                                    *)

(* setInputUnknown, with the issue that its callers add.                       *)
SetInputUnknown ==
    /\ input' = IF input \in TERMINAL_EXECUTION_STATUSES THEN input ELSE "unknown"
    /\ exec' = IF exec \in TERMINAL_EXECUTION_STATUSES \cup {"none"} THEN exec ELSE "unknown"

Becomes(status, inputStatus) == exec' = status /\ input' = inputStatus

Accept(ev) ==
    /\ exec = "none"
    /\ IF ev.evidence THEN Becomes("accepted", "native-accepted") ELSE SetInputUnknown

Unproven(ev) == ~ev.evidence /\ ev.type # "execution.unknown"
Proven(ev, types) == ev.evidence /\ ev.type \in types

(* Faulty variant: the last terminal event wins.                                *)
ApplyOverTerminal(ev) ==
    \/ ev.type = "execution.unknown" /\ Becomes("unknown", "unknown")
    \/ Unproven(ev) /\ SetInputUnknown
    \/ Proven(ev, {"execution.started"}) /\ Becomes("started", "started")
    \/ Proven(ev, TerminalTypes) /\ Becomes(Status(ev.type), Status(ev.type))

(* Faulty variant: only the Execution is saved.                                 *)
ApplyToExecution(ev) ==
    /\ exec \notin TERMINAL_EXECUTION_STATUSES
    /\ \/ ev.type = "execution.unknown" /\ Becomes("unknown", "unknown")
       \/ Unproven(ev) /\ SetInputUnknown
       \/ Proven(ev, {"execution.started"}) /\ Becomes("started", "started")
       \/ Proven(ev, TerminalTypes) /\ Becomes(Status(ev.type), input)

(* applyEvent, for an Execution that has not ended.                            *)
ApplyEvent(ev) ==
    /\ exec \notin TERMINAL_EXECUTION_STATUSES
    /\ \/ ev.type = "execution.unknown" /\ Becomes("unknown", "unknown")
       \/ Unproven(ev) /\ SetInputUnknown
       \/ Proven(ev, {"execution.started"}) /\ Becomes("started", "started")
       \/ Proven(ev, TerminalTypes) /\ Becomes(Status(ev.type), Status(ev.type))

(* The issues that the decision itself adds.                                   *)
IssuesOfEffect(ev) ==
    When(ev.type = "input.accepted" /\ exec # "none", "duplicate-event")
    \cup When(\/ exec = "none" /\ (ev.type # "input.accepted" \/ ~ev.evidence)
              \/ /\ exec \notin TERMINAL_EXECUTION_STATUSES \cup {"none"}
                 /\ ev.type # "input.accepted" /\ Unproven(ev), "unmatched-event")
    \cup When(/\ exec \in TERMINAL_EXECUTION_STATUSES /\ ev.type \in TerminalTypes
              /\ Status(ev.type) # exec, "contradictory-terminal")

Effect(ev) ==
    \/ ev.type = "input.accepted" /\ Accept(ev)
    \/ ev.type # "input.accepted" /\ exec = "none" /\ SetInputUnknown
    \/ ev.type # "input.accepted" /\ exec # "none" /\ ApplyEvent(ev)
    \/ /\ IF ev.type = "input.accepted" THEN exec # "none" ELSE exec \in TERMINAL_EXECUTION_STATUSES
       /\ UNCHANGED <<exec, input>>

(* processEventTransaction.                                                   *)
ProcessEvent(ev) ==
    /\ Len(log) < MaxDeliveries[source]
    /\ log' = Append(log, ev)
    /\ IF Ignored(ev)
       THEN issues' = issues \cup IssuesOf(ev) /\ UNCHANGED <<exec, input, applied>>
       ELSE /\ Effect(ev)
            /\ issues' = issues \cup IssuesOf(ev) \cup IssuesOfEffect(ev)
            /\ applied' = IF exec' # exec \/ input' # input
                          THEN Append(applied, Len(log) + 1) ELSE applied
    /\ UNCHANGED <<source, ended>>

(* The Task is given up while its events still come.                           *)
AbandonTask ==
    /\ ~ended /\ ended' = TRUE
    /\ UNCHANGED <<source, log, exec, input, issues, applied>>

Next == AbandonTask \/ \E ev \in Universe[source] : ProcessEvent(ev)

Spec == Init /\ [][Next]_vars

-----------------------------------------------------------------------------
(* Properties.                                                               *)

(* The types of the variables.                                                *)
IngestionTypeOK ==
    /\ source \in Engines /\ log \in Seq(Universe[source])
    /\ exec \in {"none", "accepted", "started", "unknown"} \cup TERMINAL_EXECUTION_STATUSES
    /\ input \in {"sent", "native-accepted", "started", "unknown"} \cup TERMINAL_EXECUTION_STATUSES
    /\ ended \in BOOLEAN
    /\ ToSet(applied) \subseteq DOMAIN log

(* An event has its effect once, and it is the effect of its first delivery    *)
(* ("first delivery is retained").                                            *)
EffectOfFirstDelivery ==
    \A i \in DOMAIN applied :
       \A j \in DOMAIN log : log[j].id = log[applied[i]].id => j >= applied[i]

(* Two events with one number of one stream never both have an effect.        *)
OneEffectPerNumber ==
    \A i, j \in DOMAIN applied :
       LET a == log[applied[i]]
           b == log[applied[j]]
       IN i # j => a.sequence = 0 \/ a.stream # b.stream \/ a.sequence # b.sequence

(* So that, of the events that are repeated or numbered alike, one has its     *)
(* effect, the one that was there first.                                      *)
OneEffectPerEvent == EffectOfFirstDelivery /\ OneEffectPerNumber

(* A claimed outcome rests on an event of this Execution with evidence of the  *)
(* Engine, after an acceptance with evidence.                                 *)
Vouched(type, before) ==
    \E i \in 1..before : log[i].type = type /\ log[i].evidence /\ log[i].matches

OutcomesAreVouched ==
    \A type \in TerminalTypes :
       Status(type) \in {exec, input} =>
          \E k \in DOMAIN log : /\ log[k].type = type /\ log[k].evidence /\ log[k].matches
                                /\ Vouched("input.accepted", k - 1)

(* The Input never claims more than its Execution.                            *)
InputFollows ==
    /\ input \in TERMINAL_EXECUTION_STATUSES \/ exec \in TERMINAL_EXECUTION_STATUSES => input = exec
    /\ input \in {"native-accepted", "started"} => exec # "none"

(* What Execution and Input are said to be is well formed, vouched for by the  *)
(* Engine, and the same of both.                                              *)
EffectsAreTrue == IngestionTypeOK /\ OutcomesAreVouched /\ InputFollows

(* An outcome stays, and one that contradicts it is reported and not silently  *)
(* preferred ("conflicting evidence was retained").                           *)
FirstOutcomeStays ==
    [][/\ exec \in TERMINAL_EXECUTION_STATUSES => exec' = exec /\ input' = input
       /\ Len(log') > Len(log) =>
            LET ev == log'[Len(log')] IN
            exec \in TERMINAL_EXECUTION_STATUSES /\ ~Ignored(ev) /\ ev.type \in TerminalTypes
               /\ Status(ev.type) # exec => "contradictory-terminal" \in issues']_vars

(* A number that is missing from a stream was noticed when it was passed over.  *)
(* It takes a stream that brings nothing twice: a repetition raises the latest *)
(* number and is not looked at, so that the gap before it goes unseen.        *)
Fresh(stream) ==
    \A j, k \in DOMAIN log : log[k].stream = stream /\ j < k => log[j].id # log[k].id

GapsAreReported ==
    issues \cap {"sequence-gap", "out-of-order-event", "event-conflict"} = {} =>
       \A i, j \in DOMAIN log : \A n \in (log[i].sequence + 1)..(log[j].sequence - 1) :
          log[i].stream = log[j].stream /\ 0 < log[i].sequence /\ Fresh(log[i].stream)
             => \E k \in DOMAIN log : log[k].stream = log[i].stream /\ log[k].sequence = n

(* The end of an Execution that the runtime was told once, after the           *)
(* acceptance and with evidence, it knows: no repetition, reordering or loss   *)
(* of the others makes it forget.  It takes an Engine whose events are its own *)
(* and whose identities and numbers are unique.                               *)
Unambiguous == {s \in Engines :
    /\ \A ev \in Universe[s] : ev.matches /\ ev.evidence
    /\ \A a, b \in Universe[s] : a.id = b.id => a.type = b.type
    /\ \A a, b \in Universe[s] : a.stream = b.stream /\ a # b => a.id # b.id /\ a.sequence # b.sequence}

ToldOutcomeIsKnown ==
    source \in Unambiguous => \A a, t \in DOMAIN log :
       /\ a < t /\ log[a].type = "input.accepted" /\ log[t].type \in TerminalTypes
       /\ \A j \in 1..(t - 1) : log[j].id # log[t].id
       => exec \in TERMINAL_EXECUTION_STATUSES

(* Whatever the stream loses or repeats, the outcome that was told is known    *)
(* and a number that is missing was reported.                                 *)
LossIsVisible == GapsAreReported /\ ToldOutcomeIsKnown
===============================================================================
