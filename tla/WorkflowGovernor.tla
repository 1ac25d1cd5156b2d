--------------------------- MODULE WorkflowGovernor ---------------------------
(***************************************************************************)
(* The process-wide governor of model requests for one provider key: the   *)
(* AIMD controller of a cap on the requests in flight, and the queues of   *)
(* the workflow runs in front of it.  The main agent's requests are        *)
(* observed: they count, but they never wait.  The code is synchronous, so *)
(* while a drain is on nothing else happens.                               *)
(***************************************************************************)
EXTENDS Naturals, FiniteSets, Sequences, SequencesExt

CONSTANTS
    Requests,      \* attempts of model requests; one that has ended may be tried again
    Runs,          \* workflow runs
    Observer,      \* the run identity of the main agent, OBSERVER_RUN_ID
    NoRun,         \* no run has been granted yet
    RunOf,         \* the run of each request
    Ceiling,       \* the initial and greatest cap
    Successes,     \* successes in a row that raise the cap
    MaxObserved,   \* requests of the main agent
    LongWaits,     \* TRUE when a wait for the provider may end more than
                   \* CONCURRENCY_IDLE_RESET_MS after the last admission
    MaxThrottles   \* times the provider refuses and names a time to wait

ASSUME GovernorAssumption ==
    /\ Observer \notin Runs /\ NoRun \notin Runs /\ NoRun # Observer
    /\ RunOf \in [Requests -> Runs \cup {Observer}]
    /\ Ceiling \in Nat \ {0} /\ Successes \in Nat \ {0}
    /\ LongWaits \in BOOLEAN /\ MaxObserved \in Nat /\ MaxThrottles \in Nat

VARIABLES
    cap, inFlight, waiters, streak,   \* ConcurrencyController
    lastGood,    \* the greatest cap that a streak has proved, 0 when there is none
    cooldown,    \* cooldownUntil: none, running (in the future) or over
    stale,       \* lastRequestAt is CONCURRENCY_IDLE_RESET_MS ago
    tickets,     \* the attempts that are admitted and not settled
    current,     \* those whose epoch is the controller's
    order,       \* the runs with waiters, in the order of the Map
    queues,      \* and the waiters of each
    lastGranted, \* lastGrantedRun
    alarm,       \* cancelCooldownWake is set
    draining,    \* inside drain
    observed, throttles,   \* what MaxObserved and MaxThrottles bound
    judged,      \* ghost: those still in flight of when the cap was last lowered
    asked,       \* ghost: the provider asks to wait
    idled        \* ghost: the key has been idle since it asked

controllerVars == <<cap, inFlight, waiters, streak, lastGood, cooldown, stale>>
queueVars == <<order, queues>>
boundVars == <<observed, throttles>>
waitVars == <<asked, idled>>
vars == <<controllerVars, tickets, current, queueVars, lastGranted, alarm, draining, boundVars, judged,
          waitVars>>

Init ==
    /\ cap = Ceiling /\ inFlight = 0 /\ waiters = 0 /\ streak = 0
    /\ lastGood = 0 /\ cooldown = "none" /\ stale = FALSE
    /\ tickets = {} /\ current = {}
    /\ order = <<>> /\ queues = [run \in Runs |-> <<>>]
    /\ lastGranted = NoRun /\ alarm = FALSE /\ draining = FALSE
    /\ observed = 0 /\ throttles = 0 /\ judged = {} /\ asked = FALSE /\ idled = FALSE

Waiting == UNION {ToSet(queues[run]) : run \in Runs}
WaiterCount == Cardinality(Waiting)

-----------------------------------------------------------------------------
(* The controller.                                                           *)

Gate(atCap, cooling) == inFlight < atCap /\ cooling # "running"

(* Faulty variant: the cooldown is forgotten.                                   *)
CanAdmitCooling == inFlight < cap

(* canAdmit *)
CanAdmit == Gate(cap, cooldown)

(* Every signal observes first: a key that has been idle starts from the       *)
(* ceiling again.  Nobody is in flight then, so the new epoch concerns no ticket. *)
IdleReset == stale /\ inFlight = 0
Reset == IdleReset /\ <<cap, streak, lastGood, cooldown>> # <<Ceiling, 0, 0, "none">>

Observe ==
    /\ cap' = IF IdleReset THEN Ceiling ELSE cap
    /\ streak' = IF IdleReset THEN 0 ELSE streak
    /\ lastGood' = IF IdleReset THEN 0 ELSE lastGood
    /\ cooldown' = IF IdleReset THEN "none" ELSE cooldown

Larger(m, n) == IF m > n THEN m ELSE n
Smaller(m, n) == IF m < n THEN m ELSE n

(* A streak proves the cap, and raises it if somebody waits.  A streak longer  *)
(* than Successes counts as Successes.                                       *)
Raise ==
    /\ lastGood' = Larger(cap, lastGood)
    /\ IF waiters > 0 /\ cap < Ceiling
       THEN cap' = cap + 1 /\ streak' = 0
       ELSE streak' = Successes /\ UNCHANGED cap

Succeeded(r) ==
    /\ IF r \notin current THEN UNCHANGED <<cap, streak, lastGood>>
       ELSE IF streak + 1 < Successes THEN streak' = streak + 1 /\ UNCHANGED <<cap, lastGood>>
       ELSE Raise
    /\ UNCHANGED cooldown
    /\ current' = current \ {r} /\ judged' = judged \ {r}

(* CONCURRENCY_DECREASE_FACTOR is 0.75 and CONCURRENCY_FLOOR is 1.             *)
Lowered == Larger(1, (cap * 3) \div 4)

(* A cap above the last good one falls back to it; otherwise the wall has moved. *)
(* Whoever is in flight has the epoch of before.                              *)
Judge ==
    /\ IF lastGood # 0 /\ cap > lastGood
       THEN cap' = lastGood /\ UNCHANGED lastGood
       ELSE cap' = Lowered /\ lastGood' = 0

(* Faulty variant: every refusal is a verdict on the cap.                      *)
AlwaysJudged(r) == TRUE

IsJudged(r) == r \in current

(* retryAfter: the provider names a time to wait, and the later end counts.    *)
Throttled(r, retryAfter) ==
    /\ streak' = 0
    /\ cooldown' = IF retryAfter THEN "running" ELSE cooldown
    /\ IF IsJudged(r)
       THEN Judge /\ current' = {} /\ judged' = tickets \ {r}
       ELSE current' = current \ {r} /\ judged' = judged \ {r} /\ UNCHANGED <<cap, lastGood>>

FailedTransient(r) ==
    /\ streak' = 0
    /\ current' = current \ {r} /\ judged' = judged \ {r}
    /\ UNCHANGED <<cap, lastGood, cooldown>>

Ended(r) ==
    /\ current' = current \ {r} /\ judged' = judged \ {r}
    /\ UNCHANGED <<cap, streak, lastGood, cooldown>>

-----------------------------------------------------------------------------
(* The governor.                                                             *)

(* Faulty variant: a request whose epoch has passed gives no place back.       *)
FreedUnlessLowered(r) == IF r \in current THEN 1 ELSE 0

(* Every settled request gives its place back.                                 *)
Freed(r) == 1

(* Faulty variant: only what changes the cap lets others in.                    *)
DrainsIfRaised == draining' = (cap' > cap)

(* settle ends with drain.                                                     *)
SettleDrains == draining' = TRUE

(* Nobody is in flight and the last admission is an idle period ago.           *)
Idle == stale /\ tickets = {}

(* What the provider asks for, whatever the controller remembers of it.        *)
Note(asks) ==
    /\ asked' = (asked \/ asks)
    /\ idled' = (asked' /\ (Idle' \/ (idled /\ ~asks)))

(* The attempt of a ticket ends, once.                                         *)
Settle(r) ==
    /\ ~draining /\ r \in tickets
    /\ \/ Succeeded(r) /\ UNCHANGED throttles
       \/ Throttled(r, FALSE) /\ UNCHANGED throttles
       \/ throttles < MaxThrottles /\ Throttled(r, TRUE) /\ throttles' = throttles + 1
       \/ FailedTransient(r) /\ UNCHANGED throttles
       \/ Ended(r) /\ UNCHANGED throttles
    /\ inFlight' = inFlight - Freed(r)
    /\ tickets' = tickets \ {r}
    /\ SettleDrains
    /\ UNCHANGED <<waiters, stale, queueVars, lastGranted, alarm, observed>>
    /\ Note(throttles' # throttles)

(* grant: the ticket has the epoch of its admission.                           *)
Grant(r) ==
    /\ inFlight' = inFlight + 1 /\ stale' = FALSE
    /\ tickets' = tickets \cup {r} /\ current' = current \cup {r}
    /\ judged' = judged \ {r}
    /\ lastGranted' = RunOf[r]

Enqueue(r) ==
    /\ queues' = [queues EXCEPT ![RunOf[r]] = Append(@, r)]
    /\ order' = IF Contains(order, RunOf[r]) THEN order ELSE Append(order, RunOf[r])

(* indexOf and splice; what is removed stands there once.                      *)
Without(s, e) == RemoveAt(s, CHOOSE i \in DOMAIN s : s[i] = e)

Dequeue(r) ==
    /\ queues' = [queues EXCEPT ![RunOf[r]] = Without(@, r)]
    /\ order' = IF queues'[RunOf[r]] = <<>> THEN Without(order, RunOf[r]) ELSE order

IsNew(r) == ~draining /\ r \notin tickets \cup Waiting

(* tryAdmit lets nobody past those who wait.                                   *)
FastPath == Gate(cap', cooldown') /\ Waiting = {}

TryAdmit(r) ==
    /\ IsNew(r) /\ RunOf[r] # Observer
    /\ Observe
    /\ FastPath
    /\ Grant(r)
    /\ UNCHANGED <<waiters, queueVars, alarm, draining, boundVars, waitVars>>

(* A miss of tryAcquire; the request is queued by its acquire, a little later.  *)
TryAdmitMisses(r) ==
    /\ IsNew(r) /\ RunOf[r] # Observer
    /\ Observe
    /\ ~FastPath
    /\ UNCHANGED <<inFlight, waiters, stale, tickets, current, queueVars, lastGranted, alarm,
                   draining, boundVars, judged, waitVars>>

Admit(r) ==
    /\ IsNew(r) /\ RunOf[r] # Observer
    /\ Observe
    /\ ~FastPath
    /\ Enqueue(r)
    /\ draining' = TRUE
    /\ UNCHANGED <<inFlight, waiters, stale, tickets, current, lastGranted, alarm, boundVars, judged,
                   waitVars>>

(* The observer's admission of the main agent.                                 *)
Acquire(r) ==
    /\ IsNew(r) /\ RunOf[r] = Observer
    /\ observed < MaxObserved /\ observed' = observed + 1
    /\ Observe
    /\ Grant(r)
    /\ UNCHANGED <<waiters, queueVars, alarm, draining, throttles, waitVars>>

(* armCooldownWake *)
ArmCooldownWake == alarm' = (Waiting' # {} /\ cooldown' # "none")

(* The signal of a waiter is aborted.                                          *)
Abort(r) ==
    /\ ~draining /\ r \in Waiting
    /\ Dequeue(r)
    /\ waiters' = WaiterCount - 1
    /\ Observe
    /\ ArmCooldownWake
    /\ UNCHANGED <<inFlight, stale, tickets, current, lastGranted, draining, boundVars, judged, waitVars>>

(* Faulty variant: always the first run of the Map.                            *)
FirstInMap == order[1]

(* The run after the one granted last, or the first when that one has no waiters. *)
NextRunWithWaiters ==
    LET last == IF Contains(order, lastGranted)
                THEN CHOOSE i \in DOMAIN order : order[i] = lastGranted ELSE 0
    IN  order[(last % Len(order)) + 1]

DrainGrants ==
    /\ draining /\ ~Reset /\ CanAdmit /\ Waiting # {}
    /\ LET r == Head(queues[NextRunWithWaiters]) IN
       /\ Dequeue(r)
       /\ Grant(r)
    /\ waiters' = WaiterCount
    /\ UNCHANGED <<cap, streak, lastGood, cooldown, alarm, draining, boundVars, waitVars>>

DrainObserves ==
    /\ draining /\ Reset
    /\ Observe
    /\ UNCHANGED <<inFlight, waiters, stale, tickets, current, queueVars, lastGranted, alarm,
                   draining, boundVars, judged, waitVars>>

DrainEnds ==
    /\ draining /\ ~Reset /\ ~(CanAdmit /\ Waiting # {})
    /\ draining' = FALSE
    /\ waiters' = WaiterCount
    /\ UNCHANGED <<cap, inFlight, streak, lastGood, cooldown, stale, tickets, current, queueVars,
                   lastGranted, boundVars, judged, waitVars>>
    /\ ArmCooldownWake

(* The timer runs out when the cooldown is over, or at once if it already is.  *)
CooldownWake ==
    /\ ~draining /\ alarm /\ cooldown # "running"
    /\ alarm' = FALSE /\ draining' = TRUE
    /\ UNCHANGED <<controllerVars, tickets, current, queueVars, lastGranted, boundVars, judged, waitVars>>

(* Time passes: what the provider asked for is over.                           *)
CooldownEnds ==
    /\ ~draining /\ asked
    /\ cooldown' = IF cooldown = "running" THEN "over" ELSE cooldown
    /\ asked' = FALSE /\ idled' = FALSE
    /\ UNCHANGED <<cap, inFlight, waiters, streak, lastGood, stale, tickets, current, queueVars,
                   lastGranted, alarm, draining, boundVars, judged>>

(* lastRequestAt becomes CONCURRENCY_IDLE_RESET_MS old, also while requests are *)
(* in flight.  A cooldown ends before, and its alarm is run, unless LongWaits. *)
GrowsStale ==
    /\ ~draining /\ lastGranted # NoRun /\ ~stale /\ stale' = TRUE
    /\ LongWaits \/ tickets # {} \/ (cooldown # "running" /\ ~alarm)
    /\ UNCHANGED <<cap, inFlight, waiters, streak, lastGood, cooldown, tickets, current, queueVars,
                   lastGranted, alarm, draining, boundVars, judged>>
    /\ Note(FALSE)

Drain == DrainGrants \/ DrainObserves \/ DrainEnds

Next ==
    \/ \E r \in Requests :
        Settle(r) \/ TryAdmit(r) \/ TryAdmitMisses(r) \/ Admit(r) \/ Acquire(r) \/ Abort(r)
    \/ Drain \/ CooldownWake \/ CooldownEnds \/ GrowsStale

Spec == Init /\ [][Next]_vars

(* A drain goes on, timers run out, and not all attempts go on for ever: the    *)
(* runner releases its ticket in any case.  Both pause while a drain is on,    *)
(* hence the strong fairness.                                                 *)
Fairness ==
    /\ WF_vars(Drain)
    /\ SF_vars(CooldownEnds \/ CooldownWake)
    /\ SF_vars(\E r \in Requests : Settle(r))

LiveSpec == Spec /\ Fairness

-----------------------------------------------------------------------------
(* Properties.                                                               *)

(* The types of the variables; the cap is between the floor and the ceiling.   *)
GovernorTypeOK ==
    /\ cap \in 1..Ceiling /\ lastGood \in 0..Ceiling /\ streak \in 0..Successes
    /\ inFlight \in Nat /\ waiters \in Nat
    /\ cooldown \in {"none", "running", "over"}
    /\ {stale, alarm, draining} \subseteq BOOLEAN
    /\ tickets \subseteq Requests /\ current \subseteq tickets /\ judged \subseteq Requests
    /\ order \in Seq(Runs) /\ queues \in [Runs -> Seq(Requests)]
    /\ lastGranted \in Runs \cup {Observer, NoRun}
    /\ observed \in 0..MaxObserved /\ throttles \in 0..MaxThrottles
    /\ {asked, idled} \subseteq BOOLEAN

(* The counts the controller decides by are those of the tickets and queues,   *)
(* however requests end, retry, are aborted or are granted: a place that is not *)
(* given back is lost for the process.                                        *)
CountsAreTrue ==
    /\ inFlight = Cardinality(tickets)
    /\ ~draining => waiters = WaiterCount
    /\ ToSet(order) = {run \in Runs : queues[run] # <<>>} /\ IsInjective(order)

(* A workflow request is sent only within the cap, the main agent's requests    *)
(* included in the count, and not while the provider asks to wait.  Only a key *)
(* that has been idle since it asked may forget the wait; the end of a request *)
(* that was admitted an idle period ago makes the key idle at once, also when *)
(* it is this end that asks to wait.                                          *)
GateHolds ==
    [][\A r \in tickets' \ tickets : RunOf[r] # Observer =>
         Cardinality(tickets') <= cap' /\ (asked => idled)]_vars

(* Requests that were sent together cause one verdict: the cap is not lowered   *)
(* again for one that was in flight when it was lowered.                      *)
OneVerdictPerBatch ==
    [][cap' < cap => \E r \in tickets \ tickets' : r \notin judged]_vars

(* The cap probes one step above what has been proved, never further.          *)
ProbesByOne == lastGood # 0 => cap \in {lastGood, lastGood + 1}

(* Whoever waits is waited for: some request in flight will end, or the alarm   *)
(* is set.                                                                    *)
NobodyForgotten == ~draining /\ Waiting # {} => tickets # {} \/ alarm

(* The governor counts right, probes carefully, and has a way on for all who   *)
(* wait.                                                                      *)
GovernorInv == GovernorTypeOK /\ CountsAreTrue /\ ProbesByOne /\ NobodyForgotten

(* No run is granted twice in a row while another one waits.                   *)
RunsTakeTurns ==
    [][\A r \in tickets' \ tickets : RunOf[r] # Observer /\ RunOf[r] = lastGranted =>
         \A w \in Waiting : RunOf[w] = lastGranted]_vars

(* A request that waits is granted or aborted, whatever the other runs ask for, *)
(* while the main agent sends but finitely many.  Each of its requests moves   *)
(* the cursor of the turns back to the first run, so endless ones may starve   *)
(* the others.                                                                *)
WaitersAreServed == \A r \in Requests : r \in Waiting ~> r \notin Waiting
===============================================================================
