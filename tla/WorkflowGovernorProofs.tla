------------------------- MODULE WorkflowGovernorProofs -------------------------
(***************************************************************************)
(* Safety of WorkflowGovernor, for every set of requests and runs, every   *)
(* ceiling and every length of a streak.                                   *)
(*                                                                         *)
(* The counts are those of the sets they stand for because a request waits *)
(* in one place at most and never while it is admitted; the verdicts are   *)
(* apart because a request of the epoch was not in flight when the cap was *)
(* lowered; the runs take turns because the order has no run twice; and    *)
(* nobody that waits is forgotten because a drain leaves a waiter only for *)
(* a ticket or for a cooldown that no reset takes away; and the gate holds *)
(* what the provider asked for because the controller's cooldown is on for *)
(* all of that time, until the key is idle.                                *)
(***************************************************************************)
EXTENDS WorkflowGovernor, FiniteSetTheorems, SequenceTheorems, TLAPS

(* The queues and their order: each request in the queue of its run, once.    *)
LineOK ==
    /\ order \in Seq(Runs) /\ queues \in [Runs -> Seq(Requests)]
    /\ IsInjective(order) /\ ToSet(order) = {run \in Runs : queues[run] # <<>>}
    /\ \A run \in Runs : /\ IsInjective(queues[run])
                         /\ \A r \in ToSet(queues[run]) : RunOf[r] = run
    /\ IsFiniteSet(Waiting)

(* With nobody in flight, who waits has an alarm, which no reset has made void. *)
Woken ==
    ~draining /\ Waiting # {} /\ tickets = {} => alarm /\ cooldown # "none" /\ ~stale

(* What the provider asked for is what the controller's cooldown is on for,    *)
(* unless the key has been idle since; and idleness does not go unnoticed.     *)
WaitOK ==
    /\ {asked, idled} \subseteq BOOLEAN
    /\ asked /\ ~idled => cooldown = "running"
    /\ asked /\ Idle => idled

-----------------------------------------------------------------------------
(* Sequences without repetition.                                             *)

LEMMA AppendOf ==
    ASSUME NEW S, NEW s \in Seq(S), NEW e \in S
    PROVE  /\ Append(s, e) \in Seq(S) /\ Append(s, e) # <<>>
           /\ ToSet(Append(s, e)) = ToSet(s) \cup {e}
           /\ IsInjective(s) /\ e \notin ToSet(s) => IsInjective(Append(s, e))
<1>1. /\ Append(s, e) \in Seq(S) /\ Append(s, e) # <<>> /\ Len(s) \in Nat
      /\ DOMAIN s = 1..Len(s) /\ DOMAIN Append(s, e) = 1..(Len(s) + 1)
      /\ Append(s, e)[Len(s) + 1] = e
      /\ \A i \in 1..Len(s) : Append(s, e)[i] = s[i]
  OBVIOUS
<1>2. DOMAIN Append(s, e) = DOMAIN s \cup {Len(s) + 1}
  BY <1>1
<1>3. ToSet(Append(s, e)) = ToSet(s) \cup {e}
  BY <1>1, <1>2, Zenon DEF ToSet
<1>4. IsInjective(s) /\ e \notin ToSet(s) => IsInjective(Append(s, e))
  BY <1>1 DEF IsInjective, ToSet
<1>5. QED
  BY <1>1, <1>3, <1>4

(* The sequence without its element at i.                                       *)
LEMMA RemoveAtOf ==
    ASSUME NEW S, NEW s \in Seq(S), NEW n \in Nat, Len(s) = n, NEW i \in 1..n
    PROVE  /\ RemoveAt(s, i) \in Seq(S) /\ Len(RemoveAt(s, i)) = n - 1
           /\ \A j \in 1..(n - 1) : RemoveAt(s, i)[j] = IF j < i THEN s[j] ELSE s[j + 1]
<1> DEFINE a == SubSeq(s, 1, i - 1)
           b == SubSeq(s, i + 1, n)
<1>1. \A j \in 1..n : s[j] \in S
  OBVIOUS
<1>2. a \in Seq(S) /\ Len(a) = i - 1 /\ \A j \in 1..(i - 1) : a[j] = s[j]
  <2>1. /\ a \in Seq(S) /\ Len(a) = IF 1 <= i - 1 THEN (i - 1) - 1 + 1 ELSE 0
        /\ \A j \in 1..((i - 1) - 1 + 1) : a[j] = s[1 + j - 1]
    BY <1>1, SubSeqProperties
  <2> HIDE DEF a
  <2>2. ASSUME NEW j \in 1..(i - 1) PROVE a[j] = s[j]
    <3>1. j \in 1..((i - 1) - 1 + 1) /\ 1 + j - 1 = j
      OBVIOUS
    <3>2. QED
      BY <2>1, <3>1
  <2>3. Len(a) = i - 1
    BY <2>1
  <2>4. QED
    BY <2>1, <2>2, <2>3
<1>3. b \in Seq(S) /\ Len(b) = n - i /\ \A j \in 1..(n - i) : b[j] = s[i + j]
  <2>1. /\ b \in Seq(S) /\ Len(b) = IF i + 1 <= n THEN n - (i + 1) + 1 ELSE 0
        /\ \A j \in 1..(n - (i + 1) + 1) : b[j] = s[i + 1 + j - 1]
    BY <1>1, SubSeqProperties
  <2> HIDE DEF b
  <2>2. ASSUME NEW j \in 1..(n - i) PROVE b[j] = s[i + j]
    <3>1. j \in 1..(n - (i + 1) + 1) /\ i + 1 + j - 1 = i + j
      OBVIOUS
    <3>2. QED
      BY <2>1, <3>1
  <2>3. Len(b) = n - i
    BY <2>1
  <2>4. QED
    BY <2>1, <2>2, <2>3
<1>4. RemoveAt(s, i) = a \o b
  BY DEF RemoveAt
<1> HIDE DEF a, b
<1>5. /\ a \o b \in Seq(S) /\ Len(a \o b) = Len(a) + Len(b)
      /\ \A j \in 1..(Len(a) + Len(b)) : (a \o b)[j] = IF j <= Len(a) THEN a[j] ELSE b[j - Len(a)]
  BY <1>2, <1>3, ConcatProperties
<1>6. Len(a) + Len(b) = n - 1
  BY <1>2, <1>3
<1> DEFINE w == a \o b
<1>7. w \in Seq(S) /\ Len(w) = n - 1
      /\ \A j \in 1..(n - 1) : w[j] = IF j <= Len(a) THEN a[j] ELSE b[j - Len(a)]
  BY <1>5, <1>6
<1> HIDE DEF w
<1>8. ASSUME NEW j \in 1..(n - 1) PROVE w[j] = IF j < i THEN s[j] ELSE s[j + 1]
  <2>1. CASE j < i
    BY <2>1, <1>2, <1>7
  <2>2. CASE ~(j < i)
    <3>1. j - Len(a) \in 1..(n - i) /\ i + (j - Len(a)) = j + 1 /\ ~(j <= Len(a))
      BY <2>2, <1>2
    <3>2. QED
      BY <2>2, <3>1, <1>3, <1>7
  <2>3. QED
    BY <2>1, <2>2
<1>9. RemoveAt(s, i) = w
  BY <1>4 DEF w
<1>10. QED
  BY <1>7, <1>8, <1>9

LEMMA WithoutOf ==
    ASSUME NEW S, NEW s \in Seq(S), IsInjective(s), NEW e \in ToSet(s)
    PROVE  /\ Without(s, e) \in Seq(S) /\ IsInjective(Without(s, e))
           /\ ToSet(Without(s, e)) = ToSet(s) \ {e}
<1> DEFINE at == CHOOSE i \in DOMAIN s : s[i] = e
           w == Without(s, e)
<1>1. at \in DOMAIN s /\ s[at] = e
  BY DEF ToSet
<1>2. w = RemoveAt(s, at)
  BY DEF Without
<1> HIDE DEF at, w
<1>3. Len(s) \in Nat /\ at \in 1..Len(s) /\ DOMAIN s = 1..Len(s)
  BY <1>1
<1>4. /\ w \in Seq(S) /\ Len(w) = Len(s) - 1 /\ DOMAIN w = 1..(Len(s) - 1)
      /\ \A j \in 1..(Len(s) - 1) : w[j] = IF j < at THEN s[j] ELSE s[j + 1]
  <2>1. /\ w \in Seq(S) /\ Len(w) = Len(s) - 1
        /\ \A j \in 1..(Len(s) - 1) : w[j] = IF j < at THEN s[j] ELSE s[j + 1]
    <3>1. /\ RemoveAt(s, at) \in Seq(S) /\ Len(RemoveAt(s, at)) = Len(s) - 1
          /\ \A j \in 1..(Len(s) - 1) :
                RemoveAt(s, at)[j] = IF j < at THEN s[j] ELSE s[j + 1]
      BY <1>3, RemoveAtOf, Zenon
    <3>2. QED
      BY <3>1, <1>2
  <2>2. DOMAIN w = 1..(Len(s) - 1)
    BY <2>1, <1>3
  <2>3. QED
    BY <2>1, <2>2
<1>5. IsInjective(w)
  BY <1>3, <1>4, SMTT(30) DEF IsInjective
<1>6. ASSUME NEW j \in DOMAIN w PROVE w[j] \in ToSet(s) \ {e}
  <2>1. CASE j < at
    BY <2>1, <1>1, <1>3, <1>4 DEF IsInjective, ToSet
  <2>2. CASE ~(j < at)
    BY <2>2, <1>1, <1>3, <1>4 DEF IsInjective, ToSet
  <2>3. QED
    BY <2>1, <2>2
<1>7. ASSUME NEW i \in DOMAIN s, s[i] # e PROVE \E j \in DOMAIN w : w[j] = s[i]
  <2>1. CASE i < at
    BY <2>1, <1>3, <1>4
  <2>2. CASE i > at
    <3>1. i - 1 \in DOMAIN w /\ w[i - 1] = s[i]
      BY <2>2, <1>3, <1>4
    <3>2. QED
      BY <3>1
  <2>3. QED
    BY <2>1, <2>2, <1>1, <1>3, <1>7
<1>8. ToSet(w) = ToSet(s) \ {e}
  <2>1. ASSUME NEW x \in ToSet(w) PROVE x \in ToSet(s) \ {e}
    <3>1. PICK j \in DOMAIN w : x = w[j]
      BY DEF ToSet
    <3>2. QED
      BY <3>1, <1>6
  <2>2. ASSUME NEW x \in ToSet(s) \ {e} PROVE x \in ToSet(w)
    <3>1. PICK i \in DOMAIN s : x = s[i]
      BY DEF ToSet
    <3>2. PICK j \in DOMAIN w : w[j] = s[i]
      BY <3>1, <1>7
    <3>3. QED
      BY <3>1, <3>2 DEF ToSet
  <2>3. QED
    BY <2>1, <2>2
<1>9. QED
  BY <1>4, <1>5, <1>8 DEF w

LEMMA Emptiness ==
    ASSUME NEW S, NEW s \in Seq(S)
    PROVE  /\ s = <<>> <=> ToSet(s) = {}
           /\ ToSet(s) \subseteq S
           /\ s # <<>> => Head(s) \in ToSet(s)
<1>1. s # <<>> => 1 \in DOMAIN s /\ Head(s) = s[1]
  OBVIOUS
<1>2. s = <<>> => ToSet(s) = {}
  BY DEF ToSet
<1>3. s # <<>> => s[1] \in ToSet(s)
  BY <1>1, Zenon DEF ToSet
<1>4. ToSet(s) \subseteq S
  BY DEF ToSet
<1>5. QED
  BY <1>1, <1>2, <1>3, <1>4

-----------------------------------------------------------------------------
(* The queues and their order.                                               *)

LEMMA WaitingOf ==
    ASSUME LineOK, NEW r
    PROVE  r \in Waiting <=> r \in Requests /\ RunOf[r] \in Runs /\ r \in ToSet(queues[RunOf[r]])
<1>1. ASSUME NEW run \in Runs, r \in ToSet(queues[run])
      PROVE  r \in Requests /\ RunOf[r] = run
  BY <1>1, Emptiness DEF LineOK
<1>2. QED
  BY <1>1 DEF Waiting

LEMMA EnqueueLine ==
    ASSUME LineOK, NEW r \in Requests, RunOf[r] \in Runs, r \notin Waiting, Enqueue(r)
    PROVE  LineOK' /\ Waiting' = Waiting \cup {r}
<1> DEFINE run == RunOf[r]
<1>1. run \in Runs /\ queues[run] \in Seq(Requests) /\ queues \in [Runs -> Seq(Requests)]
  BY DEF LineOK
<1>2. queues' = [queues EXCEPT ![run] = Append(queues[run], r)]
  BY DEF Enqueue
<1> HIDE DEF run
<1>3. /\ queues'[run] = Append(queues[run], r)
      /\ \A other \in Runs : other # run => queues'[other] = queues[other]
      /\ queues' \in [Runs -> Seq(Requests)]
  BY <1>1, <1>2
<1>4. r \notin ToSet(queues[run])
  BY <1>1 DEF Waiting
<1>5. /\ queues'[run] # <<>> /\ IsInjective(queues'[run])
      /\ ToSet(queues'[run]) = ToSet(queues[run]) \cup {r}
  <2>1. IsInjective(queues[run])
    BY <1>1 DEF LineOK
  <2>2. QED
    BY <2>1, <1>1, <1>3, <1>4, AppendOf
<1>6. Waiting' = Waiting \cup {r}
  <2>1. ASSUME NEW x \in Waiting' PROVE x \in Waiting \cup {r}
    BY <1>1, <1>3, <1>5 DEF Waiting
  <2>2. ASSUME NEW x \in Waiting PROVE x \in Waiting'
    BY <1>1, <1>3, <1>5 DEF Waiting
  <2>3. r \in Waiting'
    BY <1>1, <1>5 DEF Waiting
  <2>4. QED
    BY <2>1, <2>2, <2>3
<1>7. \A other \in Runs : /\ IsInjective(queues'[other])
                          /\ \A q \in ToSet(queues'[other]) : RunOf[q] = other
  BY <1>3, <1>5 DEF LineOK, run
<1>8. /\ order' \in Seq(Runs) /\ IsInjective(order')
      /\ ToSet(order') = ToSet(order) \cup {run}
  <2>1. CASE Contains(order, run)
    <3>1. run \in ToSet(order)
      BY <2>1 DEF Contains, ToSet, LineOK
    <3>2. QED
      BY <2>1, <3>1 DEF Enqueue, LineOK, run
  <2>2. CASE ~Contains(order, run)
    <3>1. run \notin ToSet(order)
      BY <2>2 DEF Contains, ToSet, LineOK
    <3>2. order' = Append(order, run)
      BY <2>2 DEF Enqueue, run
    <3>3. QED
      BY <3>1, <3>2, <1>1, AppendOf DEF LineOK
  <2>3. QED
    BY <2>1, <2>2
<1>9. ToSet(order') = {other \in Runs : queues'[other] # <<>>}
  BY <1>1, <1>3, <1>5, <1>8 DEF LineOK
<1>10. IsFiniteSet(Waiting')
  BY <1>6, FS_AddElement DEF LineOK
<1>11. QED
  BY <1>3, <1>6, <1>7, <1>8, <1>9, <1>10 DEF LineOK

LEMMA DequeueLine ==
    ASSUME LineOK, NEW r \in Waiting, Dequeue(r)
    PROVE  LineOK' /\ Waiting' = Waiting \ {r}
<1> DEFINE run == RunOf[r]
<1>1. run \in Runs /\ r \in ToSet(queues[run])
  BY WaitingOf
<1>2. queues' = [queues EXCEPT ![run] = Without(queues[run], r)]
  BY DEF Dequeue
<1>3. order' = IF queues'[run] = <<>> THEN Without(order, run) ELSE order
  BY DEF Dequeue
<1>4. \A other \in Runs : \A q \in ToSet(queues[other]) : RunOf[q] = other
  BY DEF LineOK
<1> HIDE DEF run
<1>5. queues[run] \in Seq(Requests) /\ queues \in [Runs -> Seq(Requests)] /\ IsInjective(queues[run])
  BY <1>1 DEF LineOK
<1>6. /\ Without(queues[run], r) \in Seq(Requests) /\ IsInjective(Without(queues[run], r))
      /\ ToSet(Without(queues[run], r)) = ToSet(queues[run]) \ {r}
  BY <1>1, <1>5, WithoutOf
<1>7. /\ queues'[run] = Without(queues[run], r)
      /\ \A other \in Runs : other # run => queues'[other] = queues[other]
      /\ queues' \in [Runs -> Seq(Requests)]
  BY <1>1, <1>2, <1>5, <1>6
<1>8. \A other \in Runs : other # run => r \notin ToSet(queues[other])
  BY <1>4 DEF run
<1>9. Waiting' = Waiting \ {r}
  BY <1>1, <1>6, <1>7, <1>8 DEF Waiting
<1>10. \A other \in Runs : /\ IsInjective(queues'[other])
                           /\ \A q \in ToSet(queues'[other]) : RunOf[q] = other
  BY <1>4, <1>6, <1>7 DEF LineOK
<1>11. queues[run] # <<>>
  BY <1>1, <1>5, Emptiness
<1>12. /\ order \in Seq(Runs) /\ IsInjective(order) /\ run \in ToSet(order)
       /\ ToSet(order) = {other \in Runs : queues[other] # <<>>}
  BY <1>1, <1>11 DEF LineOK
<1>13. /\ Without(order, run) \in Seq(Runs) /\ IsInjective(Without(order, run))
       /\ ToSet(Without(order, run)) = ToSet(order) \ {run}
  BY <1>12, WithoutOf
<1>14. /\ order' \in Seq(Runs) /\ IsInjective(order')
       /\ ToSet(order') = {other \in Runs : queues'[other] # <<>>}
  BY <1>3, <1>7, <1>12, <1>13
<1>15. IsFiniteSet(Waiting')
  BY <1>9, FS_RemoveElement DEF LineOK
<1>16. QED
  BY <1>7, <1>9, <1>10, <1>14, <1>15 DEF LineOK

-----------------------------------------------------------------------------
(* The controller.                                                           *)

CapOK ==
    /\ cap \in 1..Ceiling /\ lastGood \in 0..Ceiling /\ streak \in 0..Successes
    /\ cooldown \in {"none", "running", "over"}

LEMMA LoweredCap == ASSUME CapOK PROVE Lowered \in 1..Ceiling
<1>1. (cap * 3) \div 4 \in Nat /\ (cap * 3) \div 4 <= cap
  BY GovernorAssumption DEF CapOK
<1>2. QED
  BY <1>1, GovernorAssumption DEF CapOK, Lowered, Larger

LEMMA ObserveCap ==
    ASSUME CapOK, ProbesByOne, Observe
    PROVE  CapOK' /\ ProbesByOne' /\ cap <= cap'
BY GovernorAssumption DEF CapOK, ProbesByOne, Observe

(* The settlement of an attempt lowers the cap only for one of the epoch.      *)
LEMMA SettleCap ==
    ASSUME CapOK, ProbesByOne, judged \subseteq Requests, tickets \subseteq Requests,
           current \cap judged = {}, NEW r,
           Succeeded(r) \/ (\E retryAfter \in BOOLEAN : Throttled(r, retryAfter))
              \/ FailedTransient(r) \/ Ended(r)
    PROVE  /\ CapOK' /\ ProbesByOne' /\ judged' \subseteq Requests
           /\ current' \subseteq current \ {r} /\ current' \cap judged' = {}
           /\ cap' < cap => r \in current
<1>1. CASE Succeeded(r)
  <2>1. CASE r \notin current
    BY <1>1, <2>1 DEF Succeeded, CapOK, ProbesByOne
  <2>2. CASE r \in current /\ streak + 1 < Successes
    BY <1>1, <2>2, GovernorAssumption DEF Succeeded, CapOK, ProbesByOne
  <2>3. CASE r \in current /\ ~(streak + 1 < Successes)
    <3>1. Raise /\ cooldown' = cooldown /\ judged' = judged /\ current' = current \ {r}
      BY <1>1, <2>3 DEF Succeeded
    <3>2. lastGood' = cap
      BY <3>1 DEF Raise, Larger, CapOK, ProbesByOne
    <3>3. cap' \in {cap, cap + 1} /\ cap' \in 1..Ceiling /\ streak' \in 0..Successes
      BY <3>1, GovernorAssumption DEF Raise, CapOK
    <3>4. QED
      BY <2>3, <3>1, <3>2, <3>3, GovernorAssumption DEF CapOK, ProbesByOne
  <2>4. QED
    BY <2>1, <2>2, <2>3
<1>2. ASSUME NEW retryAfter \in BOOLEAN, Throttled(r, retryAfter)
      PROVE  /\ CapOK' /\ ProbesByOne' /\ judged' \subseteq Requests
             /\ current' \subseteq current \ {r} /\ current' \cap judged' = {}
             /\ cap' < cap => r \in current
  <2>1. streak' = 0 /\ cooldown' \in {"none", "running", "over"}
    BY <1>2 DEF Throttled, CapOK
  <2>2. CASE r \in current
    <3>1. Judge /\ current' = {} /\ judged' = tickets \ {r}
      BY <1>2, <2>2 DEF Throttled, IsJudged
    <3>2. CASE lastGood # 0 /\ cap > lastGood
      BY <2>1, <2>2, <3>1, <3>2, GovernorAssumption DEF Judge, CapOK, ProbesByOne
    <3>3. CASE ~(lastGood # 0 /\ cap > lastGood)
      BY <2>1, <2>2, <3>1, <3>3, LoweredCap, GovernorAssumption DEF Judge, CapOK, ProbesByOne
    <3>4. QED
      BY <3>2, <3>3
  <2>3. CASE r \notin current
    BY <1>2, <2>1, <2>3, GovernorAssumption DEF Throttled, IsJudged, CapOK, ProbesByOne
  <2>4. QED
    BY <2>2, <2>3
<1>3. CASE FailedTransient(r)
  BY <1>3, GovernorAssumption DEF FailedTransient, CapOK, ProbesByOne
<1>4. CASE Ended(r)
  BY <1>4 DEF Ended, CapOK, ProbesByOne
<1>5. QED
  BY <1>1, <1>2, <1>3, <1>4

-----------------------------------------------------------------------------
(* The tickets.                                                              *)

TicketsOK ==
    /\ tickets \subseteq Requests /\ current \subseteq tickets /\ judged \subseteq Requests
    /\ IsFiniteSet(tickets) /\ inFlight = Cardinality(tickets)
    /\ current \cap judged = {}

LEMMA CountTickets ==
    ASSUME TicketsOK
    PROVE  inFlight \in Nat /\ (inFlight = 0 <=> tickets = {})
BY FS_CardinalityType, FS_EmptySet DEF TicketsOK

LEMMA GrantTickets ==
    ASSUME TicketsOK, NEW r \in Requests, r \notin tickets, Grant(r)
    PROVE  TicketsOK' /\ tickets' = tickets \cup {r} /\ inFlight' = inFlight + 1
<1>1. /\ IsFiniteSet(tickets \cup {r}) /\ Cardinality(tickets \cup {r}) = Cardinality(tickets) + 1
  BY FS_AddElement DEF TicketsOK
<1>2. QED
  BY <1>1 DEF TicketsOK, Grant

LEMMA SettleTickets ==
    ASSUME TicketsOK, NEW r \in tickets, inFlight' = inFlight - Freed(r), tickets' = tickets \ {r},
           judged' \subseteq Requests, current' \subseteq current \ {r}, current' \cap judged' = {}
    PROVE  TicketsOK'
<1>1. /\ IsFiniteSet(tickets \ {r}) /\ Cardinality(tickets \ {r}) = Cardinality(tickets) - 1
  BY FS_RemoveElement DEF TicketsOK
<1>2. QED
  BY <1>1 DEF TicketsOK, Freed

(* The inductive invariant by its parts.                                      *)
RestOK ==
    /\ waiters \in Nat /\ {stale, alarm, draining} \subseteq BOOLEAN
    /\ lastGranted \in Runs \cup {Observer, NoRun}
    /\ observed \in 0..MaxObserved /\ throttles \in 0..MaxThrottles
    /\ ~draining => waiters = WaiterCount
    /\ Waiting \cap tickets = {}

GovernorIInv == CapOK /\ ProbesByOne /\ TicketsOK /\ LineOK /\ RestOK

LEMMA QueuesKept ==
    ASSUME UNCHANGED queueVars
    PROVE  Waiting' = Waiting /\ WaiterCount' = WaiterCount /\ (LineOK => LineOK')
BY DEF queueVars, Waiting, WaiterCount, LineOK

LEMMA WaitersCounted ==
    ASSUME LineOK
    PROVE  WaiterCount \in Nat /\ \A r \in Waiting : Cardinality(Waiting \ {r}) = WaiterCount - 1
BY FS_CardinalityType, FS_RemoveElement DEF LineOK, WaiterCount

-----------------------------------------------------------------------------
(* The steps.                                                                *)

LEMMA InitGovernor == Init => GovernorIInv
<1> SUFFICES ASSUME Init PROVE GovernorIInv
  OBVIOUS
<1>1. CapOK /\ ProbesByOne
  BY GovernorAssumption DEF Init, CapOK, ProbesByOne
<1>2. TicketsOK
  BY FS_EmptySet DEF Init, TicketsOK
<1>3. ToSet(<<>>) = {}
  BY DEF ToSet
<1>4. Waiting = {}
  BY <1>3 DEF Init, Waiting
<1>5. LineOK
  <2>1. order \in Seq(Runs) /\ queues \in [Runs -> Seq(Requests)]
    BY DEF Init
  <2>2. IsInjective(order) /\ \A run \in Runs : IsInjective(queues[run])
    BY DEF Init, IsInjective
  <2>3. ToSet(order) = {run \in Runs : queues[run] # <<>>}
    BY <1>3 DEF Init
  <2>4. \A run \in Runs : \A r \in ToSet(queues[run]) : RunOf[r] = run
    BY <1>3 DEF Init
  <2>5. QED
    BY <1>4, <2>1, <2>2, <2>3, <2>4, FS_EmptySet DEF LineOK
<1>6. RestOK
  <2>1. waiters = 0 /\ WaiterCount = 0
    BY <1>4, FS_EmptySet DEF Init, WaiterCount
  <2>2. {stale, alarm, draining} \subseteq BOOLEAN /\ observed = 0 /\ throttles = 0
        /\ lastGranted = NoRun
    BY DEF Init
  <2>3. QED
    BY <1>4, <2>1, <2>2, GovernorAssumption DEF RestOK
<1>7. QED
  BY <1>1, <1>2, <1>5, <1>6 DEF GovernorIInv

LEMMA SettleStep ==
    ASSUME GovernorIInv, NEW r \in Requests, Settle(r)
    PROVE  GovernorIInv' /\ (cap' < cap => r \in current) /\ r \in tickets \ tickets'
<1>1. /\ r \in tickets /\ inFlight' = inFlight - Freed(r) /\ tickets' = tickets \ {r}
      /\ draining' = TRUE /\ UNCHANGED <<waiters, stale, queueVars, lastGranted, alarm, observed>>
  BY DEF Settle, SettleDrains
<1>2. Succeeded(r) \/ (\E retryAfter \in BOOLEAN : Throttled(r, retryAfter))
         \/ FailedTransient(r) \/ Ended(r)
  BY DEF Settle
<1>3. /\ CapOK' /\ ProbesByOne' /\ judged' \subseteq Requests
      /\ current' \subseteq current \ {r} /\ current' \cap judged' = {}
      /\ cap' < cap => r \in current
  BY <1>2, SettleCap DEF GovernorIInv, TicketsOK
<1>4. TicketsOK'
  BY <1>1, <1>3, SettleTickets DEF GovernorIInv
<1>5. throttles' \in 0..MaxThrottles
  <2>1. throttles' = throttles \/ (throttles < MaxThrottles /\ throttles' = throttles + 1)
    BY DEF Settle
  <2>2. QED
    BY <2>1, GovernorAssumption DEF GovernorIInv, RestOK
<1>6. LineOK' /\ Waiting' = Waiting
  BY <1>1, QueuesKept DEF GovernorIInv
<1>7. RestOK'
  BY <1>1, <1>5, <1>6 DEF GovernorIInv, RestOK
<1>8. QED
  BY <1>1, <1>3, <1>4, <1>6, <1>7 DEF GovernorIInv

LEMMA NewOf ==
    ASSUME NEW r \in Requests, IsNew(r)
    PROVE  ~draining /\ r \notin tickets /\ r \notin Waiting
BY DEF IsNew

LEMMA TryAdmitStep ==
    ASSUME GovernorIInv, NEW r \in Requests, TryAdmit(r)
    PROVE  GovernorIInv' /\ cap <= cap'
<1>1. ~draining /\ r \notin tickets /\ r \notin Waiting /\ Grant(r) /\ Observe
      /\ UNCHANGED <<waiters, queueVars, alarm, draining, observed, throttles>>
  BY NewOf DEF TryAdmit, boundVars
<1>2. CapOK' /\ ProbesByOne' /\ cap <= cap'
  BY <1>1, ObserveCap DEF GovernorIInv
<1>3. TicketsOK' /\ tickets' = tickets \cup {r}
  BY <1>1, GrantTickets DEF GovernorIInv
<1>4. LineOK' /\ Waiting' = Waiting /\ WaiterCount' = WaiterCount
  BY <1>1, QueuesKept DEF GovernorIInv
<1>5. stale' = FALSE /\ lastGranted' \in Runs \cup {Observer}
  BY <1>1, GovernorAssumption DEF Grant
<1>6. RestOK'
  BY <1>1, <1>3, <1>4, <1>5 DEF GovernorIInv, RestOK
<1>7. QED
  BY <1>2, <1>3, <1>4, <1>6 DEF GovernorIInv

LEMMA AcquireStep ==
    ASSUME GovernorIInv, NEW r \in Requests, Acquire(r)
    PROVE  GovernorIInv' /\ cap <= cap'
<1>1. ~draining /\ r \notin tickets /\ r \notin Waiting /\ Grant(r) /\ Observe
      /\ observed < MaxObserved /\ observed' = observed + 1
      /\ UNCHANGED <<waiters, queueVars, alarm, draining, throttles>>
  BY NewOf DEF Acquire
<1>2. CapOK' /\ ProbesByOne' /\ cap <= cap'
  BY <1>1, ObserveCap DEF GovernorIInv
<1>3. TicketsOK' /\ tickets' = tickets \cup {r}
  BY <1>1, GrantTickets DEF GovernorIInv
<1>4. LineOK' /\ Waiting' = Waiting /\ WaiterCount' = WaiterCount
  BY <1>1, QueuesKept DEF GovernorIInv
<1>5. stale' = FALSE /\ lastGranted' \in Runs \cup {Observer}
  BY <1>1, GovernorAssumption DEF Grant
<1>6. observed' \in 0..MaxObserved
  BY <1>1, GovernorAssumption DEF GovernorIInv, RestOK
<1>7. RestOK'
  BY <1>1, <1>3, <1>4, <1>5, <1>6 DEF GovernorIInv, RestOK
<1>8. QED
  BY <1>2, <1>3, <1>4, <1>7 DEF GovernorIInv

LEMMA AdmitStep ==
    ASSUME GovernorIInv, NEW r \in Requests, Admit(r)
    PROVE  GovernorIInv' /\ cap <= cap' /\ tickets' = tickets
<1>1. ~draining /\ r \notin tickets /\ r \notin Waiting /\ Enqueue(r) /\ Observe /\ draining' = TRUE
      /\ RunOf[r] \in Runs
      /\ UNCHANGED <<inFlight, waiters, stale, tickets, current, lastGranted, alarm, observed,
                     throttles, judged>>
  BY NewOf, GovernorAssumption DEF Admit, boundVars
<1>2. CapOK' /\ ProbesByOne' /\ cap <= cap'
  BY <1>1, ObserveCap DEF GovernorIInv
<1>3. LineOK' /\ Waiting' = Waiting \cup {r}
  BY <1>1, EnqueueLine DEF GovernorIInv
<1>4. TicketsOK'
  BY <1>1 DEF GovernorIInv, TicketsOK
<1>5. RestOK'
  BY <1>1, <1>3 DEF GovernorIInv, RestOK
<1>6. QED
  BY <1>1, <1>2, <1>3, <1>4, <1>5 DEF GovernorIInv

LEMMA AbortStep ==
    ASSUME GovernorIInv, NEW r \in Requests, Abort(r)
    PROVE  GovernorIInv' /\ cap <= cap' /\ tickets' = tickets /\ Waiting' = Waiting \ {r}
<1>1. ~draining /\ r \in Waiting /\ Dequeue(r) /\ Observe /\ waiters' = WaiterCount - 1
      /\ alarm' \in BOOLEAN
      /\ UNCHANGED <<inFlight, stale, tickets, current, lastGranted, draining, observed, throttles,
                     judged>>
  BY DEF Abort, boundVars, ArmCooldownWake
<1>2. CapOK' /\ ProbesByOne' /\ cap <= cap'
  BY <1>1, ObserveCap DEF GovernorIInv
<1>3. LineOK' /\ Waiting' = Waiting \ {r}
  BY <1>1, DequeueLine DEF GovernorIInv
<1>4. TicketsOK'
  BY <1>1 DEF GovernorIInv, TicketsOK
<1>5. waiters' = WaiterCount'
  BY <1>1, <1>3, WaitersCounted DEF GovernorIInv, WaiterCount
<1>6. WaiterCount' \in Nat
  BY <1>3, FS_CardinalityType DEF WaiterCount, LineOK
<1>7. RestOK'
  BY <1>1, <1>3, <1>5, <1>6 DEF GovernorIInv, RestOK
<1>8. QED
  BY <1>1, <1>2, <1>3, <1>4, <1>7 DEF GovernorIInv

(* Whom a drain grants: the first that waits of the next run.                  *)
LEMMA NextWaiter ==
    ASSUME LineOK, Waiting # {}, NEW r, r = Head(queues[NextRunWithWaiters])
    PROVE  /\ r \in Waiting /\ r \in Requests /\ RunOf[r] = NextRunWithWaiters
           /\ RunOf[r] \in Runs
           /\ RunOf[r] = lastGranted => \A w \in Waiting : RunOf[w] = lastGranted
<1>1. order \in Seq(Runs) /\ IsInjective(order)
      /\ ToSet(order) = {run \in Runs : queues[run] # <<>>}
  BY DEF LineOK
<1> DEFINE n == Len(order)
           last == IF Contains(order, lastGranted)
                   THEN CHOOSE i \in DOMAIN order : order[i] = lastGranted ELSE 0
<1>2. ASSUME NEW w \in Waiting PROVE RunOf[w] \in ToSet(order)
  <2>1. RunOf[w] \in Runs /\ w \in ToSet(queues[RunOf[w]]) /\ queues[RunOf[w]] \in Seq(Requests)
    BY WaitingOf DEF LineOK
  <2>2. queues[RunOf[w]] # <<>>
    BY <2>1, Emptiness
  <2>3. QED
    BY <2>1, <2>2, <1>1
<1>3. n \in Nat \ {0} /\ DOMAIN order = 1..n
  <2>1. order # <<>>
    BY <1>1, <1>2, Emptiness
  <2>2. QED
    BY <2>1, <1>1
<1>4. last \in 0..n /\ (last # 0 => order[last] = lastGranted)
      /\ (last = 0 => lastGranted \notin ToSet(order))
  <2>1. CASE Contains(order, lastGranted)
    BY <2>1, <1>1, <1>3 DEF Contains
  <2>2. CASE ~Contains(order, lastGranted)
    BY <2>2, <1>1, <1>3 DEF Contains, ToSet
  <2>3. QED
    BY <2>1, <2>2
<1>5. NextRunWithWaiters = order[(last % n) + 1]
  BY DEF NextRunWithWaiters
<1> HIDE DEF last, n
<1>6. (last % n) + 1 = IF last = n THEN 1 ELSE last + 1
  BY <1>3, <1>4
<1> DEFINE next == IF last = n THEN 1 ELSE last + 1
<1>7. next \in 1..n /\ NextRunWithWaiters = order[next]
  BY <1>3, <1>4, <1>5, <1>6
<1>8. order[next] \in ToSet(order) /\ order[next] \in Runs
  BY <1>1, <1>3, <1>7 DEF ToSet
<1>9. r \in ToSet(queues[order[next]]) /\ queues[order[next]] \in Seq(Requests)
  <2>1. queues[order[next]] # <<>> /\ queues[order[next]] \in Seq(Requests)
    BY <1>1, <1>8 DEF LineOK
  <2>2. QED
    BY <2>1, <1>7, Emptiness
<1>10. r \in Requests /\ RunOf[r] = order[next] /\ r \in Waiting
  BY <1>8, <1>9, Emptiness, SMTT(30) DEF LineOK, Waiting
<1>11. ASSUME RunOf[r] = lastGranted, NEW w \in Waiting PROVE RunOf[w] = lastGranted
  <2>1. order[next] = lastGranted /\ lastGranted \in ToSet(order)
    BY <1>8, <1>10, <1>11
  <2>2. last # 0 /\ order[last] = order[next] /\ last \in 1..n
    BY <2>1, <1>4
  <2>3. last = next
    BY <2>2, <1>1, <1>3, <1>7 DEF IsInjective
  <2>4. n = 1
    BY <2>3, <1>3, <1>4
  <2>5. \A run \in ToSet(order) : run = order[1]
    BY <2>4, <1>3 DEF ToSet
  <2>6. QED
    BY <2>1, <2>5, <1>2
<1>12. QED
  BY <1>7, <1>8, <1>10, <1>11

LEMMA DrainGrantsStep ==
    ASSUME GovernorIInv, DrainGrants
    PROVE  /\ GovernorIInv' /\ cap' = cap
           /\ \E r \in Requests :
                 /\ r \in Waiting /\ tickets' = tickets \cup {r} /\ lastGranted' = RunOf[r]
                 /\ RunOf[r] = lastGranted => \A w \in Waiting : RunOf[w] = lastGranted
<1> DEFINE r == Head(queues[NextRunWithWaiters])
<1>1. /\ r \in Waiting /\ r \in Requests /\ RunOf[r] \in Runs
      /\ RunOf[r] = lastGranted => \A w \in Waiting : RunOf[w] = lastGranted
  BY NextWaiter DEF DrainGrants, GovernorIInv
<1>2. /\ draining /\ Dequeue(r) /\ Grant(r) /\ waiters' = WaiterCount
      /\ UNCHANGED <<cap, streak, lastGood, cooldown, alarm, draining, observed, throttles>>
  BY DEF DrainGrants, boundVars
<1> HIDE DEF r
<1>3. r \notin tickets
  BY <1>1 DEF GovernorIInv, RestOK
<1>4. TicketsOK' /\ tickets' = tickets \cup {r}
  BY <1>1, <1>2, <1>3, GrantTickets DEF GovernorIInv
<1>5. LineOK' /\ Waiting' = Waiting \ {r}
  BY <1>1, <1>2, DequeueLine DEF GovernorIInv
<1>6. CapOK' /\ ProbesByOne'
  BY <1>2 DEF GovernorIInv, CapOK, ProbesByOne
<1>7. stale' = FALSE /\ lastGranted' = RunOf[r] /\ WaiterCount \in Nat
  BY <1>2, WaitersCounted DEF Grant, GovernorIInv
<1>8. RestOK'
  BY <1>1, <1>2, <1>4, <1>5, <1>7 DEF GovernorIInv, RestOK
<1>9. QED
  BY <1>1, <1>2, <1>4, <1>5, <1>6, <1>7, <1>8 DEF GovernorIInv

LEMMA DrainObservesStep ==
    ASSUME GovernorIInv, DrainObserves \/ \E r \in Requests : TryAdmitMisses(r)
    PROVE  GovernorIInv' /\ cap <= cap' /\ tickets' = tickets /\ Waiting' = Waiting
<1>1. /\ Observe
      /\ UNCHANGED <<inFlight, waiters, stale, tickets, current, queueVars, lastGranted, alarm,
                     draining, boundVars, judged>>
  BY DEF DrainObserves, TryAdmitMisses
<1>2. CapOK' /\ ProbesByOne' /\ cap <= cap'
  BY <1>1, ObserveCap DEF GovernorIInv
<1>3. LineOK' /\ Waiting' = Waiting /\ WaiterCount' = WaiterCount
  BY <1>1, QueuesKept DEF GovernorIInv
<1>4. TicketsOK'
  BY <1>1 DEF GovernorIInv, TicketsOK
<1>5. RestOK'
  BY <1>1, <1>3 DEF GovernorIInv, RestOK, boundVars
<1>6. QED
  BY <1>1, <1>2, <1>3, <1>4, <1>5 DEF GovernorIInv

LEMMA DrainEndsStep ==
    ASSUME GovernorIInv, DrainEnds
    PROVE  GovernorIInv' /\ cap' = cap /\ tickets' = tickets /\ Waiting' = Waiting
<1>1. /\ waiters' = WaiterCount /\ draining' = FALSE /\ alarm' \in BOOLEAN
      /\ UNCHANGED <<cap, inFlight, streak, lastGood, cooldown, stale, tickets, current, queueVars,
                     lastGranted, observed, throttles, judged>>
  BY DEF DrainEnds, ArmCooldownWake, boundVars
<1>2. LineOK' /\ Waiting' = Waiting /\ WaiterCount' = WaiterCount /\ WaiterCount \in Nat
  BY <1>1, QueuesKept, WaitersCounted DEF GovernorIInv
<1>3. CapOK' /\ ProbesByOne' /\ TicketsOK'
  BY <1>1 DEF GovernorIInv, CapOK, ProbesByOne, TicketsOK
<1>4. RestOK'
  BY <1>1, <1>2 DEF GovernorIInv, RestOK
<1>5. QED
  BY <1>1, <1>2, <1>3, <1>4 DEF GovernorIInv

LEMMA ClockStep ==
    ASSUME GovernorIInv, CooldownWake \/ CooldownEnds \/ GrowsStale \/ UNCHANGED vars
    PROVE  GovernorIInv' /\ cap' = cap /\ tickets' = tickets /\ Waiting' = Waiting
<1>1. /\ cooldown' \in {"none", "running", "over"} /\ {stale', alarm', draining'} \subseteq BOOLEAN
      /\ draining => draining'
      /\ UNCHANGED <<cap, inFlight, waiters, streak, lastGood, tickets, current, queueVars,
                     lastGranted, observed, throttles, judged>>
  <2>1. cooldown \in {"none", "running", "over"} /\ {stale, alarm, draining} \subseteq BOOLEAN
    BY DEF GovernorIInv, CapOK, RestOK
  <2>2. CASE CooldownWake
    BY <2>1, <2>2 DEF CooldownWake, controllerVars, boundVars
  <2>3. CASE CooldownEnds
    BY <2>1, <2>3 DEF CooldownEnds, boundVars
  <2>4. CASE GrowsStale
    BY <2>1, <2>4 DEF GrowsStale, boundVars
  <2>5. CASE UNCHANGED vars
    BY <2>1, <2>5 DEF vars, controllerVars, boundVars
  <2>6. QED
    BY <2>2, <2>3, <2>4, <2>5
<1>2. LineOK' /\ Waiting' = Waiting /\ WaiterCount' = WaiterCount
  BY <1>1, QueuesKept DEF GovernorIInv
<1>3. CapOK' /\ ProbesByOne' /\ TicketsOK'
  BY <1>1 DEF GovernorIInv, CapOK, ProbesByOne, TicketsOK
<1>4. RestOK'
  BY <1>1, <1>2 DEF GovernorIInv, RestOK
<1>5. QED
  BY <1>1, <1>2, <1>3, <1>4 DEF GovernorIInv

-----------------------------------------------------------------------------
(* Whoever waits has a way on.                                               *)

(* What a drain leaves waiting is waiting for a ticket or for the cooldown.    *)
LEMMA DrainEndsWoken ==
    ASSUME GovernorIInv, DrainEnds
    PROVE  Woken'
<1> SUFFICES ASSUME Waiting' # {}, tickets' = {}
             PROVE  alarm' /\ cooldown' # "none" /\ ~stale'
  BY DEF Woken
<1>1. Waiting' = Waiting /\ tickets' = tickets /\ cooldown' = cooldown /\ stale' = stale
  BY DrainEndsStep DEF DrainEnds
<1>2. inFlight = 0 /\ cap \in Nat \ {0} /\ stale \in BOOLEAN /\ cap \in 1..Ceiling
  BY <1>1, CountTickets, GovernorAssumption DEF GovernorIInv, CapOK, RestOK
<1>3. cooldown = "running"
  BY <1>1, <1>2 DEF DrainEnds, CanAdmit, Gate
<1>4. ~stale
  BY <1>2, <1>3 DEF DrainEnds, Reset, IdleReset
<1>5. alarm'
  BY <1>1, <1>3 DEF DrainEnds, ArmCooldownWake
<1>6. QED
  BY <1>1, <1>3, <1>4, <1>5

(* Outside a drain, the way on stays: the cooldown is not reset for a key that  *)
(* is not idle, and the key does not grow idle while the alarm is set.         *)
LEMMA StepWoken ==
    ASSUME GovernorIInv, Woken, Next, LongWaits = FALSE
    PROVE  Woken'
<1>1. ASSUME NEW r \in Requests, Settle(r) PROVE Woken'
  BY <1>1 DEF Settle, SettleDrains, Woken
<1>2. ASSUME NEW r \in Requests, TryAdmit(r) \/ Acquire(r) PROVE Woken'
  BY <1>2 DEF TryAdmit, Acquire, Grant, Woken
<1>3. ASSUME NEW r \in Requests, TryAdmitMisses(r) PROVE Woken'
  <2>1. /\ Observe /\ tickets' = tickets /\ stale' = stale /\ alarm' = alarm /\ draining' = draining
        /\ ~draining /\ Waiting' = Waiting
    BY <1>3, QueuesKept DEF TryAdmitMisses, IsNew
  <2>2. QED
    BY <2>1 DEF Woken, Observe, IdleReset
<1>4. ASSUME NEW r \in Requests, Admit(r) PROVE Woken'
  BY <1>4 DEF Admit, Woken
<1>5. ASSUME NEW r \in Requests, Abort(r) PROVE Woken'
  <2>1. /\ Observe /\ tickets' = tickets /\ stale' = stale /\ ~draining
        /\ Waiting' = Waiting \ {r} /\ ArmCooldownWake
    BY <1>5, AbortStep DEF Abort
  <2>2. QED
    BY <2>1 DEF Woken, Observe, IdleReset, ArmCooldownWake
<1>6. CASE DrainGrants
  BY <1>6 DEF DrainGrants, Grant, Woken
<1>7. CASE DrainObserves
  BY <1>7 DEF DrainObserves, Woken
<1>8. CASE DrainEnds
  BY <1>8, DrainEndsWoken
<1>9. CASE CooldownWake
  BY <1>9 DEF CooldownWake, Woken
<1>10. CASE CooldownEnds
  <2>1. Waiting' = Waiting
    BY <1>10, ClockStep
  <2>2. QED
    BY <2>1, <1>10 DEF CooldownEnds, Woken
<1>11. CASE GrowsStale
  <2>1. Waiting' = Waiting
    BY <1>11, ClockStep
  <2>2. QED
    BY <2>1, <1>11 DEF GrowsStale, Woken
<1>12. QED
  BY <1>1, <1>2, <1>3, <1>4, <1>5, <1>6, <1>7, <1>8, <1>9, <1>10, <1>11 DEF Next, Drain

-----------------------------------------------------------------------------
(* The theorems.                                                             *)

LEMMA StepGovernor == GovernorIInv /\ [Next]_vars => GovernorIInv'
<1> SUFFICES ASSUME GovernorIInv, [Next]_vars PROVE GovernorIInv'
  OBVIOUS
<1>1. ASSUME NEW r \in Requests,
             Settle(r) \/ TryAdmit(r) \/ TryAdmitMisses(r) \/ Admit(r) \/ Acquire(r) \/ Abort(r)
      PROVE  GovernorIInv'
  <2>1. CASE Settle(r)
    BY <2>1, SettleStep
  <2>2. CASE TryAdmit(r)
    BY <2>2, TryAdmitStep
  <2>3. CASE TryAdmitMisses(r)
    BY <2>3, DrainObservesStep
  <2>4. CASE Admit(r)
    BY <2>4, AdmitStep
  <2>5. CASE Acquire(r)
    BY <2>5, AcquireStep
  <2>6. CASE Abort(r)
    BY <2>6, AbortStep
  <2>7. QED
    BY <1>1, <2>1, <2>2, <2>3, <2>4, <2>5, <2>6
<1>2. CASE Drain
  BY <1>2, DrainGrantsStep, DrainObservesStep, DrainEndsStep DEF Drain
<1>3. CASE CooldownWake \/ CooldownEnds \/ GrowsStale \/ UNCHANGED vars
  BY <1>3, ClockStep
<1>4. QED
  BY <1>1, <1>2, <1>3 DEF Next

(* A reset that takes the cooldown away is one of an idle key.                 *)
LEMMA ObserveWait ==
    ASSUME GovernorIInv, WaitOK, Observe, UNCHANGED waitVars
    PROVE  /\ {asked', idled'} \subseteq BOOLEAN
           /\ asked' /\ ~idled' => cooldown' = "running"
<1>1. IdleReset => Idle
  BY CountTickets DEF GovernorIInv, IdleReset, Idle
<1>2. QED
  BY <1>1 DEF WaitOK, Observe, waitVars

LEMMA StepWait == GovernorIInv /\ WaitOK /\ [Next]_vars => WaitOK'
<1> SUFFICES ASSUME GovernorIInv, WaitOK, [Next]_vars PROVE WaitOK'
  OBVIOUS
<1>1. ASSUME NEW r \in Requests, Settle(r) PROVE WaitOK'
  <2>1. cooldown' = "running" \/ (cooldown' = cooldown /\ throttles' = throttles)
    BY <1>1 DEF Settle, Succeeded, Throttled, FailedTransient, Ended
  <2>2. Note(throttles' # throttles)
    BY <1>1 DEF Settle
  <2>3. QED
    BY <2>1, <2>2 DEF Note, WaitOK
<1>2. ASSUME NEW r \in Requests, TryAdmit(r) \/ Acquire(r) PROVE WaitOK'
  <2>1. Observe /\ UNCHANGED waitVars /\ stale' = FALSE
    BY <1>2 DEF TryAdmit, Acquire, Grant
  <2>2. QED
    BY <2>1, ObserveWait DEF WaitOK, Idle
<1>3. ASSUME Observe, UNCHANGED waitVars, stale' = stale, tickets' = tickets PROVE WaitOK'
  BY <1>3, ObserveWait DEF WaitOK, Idle, waitVars
<1>4. ASSUME NEW r \in Requests, TryAdmitMisses(r) \/ Admit(r) \/ Abort(r) PROVE WaitOK'
  BY <1>3, <1>4 DEF TryAdmitMisses, Admit, Abort
<1>5. CASE DrainGrants
  <2>1. UNCHANGED <<cooldown, waitVars>> /\ stale' = FALSE
    BY <1>5 DEF DrainGrants, Grant
  <2>2. QED
    BY <2>1 DEF WaitOK, Idle, waitVars
<1>6. CASE DrainObserves
  BY <1>3, <1>6 DEF DrainObserves
<1>7. ASSUME UNCHANGED <<cooldown, waitVars, stale, tickets>> PROVE WaitOK'
  BY <1>7 DEF WaitOK, Idle, waitVars
<1>8. CASE DrainEnds \/ CooldownWake \/ UNCHANGED vars
  BY <1>7, <1>8 DEF DrainEnds, CooldownWake, vars, controllerVars
<1>9. CASE CooldownEnds
  BY <1>9 DEF CooldownEnds, WaitOK
<1>10. CASE GrowsStale
  <2>1. Note(FALSE) /\ cooldown' = cooldown
    BY <1>10 DEF GrowsStale
  <2>2. QED
    BY <2>1 DEF Note, WaitOK
<1>11. QED
  BY <1>1, <1>2, <1>4, <1>5, <1>6, <1>8, <1>9, <1>10 DEF Next, Drain

LEMMA WaitInvariant == Spec => []WaitOK
<1>1. Init => WaitOK
  BY DEF Init, WaitOK
<1>2. Init => GovernorIInv
  BY InitGovernor
<1>3. QED
  BY <1>1, <1>2, StepGovernor, StepWait, PTL DEF Spec

(* The counts, the queues, the cap and the verdicts of the governor.           *)
THEOREM GovernorInvariant == Spec => []GovernorIInv
BY InitGovernor, StepGovernor, PTL DEF Spec

(* However requests end, are retried, are aborted, wait and are granted, and    *)
(* however long they wait: the counts the controller decides by are those of   *)
(* the requests, and the cap stays within one step of what has been proved.   *)
THEOREM CountsTrue == Spec => [](GovernorTypeOK /\ CountsAreTrue /\ ProbesByOne)
<1>1. GovernorIInv /\ WaitOK => GovernorTypeOK /\ CountsAreTrue /\ ProbesByOne
  <2> SUFFICES ASSUME GovernorIInv, WaitOK PROVE GovernorTypeOK /\ CountsAreTrue /\ ProbesByOne
    OBVIOUS
  <2>1. inFlight \in Nat
    BY CountTickets DEF GovernorIInv
  <2>2. GovernorTypeOK
    BY <2>1 DEF GovernorIInv, GovernorTypeOK, CapOK, TicketsOK, LineOK, RestOK, WaitOK
  <2>3. CountsAreTrue
    BY DEF GovernorIInv, CountsAreTrue, TicketsOK, LineOK, RestOK
  <2>4. QED
    BY <2>2, <2>3 DEF GovernorIInv
<1>2. QED
  BY GovernorInvariant, WaitInvariant, <1>1, PTL

(* While no wait is as long as CONCURRENCY_IDLE_RESET_MS, nobody that waits is  *)
(* forgotten: a request in flight will end, or the alarm of the cooldown rings. *)
THEOREM NobodyIsForgotten == ASSUME LongWaits = FALSE PROVE Spec => []GovernorInv
<1>1. Init => Woken
  <2>1. ToSet(<<>>) = {}
    BY DEF ToSet
  <2>2. Init => Waiting = {}
    BY <2>1 DEF Init, Waiting
  <2>3. QED
    BY <2>2 DEF Woken
<1>2. GovernorIInv /\ Woken /\ [Next]_vars => Woken'
  <2>1. ASSUME UNCHANGED vars, Woken PROVE Woken'
    BY <2>1 DEF vars, controllerVars, queueVars, Woken, Waiting
  <2>2. QED
    BY <2>1, StepWoken
<1>3. Woken /\ GovernorTypeOK /\ CountsAreTrue /\ ProbesByOne => GovernorInv
  BY DEF Woken, GovernorInv, NobodyForgotten
<1>4. QED
  BY GovernorInvariant, CountsTrue, <1>1, <1>2, <1>3, PTL DEF Spec

(* A workflow request is sent within the cap, whatever the main agent sends    *)
(* beside it, and while the provider asks to wait only when the key has been   *)
(* idle since it asked (canAdmit, idleReset, drain).                          *)
THEOREM GateHeld == Spec => GateHolds
<1>1. GovernorIInv /\ WaitOK /\ WaitOK' /\ [Next]_vars =>
         [\A r \in tickets' \ tickets : RunOf[r] # Observer =>
            Cardinality(tickets') <= cap' /\ (asked => idled)]_vars
  <2> SUFFICES ASSUME GovernorIInv, WaitOK, WaitOK', Next,
                      NEW r \in tickets', r \notin tickets, RunOf[r] # Observer
               PROVE  Cardinality(tickets') <= cap' /\ (asked => idled)
    OBVIOUS
  <2>1. TicketsOK /\ inFlight \in Nat /\ cap \in Nat
    BY CountTickets DEF GovernorIInv, CapOK
  <2>2. ASSUME cooldown' # "running", UNCHANGED waitVars PROVE asked => idled
    BY <2>2 DEF WaitOK, waitVars
  <2>3. ASSUME NEW q \in Requests, TryAdmit(q)
        PROVE  Cardinality(tickets') <= cap' /\ (asked => idled)
    <3>1. q \notin tickets /\ Grant(q) /\ FastPath /\ UNCHANGED waitVars
      BY <2>3, NewOf DEF TryAdmit
    <3>2. Cardinality(tickets') = inFlight + 1
      BY <2>1, <3>1, GrantTickets DEF TicketsOK
    <3>3. inFlight < cap' /\ cooldown' # "running" /\ cap' \in Nat
      BY <2>3, <3>1, TryAdmitStep DEF FastPath, Gate, GovernorIInv, CapOK
    <3>4. QED
      BY <2>1, <2>2, <3>1, <3>2, <3>3
  <2>4. CASE DrainGrants
    <3>1. inFlight < cap /\ cooldown' # "running" /\ cap' = cap /\ UNCHANGED waitVars
      BY <2>4 DEF DrainGrants, CanAdmit, Gate
    <3>2. PICK q \in Requests : q \in Waiting /\ tickets' = tickets \cup {q}
      BY <2>4, DrainGrantsStep
    <3>3. q \notin tickets
      BY <3>2 DEF GovernorIInv, RestOK
    <3>4. Cardinality(tickets') = inFlight + 1
      BY <2>1, <3>2, <3>3, FS_AddElement DEF TicketsOK
    <3>5. QED
      BY <2>1, <2>2, <3>1, <3>4
  <2>5. ASSUME NEW q \in Requests, Acquire(q) PROVE FALSE
    BY <2>5 DEF Acquire, Grant
  <2>6. ASSUME NEW q \in Requests, Settle(q) PROVE FALSE
    BY <2>6 DEF Settle
  <2>7. QED
    BY <2>3, <2>4, <2>5, <2>6, AdmitStep, AbortStep, DrainObservesStep, DrainEndsStep, ClockStep
       DEF Next, Drain
<1>2. QED
  BY GovernorInvariant, WaitInvariant, <1>1, PTL DEF Spec, GateHolds

(* Requests that were in flight together lower the cap once.                   *)
THEOREM OneVerdict == Spec => OneVerdictPerBatch
<1>1. GovernorIInv /\ [Next]_vars => [cap' < cap => \E r \in tickets \ tickets' : r \notin judged]_vars
  <2> SUFFICES ASSUME GovernorIInv, Next, cap' < cap
               PROVE  \E r \in tickets \ tickets' : r \notin judged
    OBVIOUS
  <2>1. cap \in Int /\ ~(cap <= cap') /\ cap' # cap
    BY StepGovernor DEF GovernorIInv, CapOK
  <2>2. PICK r \in Requests : Settle(r)
    BY <2>1, TryAdmitStep, AcquireStep, AdmitStep, AbortStep, DrainGrantsStep, DrainObservesStep,
       DrainEndsStep, ClockStep DEF Next, Drain
  <2>3. r \in current /\ r \in tickets \ tickets'
    BY <2>2, SettleStep
  <2>4. QED
    BY <2>3 DEF GovernorIInv, TicketsOK
<1>2. QED
  BY GovernorInvariant, <1>1, PTL DEF Spec, OneVerdictPerBatch

(* A run is granted again only when no other run waits.                        *)
THEOREM Turns == Spec => RunsTakeTurns
<1>1. GovernorIInv /\ [Next]_vars =>
         [\A r \in tickets' \ tickets : RunOf[r] # Observer /\ RunOf[r] = lastGranted =>
            \A w \in Waiting : RunOf[w] = lastGranted]_vars
  <2> SUFFICES ASSUME GovernorIInv, Next, NEW r \in tickets', r \notin tickets,
                      RunOf[r] # Observer, RunOf[r] = lastGranted, NEW w \in Waiting
               PROVE  RunOf[w] = lastGranted
    OBVIOUS
  <2>1. ASSUME NEW q \in Requests, TryAdmit(q) PROVE FALSE
    BY <2>1 DEF TryAdmit, FastPath
  <2>2. CASE DrainGrants
    BY <2>2, DrainGrantsStep
  <2>3. ASSUME NEW q \in Requests, Acquire(q) PROVE FALSE
    BY <2>3 DEF Acquire, Grant
  <2>4. ASSUME NEW q \in Requests, Settle(q) PROVE FALSE
    BY <2>4 DEF Settle
  <2>5. QED
    BY <2>1, <2>2, <2>3, <2>4, AdmitStep, AbortStep, DrainObservesStep, DrainEndsStep, ClockStep
       DEF Next, Drain
<1>2. QED
  BY GovernorInvariant, <1>1, PTL DEF Spec, RunsTakeTurns
===============================================================================
