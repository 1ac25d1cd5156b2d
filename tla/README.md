# AnyAgent: a verification project

AnyAgent is a control plane for coding agents. A *Host* (a desktop application)
creates *Tasks*, submits *Inputs* to them, and reads what came of them; a native
*Engine* behind an adapter does the work. Between the two stands the
`TaskRuntime` (`packages/anyagent-runtime`), which decides what may be sent to
the Engine, when, and what may be claimed about it afterwards. Its central
promise is honesty: it never sends a command twice, never claims an outcome the
Engine did not have, and never lets two turns of one Session overlap.

The TLA+ here models that runtime, and four parts around it that are hard for the same
reasons: the persistent connection and the RPC channels between a remote Host and its server, the lock
between processes, and the governor that admits the model requests of workflow runs. TLC
checks them on small instances; TLAPS proves the main safety theorems for every size.

## 1. The system

### Parts and how they interact

    Host / UI ── calls ──> TaskRuntime ── run, compactSession, interrupt ──> EngineAdapter ──> native Engine
                               │  <──────── event streams, receipts ─────────────┘
                               └── synchronous SQLite transactions ──> RuntimeStore

* The runtime is one JavaScript thread. Between two `await`s nothing else runs,
  and a store transaction is synchronous. Concurrency is the interleaving of
  suspended handlers: submissions, the queue drain, compactions, event streams.
* The store survives a restart of the Host. Handlers, the drain flag
  (`#queueDrainingSessions`) and open streams do not.
* The Engine answers with receipts (of `run`) and with events (accepted, started,
  terminal outcomes). A receipt can be lost; a stream can end or fail early, repeat events,
  leave some out or contradict itself.
* A remote Host reaches services through channels (`ChannelClient`, `ChannelServer`), whose
  messages a `PersistentProtocol` carries over sockets that come and go.
* Several processes share files on one machine, protected by `acquireFileLock`.
* Inside the native Engine, every model request of a workflow run passes one process-wide
  governor.

### Inventory

| Component | State | Operations | What is hard | What makes it correct |
|---|---|---|---|---|
| **Task Session and work queue** (`anyagent-runtime/src/index.ts`) | status of Task, Session, Inputs, Executions, compactions; queue positions; hold; drain flag | `submitInput`, `#drainQueuedInputs`, `#consumeRun`, `#applyEvent`, `compactSession`, `cancelQueuedInput`, `moveQueuedInput`, `sendQueuedInputNow`, `freezeTask`, `closeTask`, `restoreTaskSession`, `resumeQueuedInputs`, `reconcile*`, recovery | handlers suspended over changes of state; lost receipts; restart between send and record; lost wakeups | one open turn; each command sent at most once; outcomes are the Engine's; nothing is forgotten in the queue |
| **Stop requests** (same file) | `StopRequest` records: delivery and confirmation | `requestStop`, `#confirmStopRequests`, `#markStopRequestsUnconfirmed` | the stop races the natural end; evidence merges | delivery evidence is never weakened; confirmed only by a terminal event |
| **Event ingestion** (same file, `store.ts`) | native event keys, source sequences, timeline | `#processEventTransaction` | duplicates, gaps, reused identities, late events | an event is applied once; contradictions change no outcome |
| **Approvals and user input** (same file) | requests and their answers | `replyToApproval`, `replyToUserInput`, `#rejectPendingInteractions` | double answers, an answer as the Execution ends | one answer is delivered; the end of a turn closes its requests |
| **Attachments** (same file) | staged attachments and their expiry | stage, bind, expire | expiry between queueing and promotion | an Input never runs with a vanished attachment |
| **Creation, adoption, fork** (same file) | command locks, Tasks | `createTask`, `adoptSession`, `forkTask` | a native session created without a receipt | one Task per command; uncertain creation is never repeated |
| **Revision, file rewind, feedback** (same file) | one request in flight per Session | `requestRevision`, `rewindFiles`, … | exclusion with turns | never beside an open turn |
| **Capability probe, authorization** (`index.ts`, `hostAuthorizationControl.ts`) | grants with expiry, in-flight probe | probe, revoke, project | revoked while a handler waits | commands leave only under a current grant |
| **Store** (`store.ts`) | records, command ledger | `transaction`, `put` | atomicity | one step writes all or nothing |
| **Engine contract and fake engine** (`anyagent-engine`) | scripted runs | `run`, `events`, `interrupt` | environment | – |
| **ZCode adapter** (`services/src/anyagent/zcodeAdapter.ts`) | run streams, cursors | `run`, receipt recovery | reconnects | the event order of the contract |
| **Persistent protocol** (`rpc/src/persistent-protocol.ts`, `remote.ts`) | message and acknowledgement numbers, held messages, water marks, reconnections | `send`, `readMessages`, `replaceSocket`, timers | sockets replaced at different times by the two ends, two reconnections at once that finish in any order | no message lost or overtaken; what flow control, "connected" and "reconnecting" report is true; nobody waits in silence |
| **RPC channels** (`rpc/src/channelClient.ts`, `channelServer.ts`) | promises, emitters, collected and active requests | call, cancel, listen, dispose, register a channel | a server or channel that is not there yet; cancellations that overtake | executed at most once; given up is given up; every call settles |
| **File locks** (`shared/src/node/atomicFileLock.ts`) | a directory, an owner file | acquire, release, reclaim | no call of the file system covers two of them; processes exit in between | one holder; abandoned locks are reclaimed, held ones are not |
| **Workflow governor** (`zcode-cli/packages/bootstrap/src/app/workflow-concurrency-governor.ts`, `dynamic-workflow/src/engine/concurrency.ts`) | cap, requests in flight, queues of the runs, cooldown and its alarm | `tryAdmit`, `admit`, `acquire`, `settle`, abort | lost wakeups, refusals of one batch, traffic beside the queue | no request past the cap or into a wait, until the key is idle; one verdict per batch; whoever waits is served while the main agent sends finitely many |
| **Realtime bus, scheduler, supervisor** (inherited) | sequences, leases, processes | – | reconnects, leases | not modelled |
| **zcode-cli agent core, UI, web, providers, `formal-proof`** | – | – | – | outside: the Engine itself, presentation, and a scenario enumerator |

`PROJECT.json` lists the components with their sources and status, and the
hazards of the code with the line at which each bites.

## 2. Modules

| Module | What it models |
|---|---|
| `SessionQueue` | the state of one Session, the vocabularies of its statuses, the queries over its queue, and `#drainQueuedInputs` as the tail of the step that calls it |
| `TaskRuntime` (extends it) | every call, every continuation of a handler, the events of the Engine's streams, restart and recovery; the properties |
| `SerialSession` | the abstract promise: one line, one open turn, nothing comes back |
| `TaskRuntimeRefinement` (extends `TaskRuntime`) | the mapping under which `TaskRuntime` implements `SerialSession` |
| `MCTaskRuntime` (extends it) | instances for TLC |
| `StopRequests` | stop requests for one Execution, apart from the queue |
| `StopRequestsProofs` | their inductive invariant and the theorems on it |
| `EventIngestion`, `MCEventIngestion` | `#processEventTransaction` for one Execution; three Engines for TLC |
| `EventIngestionProofs` | its three invariants over the log, and the theorems on them |
| `Interactions`, `MCInteractions` | the approvals and questions of one Execution |
| `InteractionsProofs` | their invariant and the theorems on it |
| `ReliableLine` | the abstract promise of a persistent connection |
| `PersistentProtocol`, `MCPersistentProtocol` | the two ends of the protocol, the sockets, the reconnections of the client; implements `ReliableLine` |
| `PersistentProtocolProofs` | the invariant of the wires, and the refinement |
| `ChannelRpc`, `MCChannelRpc` | one `ChannelClient` and one `ChannelServer` |
| `ChannelRpcProofs` | the invariant of calls and subscriptions, and the theorems on it |
| `AtomicFileLock`, `MCAtomicFileLock` | `acquireFileLock`, call by call of the file system |
| `AtomicFileLockProofs` | its invariant and the theorems on it |
| `WorkflowGovernor`, `MCWorkflowGovernor` | the governor of one provider key with its AIMD controller |
| `WorkflowGovernorProofs` | its invariant, and the theorems on the gate, the turns and the waiters |
| `TaskRuntimeProofs` | the invariants of the runtime and of its queue, the theorems on states, steps and wakeups, and the proof that it implements the serial Session |

The components around `TaskRuntime` are modelled each by itself, for one Execution, one
connection, one lock or one provider key; the code relates them only through what the
modules take as free choices of their environment. `TaskRuntime` starts from events that
`EventIngestion` has let through, `ChannelRpc` from the ordered transport that
`ReliableLine` promises.

### State of the runtime

| Variable | Code |
|---|---|
| `task`, `session`, `paused` | `TaskData.status`, `SessionData.status`, `SessionData.queuePaused` |
| `grant` | the Host authorization is current (not revoked, not expired) |
| `status`, `position`, `exec` | records of Inputs, compactions and Executions: `status`, `queuePosition` |
| `pc` | the `await` at which a handler stands: `ask` (first probe of `compactSession`), `probe` and `probeBusy` (probe before dispatch), `run` (the Engine call), `settle` (the drain is about to see a failed dispatch) |
| `streams` | Inputs whose stream `#consumeRun` reads |
| `draining` | `#queueDrainingSessions`, with the Input the drain dispatches |
| `wakeup` | a microtask scheduled by the drain to run again |
| `urgent` | the call of `sendQueuedInputNow` that awaits something |
| `native`, `sends` | ghosts: what the Engine did with the command; how often it was dispatched |

An Input and a compaction live in one function `status` over `Work`, because they
share one queue.

### Steps

One action is the code between two awaits. The drain is never an action that
might or might not happen: it is the operator `Drain(st, po, k, hold)`, given the
status, position and `pc` functions its caller has reached, and it determines the
primed variables. So `EventTerminal` is the transaction that ends the turn *and*
the promotion of the next piece of work. Where the code starts a drain in a
microtask (after a failed dispatch), the microtask is the action `DrainAgain`,
enabled by `wakeup`.

The native side is an external process: a command that left is `running` or `lost`
(`Dispatch` chooses), a running command ends (`NativeFinish`), and the adapter shows
the faults of the constant `Faults`: a lost receipt, a failed capability check, an
expired attachment, an "unknown" event, an event without evidence, a stream that
ends early, a stream that throws.

### The abstract Session

`SerialSession` says what a Host may rely on without knowing about handlers, receipts,
positions or restarts. Work is new, `waiting`, `open` or `over`. Its actions are `Start`
(nobody waits), `Enter`, `End`, `Cancel` and `Move`; an action may be followed, in the same
step, by taking the front of the line (`Take`, only if nothing is open) or giving the line
up (`GiveUp`: all waiting turns, or everything). The line is a set and the relation
`ahead`, not a sequence, so that the proof needs no induction over sequences.

The mapping: `waiting` is `Queued(status)`; `ahead` compares positions; `open` is work that
was received or requested and whose end is not confirmed, an unknown result included;
`over` is work with a final status. What it rules out, beyond the invariants: overtaking
in the queue, promotion beside an unresolved compaction, a reordering that disturbs
others, work that is lost, revived, or given up by itself.

### Stop requests

`StopRequests` is about one accepted Execution and looks at what `TaskRuntime` leaves open:
the records of `requestStop`. The records are numbered 1, 2, ... in the order of insertion;
`status` and `delivery` are their two fields, and "none" is a record that is not there.

| Variable | Code |
|---|---|
| `exec` | the stored Execution; `accepted` and `started` are both "live" |
| `call`, `mine` | the one call the command lock admits: its capability check (`probe`), the adapter before (`adapter`, `refusing`) and after (`sent`) it sends; the record it made |
| `stream`, `notice` | whether `#consumeRun` reads events; the `execution.interruption-requested` events the stream still holds |
| `attached`, `permit` | `#liveSessions`; `#qualify` for the scope `execution.interrupt` |
| `native`, `reached` | ghosts: the real end of the Execution; the requests whose interrupt the Engine got |

Each event and each half of the call merges what it knows into the record it is about, as
the code does: a receipt into its own record (`Answer`), a notice into the *latest* one
(`EventInterruptionRequested`), an end into all unresolved ones (`ConfirmStopRequests`,
`MarkStopRequestsUnconfirmed`), and a restart into none. A refused call changes nothing and
has no action. Frozen and ended Tasks are not modelled: `requestStop` accepts both.
`Notices` says which notices the Engine emits: "requested" once it has the interrupt,
"unsupported" before its refusal is known, and "late", a refusal whose notice is read when
it already has the next request. The fake engine emits the first two; the ZCode adapter
emits none.

### Event ingestion

`EventIngestion` takes deliveries one by one. An event is a record: its native identity,
its stream and number (0 is null), what it says, whether it names this Execution and whether
the Engine vouches for it. The log is the event records of the store, which are written
whatever is decided.

| Definition | Code (`#processEventTransaction`) |
|---|---|
| `Duplicate`, `SamePayload` | the first record with the native event key, and the comparison with it |
| `SequenceConflict`, `Gap`, `OutOfOrder` | the lookups by source sequence and of the latest number |
| `IssuesOf`, `IssuesOfEffect` | the integrity issues it records, before and while it applies |
| `Accept`, `ApplyEvent`, `SetInputUnknown` | what it does to Execution and Input |
| `ProcessEvent(ev)` | the whole transaction |

### Approvals and questions

`Interactions` follows each request from the Engine's announcement to its last word. `call`
is the await at which `replyToApproval` or `replyToUserInput` stands (`probe`, `adapter`,
`sent`); `BeforeDispatch` is the guard evaluated after the probe and again by the adapter.
`MergeReceipt` and `EventResponse` are the two ways of learning what became of an answer.
A receipt settles a pending record only. A response has one of six statuses (`Responses`,
`mapReplyStatus`), may come several times, and while the Execution lives replaces the status
whatever it was (`Answered`); it names an answer as the adapters make it do (`Named`). After
the end only the missing answer to a question is still taken from one (`LateAnswer`).
`RejectPendingInteractions` is what the terminal event does, and what `Reconcile` does not do.
Two ghosts: `native`, whose answer the Engine took, and `told`, the status of the last response.

### Persistent protocol and channels

`PersistentProtocol` names its variables as the class does (`outgoingMsgId`,
`outgoingUnackMsg`, `incomingAckId`, …). A socket is two sequences of frames; a socket that
is gone, or that nobody reads or will read, loses what it carries. `ReadMessage` is one turn of
the loop of `readMessages` with its `processAck`, `ReplaceSocket` writes every held message
again with the acknowledgement it had. `loops` counts the `reconnect()` calls that have no
socket yet: the acknowledgement timer can start a second one. `Connect` is the moment at which
`socketFactory.connect` has reached the server; until the caller resumes and replaces its socket
(`ReconnectSucceeds(n)`, any `n`), or finds it gone (`ConnectFails(n)`), the socket is in
`arriving`. So two calls may replace the socket in the reverse order of opening, and the server
may take a socket and write its held messages on it before the client reads there. A message
counts as one byte. The
server's acceptance of a new socket lies outside `src/`'s protocol class and is modelled from how it
is used: in the order in which sockets reach it, a replaced one never again.
The receiver does not filter what it has received before. That is the code: `ReliableLine`
promises order and completeness, and lets a replayed message arrive again.

`ChannelRpc` has one `ChannelClient` and one `ChannelServer` over an ordered line.
`deferred` holds requests that wait for `Initialize`, `pending` those collected for a channel
that is not registered, whose timer (`PendingTimer`) tells the caller so while the request
stays collected. `FlushPendingRequests` is the timer of `registerChannel`.

### File lock

Each action of `AtomicFileLock` is one call of the file system, by name and not by handle:
whatever directory has the name at that moment. Inodes are used again. A process may exit
between any two calls (`Exit`). `SlowWrites` lets more time pass between the creation of an
owner file and its content than the grace that reclaiming grants.

### Workflow governor

The class is synchronous; its `drain` is a loop with calls to others, so it is three actions
under the flag `draining`, and nothing else happens meanwhile. `cooldown` is
`cooldownUntil` (none, in the future, past), `alarm` the timer of `armCooldownWake`,
`stale` that `CONCURRENCY_IDLE_RESET_MS` has passed since the last request. A ticket whose
epoch has passed is in `tickets` and not in `current`. The main agent's requests
(`Observer`) count and never wait. Three ghosts: `judged` are the requests in flight when the
cap was last lowered; `asked` says that the provider's time to wait has not passed, and `idled`
that the key has been idle since it was named, whatever the controller remembers of it.

### Abstractions

* Submission is idempotent by a command ledger in the code; here each Input is
  submitted once. Creating the Task is `Init`.
* An expired authorization and a revoked one are both `grant = FALSE`.
* `withdrawQueuedInputForEdit` has the effect of `cancelQueuedInput` under a
  stronger guard, and is the same action.
* The records `skipped` and `cancelled` of a compaction are `completed` and
  `failed`: nothing here distinguishes them.
* File rewinds and revisions are assumed absent, so the guards that only look for
  one in flight are left out.
* The set of live Sessions (`#liveSessions`) is folded into `session = "active"`:
  after a restart a Session is not live until it has been restored.
* The result of the stop request inside `sendQueuedInputNow` (delivered, refused, too
  late) is a free choice; `StopRequests` models them by themselves. One such call at a time.
* `closeTask` takes an outcome; `completed` stands for the three that claim one,
  `abandoned` for the one that claims nothing.

## 3. Properties and runs

Every cfg sets `CHECK_DEADLOCK FALSE`: a Session whose work is done, a Task that is closed, a
lock that was released or a bound that is reached has nothing left to do.

| Run | Bounds | What it shows |
|---|---|---|
| `core` | 3 Inputs, 1 compaction, 1 restart, positions up to 4; calls compact, cancel, move, send-now, close, revoke; lost receipts, failed checks, unknown results, streams that end early or throw | the safety and step properties of the runtime, and that it implements `SerialSession` |
| `progress` | 2 Inputs, 1 compaction, 1 restart, positions up to 3, all calls, all faults but `streamError`, reconciliation in a detached Session, fairness | queued work of an idle Session is never forgotten, is given up only for cause, and leaves the queue |
| `stop` | 3 stop requests of the caller, notices "requested" and "unsupported", one restart | stop records are true, one is confirmed, the Engine is interrupted once |
| `stranded` | 2 Inputs, 1 compaction | counterexample to "queued work is never forgotten" (finding 1) |
| `events` | Engine `honest`: 4 events on 2 streams, 5 deliveries; `wild`: 3 identities, 3 numbers, 3 types, one flaw each, 3 deliveries; `gapped`: 7 events numbered 1 to 5, 5 deliveries | outcomes are vouched for, the first stays, nothing has two effects, and what is lost is visible |
| `interactions` | 1 approval, 1 question, 1 restart, receipts and responses of every status, responses repeated | records say what the Engine took and last gave notice of; a reply is sent once and only when it may be |
| `interactions_reconciled` | the same | counterexample to "the end of an Execution retires its requests" (finding 2) |
| `transport` | 1 client message and 2 of the server, 4 sockets, 1 of which breaks, 2 reconnections at once, acknowledgement timeouts, a grace period that runs out at the server, water marks 0, replay limit 1 | the protocol implements `ReliableLine`, its reports are true but for "disconnected", and nobody waits in silence but a server whose client is left behind |
| `rpc` | 2 calls, 1 subscription, a channel that is there, comes late or never | calls are executed at most once, what was given up stays so, and every call settles |
| `file_lock` | 2 writers, 2 inodes, 1 exit, owner files written within the grace | one holder, nothing left behind, the lock of the dead is reclaimed |
| `governor` | 2 runs with 3 and 1 requests, each sent again and again, 1 request of the main agent, ceiling 3, streak 2, 1 refusal with a time to wait, no wait longer than the idle reset | the gate holds until the key is idle, one verdict per batch, runs take turns, whoever waits is served while the main agent sends finitely many |
| `governor_abort` | 3 runs, 2 refusals, long waits | counterexample to "whoever waits is waited for" (finding 3) |

Properties of the runtime, and what the code would have to get wrong:

* `OneTurnAtATime`: two Inputs between dispatch and confirmed outcome. Direct
  submissions and promotions check idleness in different transactions.
* `SentAtMostOnce`: a command dispatched twice, e.g. retried after a lost receipt.
* `UndispatchedHasNoEffect`: an Input told "rejected" that runs natively.
* `OutcomesAreNative`: a claimed outcome the Engine did not have; an Input and its
  Execution that disagree.
* `ClosedTaskIsSettled`: a Task closed with a claimed outcome while something runs.
* `SendsAreQualified`: a command that leaves under a frozen Task, a detached Session
  or a revoked grant because the check was made before an `await`.
* `FinalIsFinal`: a late or contradictory event that undoes an outcome.
* `HeldUntilResumed`: work that starts by itself after a restart.
* `SendNowIsUndone`: the priority of an unsuccessful send-now not, or wrongly, restored.
* `ImplementsSerialSession`: any step that is not one of the abstract Session, e.g. an
  Input promoted past a compaction that was queued before it.
* `QueueNotStranded` and `QueuedInputsLeave`: a lost wakeup, as a state and as a
  liveness property.
* `QueueStopsForCause`: the queue given up although nothing is wrong.

Of stop requests, approvals and questions, and events:

* `InterruptedOnce`: an interrupt repeated because its receipt was lost, its result unknown,
  or the Host restarted.
* `StoppedHasOneConfirmation`, `EvidenceIsKept`: a receipt that comes after the end and
  undoes the confirmation; a stop nobody requested that leaves no record, or two.
* `RecordsTellTheTruth`: "delivered" without evidence; "not delivered" of an interrupt the
  Engine has, on which send-now would put the queue back; a late receipt that claims a stop is
  under way after the end.
* `AnsweredOnce`: a second reply after a lost or unknown receipt, or after a restart.
* `AnswersAreTrue`: the record names an answer the Engine did not take (to a question, or of
  an approval said to be forwarded), loses the caller's because a notice overtook the receipt,
  keeps or gets another status than that of the last notice, or changes after it was settled
  without one. It does not say that a notice never replaces a better one (observations).
* `RepliesAreQualified`: a reply that leaves after the request expired, was answered, or was
  closed with its Execution, during the probe or in the adapter.
* `RetiredByEvent`: an ended Execution that still asks.
* `EffectsAreTrue`: an outcome that no event with evidence claimed after an acceptance, or
  an Input that claims another one than its Execution.
* `OneEffectPerEvent`: a repeated or renumbered event applied again.
* `FirstOutcomeStays`: a second terminal event that replaces the first, or contradicts it
  unreported.
* `LossIsVisible`: a gap passed over in silence; an outcome that was told, and dropped with a
  repetition.

Of the parts around:

* `HeldUntilReceived`, `ImplementsReliableLine`: a message dropped because of an
  acknowledgement that was not one for it, e.g. of a replay; a gap or an exchange after two
  replacements of a socket.
* `CallbacksAreTrue`: an edge of the flow control that is not reported, or reported wrongly;
  "reconnecting" while nobody does, "connected" on a socket known to be dead. It claims nothing
  of "disconnected" (observations).
* `NobodyWaitsInSilence`: a message that neither arrives nor has its sender, or the client, told; a sender
  that stays stopped. Told means that this very end fired `onClose`, or that "disconnected" was
  reported of a line that is down and that nobody restores (`GivenUp`). One case is
  excepted, and for good only: the server's messages while the client is `LeftBehind`
  (observations).
* `CallsAreTrue`: a call executed twice, once from the collected ones; a call left open by a
  client that is gone. `CallsSettle`: a call that waits for ever.
* `GivenUpStaysSo`: a request sent after it was rejected, or served after it was cancelled.
* `LockIsExclusive`: two holders, or a holder whose files a reclaimer removes.
  `NothingLeftBehind`, `AbandonedIsReclaimed`: a lock nobody holds and nobody gets.
* `GovernorInv`: a place that is not given back, a cap that probes further than one step, a
  waiter with nobody in flight and no alarm. `WaitersAreServed` is the same over time.
* `GateHolds`, `OneVerdictPerBatch`, `RunsTakeTurns`: a request past the cap, counted by
  tickets and not by the controller, or sent while the provider asks to wait (the ghost `asked`)
  and the key has not been idle since; a cap lowered once for each request of a batch; a run
  served twice in a row. `WaitersAreServed` needs the turns too: with three requests, run A
  can have one in the queue for ever, and B starves if the first run is always taken.

### Bounds and why they are enough

Three Inputs are one whose turn is open, one queued behind it and one that is
submitted, moved or promoted beside them: every guard of the code is about "some
other Input" or "the head of the queue", and none counts beyond one (`InFlight` and
`LiveExecutions` are tested against at most one). One compaction suffices because
the code admits a second only when the first is over. Positions run to
`MaxPosition`, as high as the work can push them; `MaxRestarts = 1` reaches every
state a Host can find on start, since recovery leaves only statuses a second recovery
leaves as they are. `Symmetry` exchanges Inputs; it is used by safety runs only.

Of stop requests a refused one, a lost one and one more suffice: what the code asks is
whether any record is unresolved, and which is the latest. A restart is possible once,
because after it the Session is not attached again before the Execution has ended.

Approvals and questions do not look at each other, so one of each is every case. Events
are compared with the first record of an identity, the first of a number and the latest
number: three deliveries of anything, and five of an Engine that is at most repetitive or
incomplete, are a delivery with every choice of these three.

With four sockets the client can replace its socket three times and the two reconnections at
once can finish in the reverse order of opening (the client goes from 3 to 2, the server stays on
3) with one more socket to recover by. The last one does not break and is opened when no other is
on its way, or no liveness would hold. Two messages of the server are one replayed and one
written anew; the water marks at 0 and the limit at 1 make every message an edge, the second
one abandons the session. Safety alone was also checked with two client messages, three breaks
and both ends impatient (1,892,977 states), the inductive invariant of the proofs with one
message each way (86,773 states). The theorems cover any number.

Two calls differ in when they are made and given up; a third would be one of them. The lock
is between a holder and one who reclaims; the theorems cover more. The governor needs three
requests of one run, so that its queue need never be empty while a batch of it is in flight, one
of another run (turns, starvation) and one beside the gate; with a ceiling of 3 the cap moves
down, to the last good one and up again. `MaxObserved = 1` lets the main agent be granted once,
which is what `WaitersAreServed` claims it for: finitely many (observations).

The largest of these runs have some 10^6 states (`interactions` 1,669,326, `transport` 356,292
with its liveness, `governor` 356,502 with its liveness).

### Fairness

`progress` assumes that the event loop runs each continuation that is ready
(`DrainAgain`, `SendNowStep`, `InputStep`, `CompactStep`), that the Engine ends every
command it has (`NativeFinish`), and that its stream tells of the acceptance and of
the end of a turn. The last two are promises of the adapter contract, not of the
runtime. All are weak. Nothing is assumed of users: submissions, restores, resumes
and reconciliations may never come, so a queue that is held for the user (`paused`)
is allowed to wait.

`transport` assumes that sockets carry what is written, that the keep-alive timer and the
client's acknowledgement check fire, that the client's attempts succeed in the end and are
resumed, and that the server accepts the newest connection; not that any of this happens before
a limit makes an end give up, nor that a grace period ever runs out. `rpc` assumes
that messages arrive, timers fire, the server gets ready and a channel finishes the calls it
was given; not that a channel is ever registered. `file_lock` assumes that a process that
lives goes on and, strongly, that one that keeps looking finds an abandoned lock older than the grace
at last. `governor` assumes that a drain goes on (it is one synchronous call), and
strongly that timers run out and that some request in flight ends: both are enabled
only between drains, which other requests may start again and again, but a timer
or a settled promise is not taken back by that. All other fairness is weak.

### Findings

1. **A compaction is stranded** (`stranded`, index.ts:4129). When a turn becomes unknown
   outside the drain — its stream ends, a direct receipt is lost — only queued
   *Inputs* are rejected; a queued compaction stays. After the turn is reconciled nobody
   drains the queue, and later Inputs queue up behind the compaction. The drain
   itself fails such compactions, and `docs/specs/engine-adapter.md:48` says
   the others wait in the order of an explicit queue. A Session that is restored
   gets its hold lifted by a resume, which drains: hence `progress`, in which
   reconciliation happens only in a detached Session, does pass.
2. **Reconciliation leaves requests open** (`interactions_reconciled`, index.ts:1163).
   `reconcileExecution` records the end of an Execution and settles its stop requests, but,
   unlike the terminal event, leaves its approvals and questions pending until somebody tries
   to answer them. The test at `tests/runtime.test.ts:5635` says "failed and stopped
   Executions retire pending interactions without native replies".
3. **An abort puts the others to sleep** (`governor_abort`,
   workflow-concurrency-governor.ts:311). The abort of a waiter observes the controller; one
   that was idle for longer than `CONCURRENCY_IDLE_RESET_MS`, because the provider asked
   to wait that long, is reset with its cooldown, and the alarm is cancelled and, without a
   cooldown, not set again. The other waiters then face an open gate with nobody in flight
   and nobody to wake them, until another request comes. Line 43 promises that `admit` waits
   only for a place or for the cooldown.

### Observations

Things the models show that contradict a comment less clearly, or need an unlikely environment.

* A compaction requested on an idle Session has no position; an Input queued while its
  capability check is awaited counts as earlier, and the compaction is refused
  (index.ts:3570), although the type comment speaks of a "FIFO position shared with queued
  Inputs" (`runtime-operation-types.ts:82`).
* An `execution.interruption-requested` event names no request and is applied to the latest
  one (index.ts:4879). If the Engine's notice of a refusal is read after its next request, that
  one is recorded as "not-delivered", and a third may even be sent. With "late" in the
  constant `Notices`, `RecordsTellTheTruth` and `InterruptedOnce` fail. Neither Engine of the
  repository does this.
* A stream that throws after its terminal event makes `#consumeRun` reject the queue
  although nothing is unknown (index.ts:4135). `QueueStopsForCause` fails under the fault
  `streamError`; the code meets it only when a store write fails, so `progress`
  leaves it out.
* Freezing a Task rejects queued Inputs and leaves queued compactions (index.ts:4008), which
  then keep it from being closed with an outcome.
* An ignored delivery still reserves its number, so that a later, genuine event with that
  number is ignored as a conflict; and a repetition raises the latest number without being
  looked at, so that a gap before it goes unseen. `Fresh` in `GapsAreReported` and
  `Unambiguous` in `ToldOutcomeIsKnown` say when this cannot happen.
* A listener that leaves before `Initialize` is announced to the server after it has left
  (channelClient.ts:161), and the cancellation of a request that is still collected for its
  channel is lost; `waited` excepts both in `GivenUpIsDropped`. A listener that returns to
  the same emitter gets no events.
* The persistent protocol delivers a replayed message again (persistent-protocol.ts:206).
* The socket of a second `reconnect()` may be opened later and put in place earlier than that
  of the first (remote.ts:314, 317). The client then goes back from socket 3 to socket 2, which
  the server has left; both are whole. If the client has nothing unacknowledged, nothing ever
  tells it, and the server's messages wait as long as the server's grace period: without the
  exception `LeftBehind`, `NobodyWaitsInSilence` fails.
* A reconnection that gives up reports "disconnected" although another one has connected
  meanwhile (remote.ts:304–307): "disconnected" may be the last report of a healthy line.
* A response of status "unknown", or any other, replaces a status that was known
  (index.ts:4803, 4862): an approval that was forwarded is shown as unknown when the adapter later
  says so of the same request (zcodeAdapter.ts:1200–1226). `NoticeStands` says what does hold:
  the record has the status of the last response.
* With `SlowWrites`, an owner file that is opened but not written within the grace is taken
  for abandoned (atomicFileLock.ts:109), and `LockIsExclusive` fails: the theorems assume
  that it is written in time.
* A Retry-After can be forgotten in the call that sets it. The key is idle when nobody is in
  flight and the last *admission* is `CONCURRENCY_IDLE_RESET_MS` ago (concurrency.ts:221). A
  request that ran that long and is then refused with a time to wait leaves an idle key: the
  drain of its `settle` observes, resets the cooldown, and the next request leaves at once,
  while lines 42–43 of workflow-concurrency-governor.ts promise that a request waits outside
  the cooldown. Without the exception `idled`, `GateHolds` fails after six steps.
* The turn of the runs starts again from the first when the main agent is granted
  (workflow-concurrency-governor.ts:244, 255) or the last run's queue is empty; the comment at
  line 97 promises a rotation. If the main agent's requests never end and one of them is granted
  before each place is given back, the first run is served each time and the others starve:
  `WaitersAreServed` fails without a bound on them.
* While a cooldown that is over stays recorded, the alarm is due at once and is set
  again after every drain (263–265). `admitAttempt` does not give back its ticket if `onAdmitted`
  rejects (request-admission.ts:49).

## 4. Proofs

Checked by TLAPS for all values of the constants. The assumptions are those the modules
name: `ConstantAssumption` (the sets of Inputs and compactions are finite and disjoint,
`None` is not in them, the other constants are drawn from their vocabularies),
`StopAssumption`, `EngineAssumption` (the events an Engine may deliver are well formed),
`InteractionAssumption`, `ProtocolAssumption`, `RpcAssumption`, `LockAssumption` and
`GovernorAssumption` (requests belong to runs or to the main agent, the ceiling and the streak are
positive). Where a theorem needs more, it says so, and section 3 shows what happens without:

| Hypothesis | Theorems | Without it |
|---|---|---|
| `"streamError" \notin Faults` | `StopsForCause` | a stream that throws after its end rejects the queue (observations) |
| `"active" \notin ReconcileIn` | `NotStranded` | finding 1, the run `stranded` |
| `"late" \notin Notices` | `OneInterrupt`, `OneConfirmation`, `RecordsAreTrue` | a late notice is applied to the next request (observations) |
| `LongWaits = FALSE` | `NobodyIsForgotten` | finding 3, the run `governor_abort` |
| `SlowWrites = FALSE` | those on the file lock | an owner file that is not written in time (observations) |

### The runtime

None of the properties is inductive by itself: that a command is sent once depends on
where its handler stands; that outcomes are true, on what a stream may still say.
`IInv` is `TypeOK` and `WorkOK`, and `WorkOK` says of each piece of work by itself
which combinations of status, Execution, handler, native fate, number of sends and
stream exist (`InputOK`, `CompactOK`), and that at most one Input has an open status.
That the rows are independent is what makes the proof short: a step that touches one
piece of work leaves the others' rows alone.

Most steps end in a drain. `DrainTypes` and `DrainWork` show once that a drain from any
good intermediate state ends in a good state (giving the queue up is `RejectWork` and
`StopWork`); `DrainStep` packs them for the actions. There is then one lemma per
group of actions, and `NextOK` collects them.

| Theorem | Statement |
|---|---|
| `Invariance` | `Spec => []IInv` |
| `TypeCorrect` | `Spec => []TypeOK` |
| `SentOnce` | `Spec => []SentAtMostOnce` |
| `SerialTurns` | `Spec => []OneTurnAtATime` |
| `NoHiddenEffect` | `Spec => []UndispatchedHasNoEffect` |
| `TrueOutcomes` | `Spec => []OutcomesAreNative` |
| `FinalKept` | `Spec => FinalIsFinal` |
| `QualifiedSends` | `Spec => SendsAreQualified` |
| `ClosedSettled` | `Spec => []ClosedTaskIsSettled` |
| `PositionsDistinct` | `Spec => []QueuePositionsDistinct` |
| `SerialSends` | `Spec => SendsAreSerial` |
| `OrderedCompacts` | `Spec => CompactsKeepOrder` |
| `SerialSessionImplemented` | `Spec => ImplementsSerialSession` |
| `HeldForUser` | `Spec => HeldUntilResumed` |
| `StopsForCause` | `Spec => QueueStopsForCause` if `"streamError" \notin Faults` |
| `NotStranded` | `Spec => []QueueNotStranded` if `"active" \notin ReconcileIn` |
| `SendNowUndone` | `Spec => SendNowIsUndone` |
| `StopTypeInvariance` | `Spec => []StopTypeOK` (of `StopRequests`, as the rest) |
| `OneInterrupt` | `Spec => []InterruptedOnce` |
| `OneConfirmation` | `Spec => []StoppedHasOneConfirmation` |
| `RecordsAreTrue` | `Spec => []RecordsTellTheTruth` |
| `EvidenceStays` | `Spec => EvidenceIsKept` |
| `QualifiedStops` | `Spec => StopsAreQualified` |
| `OneReply` | `Spec => []AnsweredOnce` (of `Interactions`) |
| `NothingLeftOpen` | `Spec => []RetiredByEvent` |
| `TrueAnswers` | `Spec => AnswersAreTrue` |
| `QualifiedReplies` | `Spec => RepliesAreQualified` |
| `Holding` | `Spec => []HeldUntilReceived` (of `PersistentProtocol`) |
| `TrueCallbacks` | `Spec => []CallbacksAreTrue` |
| `ReliableRefinement` | `Spec => ImplementsReliableLine` |
| `LockInvariance` | `Spec => []LockInv` if `SlowWrites = FALSE` (of `AtomicFileLock`) |
| `Exclusive` | `Spec => []LockIsExclusive` if `SlowWrites = FALSE` |
| `NothingStays` | `Spec => []NothingLeftBehind` if `SlowWrites = FALSE` |
| `OnlyAbandonedReclaimed` | `Spec => ReclaimsTheAbandoned` if `SlowWrites = FALSE` |
| `EffectInvariant`, `EffectsTrue` | `Spec => []EffectInv`, hence `[]EffectsAreTrue` (of `EventIngestion`) |
| `EffectOnce` | `Spec => []OneEffectPerEvent` |
| `LossVisible` | `Spec => []LossIsVisible` |
| `FirstOutcome` | `Spec => FirstOutcomeStays` |
| `RpcInvariant`, `CallsTrue` | `Spec => []RpcInv`, hence `[]CallsAreTrue` (of `ChannelRpc`) |
| `GivenUp` | `Spec => GivenUpStaysSo` |
| `GovernorInvariant`, `CountsTrue` | `Spec => []GovernorIInv`, hence the counts of `GovernorInv` (of `WorkflowGovernor`) |
| `NobodyIsForgotten` | `Spec => []GovernorInv` if `LongWaits = FALSE` |
| `GateHeld` | `Spec => GateHolds` |
| `OneVerdict` | `Spec => OneVerdictPerBatch` |
| `Turns` | `Spec => RunsTakeTurns` |

Seven properties are proved though no run repeats them, because each is a lemma of something
a run does check or says little beside it: `TypeOK`, `QueuePositionsDistinct`,
`SendsAreSerial`, `CompactsKeepOrder`, `StopTypeOK`, `StopsAreQualified` and
`ReclaimsTheAbandoned`.

`FinalKept`, `QualifiedSends` and `ClosedSettled` rest on `StepOK`, shown once of every step:
statuses only make `Progress` (a final one stays; a *busy* one, from which a native
effect can still come, is entered only while the Task is active), a command leaves only
under `Admits`, and only three calls change the Task. `Progress` is transitive, so a step
that changes a status and then drains is the composition of two lemmas. A closed Task
stays settled because closing requires that no status is busy (`Settled`) and nothing
becomes busy afterwards.

The order of the queue has an invariant of its own, `QInv` (theorem `QueueInvariance`):
waiting work has distinct positions, at most one compaction is active, one in native hands
that has a position is ahead of everything that waits, and no Input is about to be
dispatched beside an unresolved compaction. It speaks of `status` and `position` only, so
its lemmas are about operations on a queue: work leaves it (`LineShrinks`), joins it
(`AppendLine`), is renumbered (`ReorderLine`), is drained (`DrainLine`). From it follow
`PositionsDistinct`, `SerialSends`, `OrderedCompacts`, and the fact at the heart of the
refinement: a promotion finds nothing open (`PromotesAlone`).

The refinement follows the shape of the abstract steps. `DrainThen` shows that the drain,
from any good intermediate state, is the second half of an abstract step; `StaySteps`,
`EndSteps`, `EnterSteps`, `StartSteps` and `MoveSteps` show what the first halves are; each
action of `TaskRuntime` is then one first half with a drain, a give-up or nothing.

Who promotes the queue, who gives it up and who wakes it is again one statement about every
step, `QueueStepOK` (lemma `EveryQueueStep`), with two invariants in it. `Held`: work that waits
in a detached Session is held for the user. `Awake`: work that nobody holds waits for a drain
that has begun, for its next attempt, or for something unresolved whose end drains. Neither is
inductive without the other: a restored Session is attached with a queue that nothing will
drain, and only `Held` knows that it is paused. `DrainFate` says what one drain does to those that
wait, the other lemmas which steps end without one. `Awake` is the heart of `NotStranded`: the
only step that breaks it is the reconciliation of an attached Session, which settles what the
queue waits for and drains nothing.

`SendNowUndone` needs what the pending call remembers (`Remembers`: distinct positions, its own
Input among them). That the order is restored is a fact about three orders of one set
(`MovedBackOrder`): what was found, the same with one Input in front, and that with the Input
put back before its old successor; it needs no counting of positions.

### Stop requests

The theorems on stop requests hold for any number of them. `RecordsInv` (records are numbered in
order, a call knows its own) is enough for the types and for `EvidenceIsKept`, which hold for
every Engine, as `QualifiedStops` does. The others assume that no notice of refusal is late, since
one that is breaks them (section 3, observations). The invariant `StopInv` says whose turn it is to be
unresolved: while the Execution has not ended, only the latest record can be; one that
reached the Engine stays unresolved; a call starts only beside none; and the notice of a refusal
is read while the refused call still waits, or never. Hence nothing has
reached the Engine when an interrupt is about to be sent (`StopSentKeeps`), a notice is about
the record it is applied to, and the end of the Execution finds at most one record to
confirm. `AnswerKeeps` and `EndsKeeps` state this once for every answer and every end.

### Approvals and questions

The rows of `Interactions` are independent: `InteractionInv` is its types and, of each
request by itself, `RecordInv`. Nothing has happened to a request that was not announced
(`Unannounced`); a reply was sent at most once, and one that was sent leaves its record
pending only while its receipt is awaited, or where nothing can be sent any more
(`SentForGood`); what is recorded as the answer, or receipted and recorded, is the Engine's
(`AnswerOfEngine`, `AckedIsTaken`); the record has the status of the last response
(`NoticeIsLast`); an end by event retires
(`RetiredWith`). There is one lemma per action. That a settled record changes only as a response
says is a fact about steps (`SettledStays`); of the six statuses the proofs use only that
"pending" is none of them.

### The persistent connection

`HeldUntilReceived` is not inductive: that the next message closes no gap depends on what is
still on its way on a socket that nobody reads yet. `LineInv` says it of every wire
(`WiresGood`): no acknowledgement is ahead of what its writer has received (`Truthful`); if
somebody reads the wire, or will when a connection arrives or is accepted (`ReadsOf`), its messages
are consecutive and begin no later than the next the reader lacks (`GapFree`) and, on the
writer's present socket, reach the last one that was sent (`Reaches`). A socket that its owner may
still take has nothing of it on it (`Fresh`), although the peer may already have written there: that
is what lets the two ends replace their sockets in any order. Of every sender it says
that it holds the last of its messages, without a gap, from no later than the first that was
not received (`HeldGood`). `ReplaceSocketKeeps` shows that a replay restores all of this on a
fresh socket, `ReadKeeps` that reading uses it up. The refinement is then short: a read
is `Receive`, a send is `Send`, everything else stutters. `ReliableLine` is about what has
been received, in order and without a gap; that callers get a message once is not among
its promises, nor true. `TrueCallbacks` claims nothing of "disconnected".

### The file lock

The argument is that the inode check is not what protects: `LockInv` says that whoever a reclaimer
takes for dead is dead (`ReadAreDead`, `ListedAreDead`), so that nobody's owner
file is removed but by itself, and the owner file alone decides who holds.

### Event ingestion

The properties speak of positions in a log that only grows, so every proof begins with
`Delivery`: the log before is a prefix of the log after. There are three invariants, one for
each question. `EffectInv` says that each status is vouched for by an event of the log, and
that the Execution exists only after a vouched acceptance; the first is not inductive without
the second, since an outcome must come *after* an acceptance. `EffectOnceInv` needs only types
besides the property: what is applied now is neither a duplicate nor a conflict, hence its
identity and its number are new. `LossInv` adds that the numbers of the log have a bound, so that
the latest one exists, and that an Engine that names events unambiguously had its acceptance
believed. That the number of an unreported event is one more than another's in the log
(`NumbersAreConsecutive`) uses that a set of numbers has a least and a greatest element, which
the library's theorem on the well-founded order of the naturals provides. The
Engine's properties (`Fresh`, `Unambiguous`) stay hypotheses inside the property; no bound on
deliveries, streams or numbers is used.

### Channels

A call is one token that passes from the client through the wire to the server: while it is
deferred or on its way it has not run and is nowhere else, it is on the wire once, what is
collected has not run, and nothing runs twice (`CallOK`). A cancellation is behind its request on
the ordered transport, never before it, and once it has been read nothing of its call is left,
neither on the wire nor running (`CancelOK`). Subscriptions are
alike (`ListenOK`). Both except what had to wait at the server or before `Initialize`
(`waited`), as the property does. `RpcInv` was an invariant of a
run first (407,981 states). The lemmas on messages say what appending, taking and
filtering do to whether a message is there, there once, and there before another.

### The workflow governor

`GovernorIInv` is five facts that hold between any two pieces of a drain: the cap is in its
bounds and probes at most one past the last good value; `inFlight` counts the tickets; the
order names exactly the runs that have waiters, each once; `waiters` is their number when no drain is under way.
Three theorems on steps follow from it; `GateHeld` needs `WaitOK` besides, an invariant that ties
the ghosts to the controller: while the provider's time runs and the key has not been idle, the
cooldown is on, and idleness does not go unnoticed. It has one step per action, because every
signal observes first and an observation may reset. `NobodyIsForgotten` adds `Woken`: with nobody in flight,
whoever waits has an alarm, and the cooldown it is set for is still recorded. Long
waits break this by the idle reset (finding 3), and nothing else does.

### Changes the proofs asked for

Two definitions were put into a form that can be reasoned about, without a change of meaning.
`ApplyEvent` of `EventIngestion` is a disjunction of exclusive cases, each with all its primed
variables; the removal of a waiter in `WorkflowGovernor` is the operator `Without`, which removes
the first place of an element.

### What is only model-checked

Liveness (`QueuedInputsLeave`, `NobodyWaitsInSilence`, `CallsSettle`, `AbandonedIsReclaimed`,
`WaitersAreServed`) is beyond the prover: its rules for fairness need ENABLED. Every other property that a
passing run checks is stated by a theorem.

## 5. Not modelled

* **Attachments, creation, adoption and fork, revision, file rewind, feedback**: operations of
  the runtime class that take a command lock, check, await the Engine and record a result. Their
  shape is that of `requestStop` and of a reply; the models start from a created Task
  and assume that no revision or rewind is in flight.
* **The capability probe and the projection of authorizations**: the probe is an await that
  succeeds or fails; that concurrent callers share one probe is not looked at.
* **The ZCode adapter**: what it can do to the runtime (lost receipts, cut streams, repeated
  and missing events, evidence or none) are the faults of the models; how it
  recovers receipts after a reconnect is not modelled.
* **The stop request inside `sendQueuedInputNow`** is a free choice of `TaskRuntime`, and not a
  composition with `StopRequests`; nor is `EventIngestion` composed with `TaskRuntime`. The
  product of their states would leave TLC only instances too small to be of interest.
* **Channels over the persistent protocol**: `ChannelRpc` assumes the ordered line that
  `PersistentProtocol` implements, but without its replays, which the channel layer does not
  filter either. Serialization, routing between clients, chunking and the wrap of 32-bit
  message numbers are left out.
* **Lock files of former versions**, permission errors and clocks beyond the grace.
* **The facade, the realtime bus, the scheduler, the supervisor** and the rest of the native
  agent, of which only the governor is modelled: inherited programs of their own.
* **SQL and migrations, user interface, provider catalogues, the scenario enumerator**: input,
  output and presentation, without a protocol of their own.
