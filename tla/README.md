# TLA+ models of voice-agent-engine

This directory models the parts of the engine whose correctness depends on the
order of awaits, requests and failures, checks them with TLC on small instances,
and proves the main safety properties with TLAPS for all sizes. Paths below are
relative to the repository.

## 1. The system

A **gateway** (Hono on Node, one process, Postgres) accepts calls, sessions and
text conversations, and asks **LiveKit** to start a **worker** job and to dial.
The worker (LiveKit agents SDK) runs one conversation per job and reports to the
gateway over HTTP.

| Component | State it keeps | Operations | Talks to |
|---|---|---|---|
| Calls (`src/lib/outbound.ts`, `sessions.ts`, `concurrency.ts`, `routes/calls.ts`, `sessions.ts`, `agents.ts`) | `calls` rows: status, queued_reason, scheduled_at, created_at | create, scheduler tick (5 s), drainer tick (10 s), dispatch, cancel | LiveKit (dispatch, SIP, delete room), webhooks |
| Reports (`routes/internal.ts`) | the same rows, transcripts, usage | `/calls/inbound`, `/events`, `/complete` | called by the worker; starts the post-call pipeline |
| Limits (`concurrency.ts`, `routes/limits.ts`) | limit rows and a 30 s cache of them | admission check, write and invalidate | used by every birth of a call |
| Webhooks (`lib/webhooks.ts`, `call-events.ts`, `routes/webhooks.ts`) | endpoints, deliveries, `draining` | register, delete, emitEvent, drain | customers' servers |
| Agents (`routes/agents.ts`) | config, version, draft, `agent_versions` | patch, draft, publish, test | read by dispatch and by workers |
| Conversations (`lib/convo-runner/*`, `routes/conversations.ts`) | node, state blob, messages | start, turn, end | LLM, tools |
| Numbers (`routes/numbers.ts`) | `phone_numbers` | buy, import, release | LiveKit numbers API |
| Worker session (`worker/src/session-lifecycle.ts`, `gateway.ts`) | `state.completed`, timers, AgentSession, room | startSession, hangUp, Close and shutdown handlers | LiveKit, `/internal` |
| Worker flow (`worker/src/flow/*`) | current node, objectives, transition and transfer flags, memory | judge pass, exits, handoff, warm transfer | LLM, tools, hangUp |
| Language (`worker/src/language.ts`) | current language, pending count | onFinalTranscript | STT |

What is hard here:

* **Awaits.** Every SQL statement and every LiveKit request is a point where all
  other handlers run. Status is read in one statement and written in another, and
  most UPDATEs test only the id.
* **Intervals** are not re-entrancy safe (except the webhook loop).
* **Reports** are fire-and-forget or sent once; `/complete` may overtake
  `call.started`; a request that fails may have worked.
* **Ends of a call.** The model, three timers, the human, an error, a cancel and
  a crash can all end it, in any combination, through one shared flag.
* **Crashes** leave rows as they are; only what an interval selects is picked up again.

What makes each component correct:

* Calls: one phone call per row, not before its time, not after it was canceled
  or expired; nothing waits for ever; no live row without a session behind it.
* Webhooks: bounded attempts, an outcome that is true, at least once, no
  starvation.
* Session: exactly one completion, flushed before the room goes; who is on
  the line is taken off it, also when nobody hangs up.
* Limits: a limit that was replaced stops being applied soon. Agents: versions
  are consecutive, each made of the one before it. Conversations: turns that
  overlap leave a consistent row and every message is answered. Objectives: every
  turn is judged, a node is left exactly when its goals are settled, no answer is
  lost on its way to the CRM. Flow: guards are up exactly while they should be, no
  call is wedged between two nodes. Numbers: nothing is paid for that no row names.

The hazards, each at its line, are listed in `PROJECT.json`.

## 2. Modules

### CallLifecycle

One row of `calls` per element of `Call`; a handler is a thread with a program
counter, and one action is one awaited statement with everything the code does
up to the next await. The thread that creates call `c` is named `c`; ticks of the
two intervals are further threads, and two elements of `DrainTick` are two ticks
that overlap: nothing in the code keeps them apart. The history variable
`contested` has the rows that two ticks of one interval had in their lists at
once (`Twins`); the properties that such a row can break except it by name.

| Model | Code |
|---|---|
| `status`, `parked`, `expired`, `older` | `status`, `queued_reason = 'capacity'`, `end_reason = 'queue_expired'`, order of `created_at` |
| `due`, `stale` | `scheduled_at <= now()`, `created_at < now() - QUEUE_EXPIRY_SECONDS` |
| `Full`, `Counted` | `checkCapacity` over any set of limits (`Scope`, `Members`, `Cap`, `DailyScope`) |
| `PostScheduled`, `CheckBirth`, `TestSession`, `InsertOutbound`, `InsertWeb`, `InsertInbound` | the three ways a call is born; `agents/:id/test` skips the check, as in the code |
| `DispatchRead` … `MarkFailed` | `dispatchOutbound`, statement by statement |
| `SchedSelect`, `SchedCheck`, `ParkForCapacity` | a scheduler tick |
| `ExpireSelect`, `ExpireOne`, `DrainSelect`, `DrainCheck`, `Unpark` | a drainer tick |
| `CancelRead`, `CancelRoom`, `CancelRoomFails`, `CancelWrite` | `POST /v1/calls/:id/cancel` |
| `job[j]`, `GoLive`, `Finish`, `Disconnected`, `ReceiveStarted`, `ReceiveComplete` | what the gateway sees of a worker job |
| `GatewayCrash`, `StatementFails`, `WorkerDies`, `ReportLost` | failures, at most `MaxFaults` |

Abstractions: *ended* stands for completed, no_answer and failed, which no handler
tells apart (the daily ceiling does not count *voicemail*, but the worker never
reports that status); the one or two count queries of `checkCapacity` are one step and the
limits it uses are current (the cache is in LimitsCache); nothing
leaves the 24-hour window of a daily limit; LIMIT 10 and LIMIT 50 exceed every
instance, LIMIT 20 is `DrainBatch`; the log INSERT that follows a status UPDATE is
part of the same action (its failure is `StatementFails` in the next state);
a tick that finds nothing is left out because it changes nothing.

### WebhookDelivery

`emitter[e]` is one run of `emitEvent`, `deleter[w]` one of `DELETE
/v1/webhooks/:id`, `pc` and `batch` the drain loop, of which the `draining` flag
admits one. `queue` orders the pending rows that are due by `next_attempt_at`:
it is the set of pairs `<<c, d>>` in which `c` is due no later than `d`, so `Due`
rows are those paired with themselves, a rescheduled row leaves it (`Without`) and
comes back behind all others (`With`, in `BecomesDue`). The foreign key from deliveries to endpoints is in
`DeleteEndpoint` and `InsertRefused`: the latter rejects a promise nobody
handles, which ends the process (Node's default), hence `Restart`. `matched` and
`accepted` are history variables. A consumer that took a request may still
answer with an error or too late.

### WorkerSession

One job. `hang[h]` is a call of `state.hangUp` at one of its awaits, by the flow
or a timer (`Hangup`, a bound) or by the not-live path (`Unanswered`).
`Complete(x)` is `complete()`: the flag, and the request whose fate is `flush`
and which only `flusher` awaits. `run` is `startSession`'s own thread. Closing
the AgentSession takes two steps (`closing`, `closed`), the second of which runs
both Close handlers. Left out: the reason and status strings, usage and
`call.started`. Two `session.close()` at once both wait for the end of the
closing; the comment at session-lifecycle.ts:582 reports that the SDK can also
throw there, which is outside the repository. Humans may answer, stay and leave as
they like; `erred` remembers that an error ended the session (history).

### Objectives

The tracker of `flow/objectives.ts`. `entries` holds one runtime object per entry
of a node, because passes, field writes and deferred transitions of a node go on
after it was left; `active` is `activeObjectives`. What a pass does is a function
of a record (progress, contact state, writes): `Record`, `CompleteAggregates`,
`RecomposeAggregates`, `BurnAttempt`, `ApplyVerdict`, `RetryWrites`, `Arm` are the
functions of the same names; the loops over a node's objectives are sets and
functions of its list. The steps are the awaits.

| Model | Code |
|---|---|
| `Enter`, `Arm` | `onEnter` and `arm()`, with skipIfKnown and what was captured earlier in the call |
| `UserTurn`, `Pass`, `PassOver` | `onUserTurn` and its loop; `rerun` |
| `JudgeAnswers`, `JudgeGarbles`, `JudgeThrows` | the judge's answer parses, does not (one retry), or the request fails |
| `MaybeComplete`, `Resume`, `Resolve` | commit, wait for an idle agent, take the exit |
| `MoveOn`, `HangUp` | every other way out of the node: tools, scenarios, auto-advance, hangups |
| `WriteLands`, `WriteFails` | a field write nobody waits for |

A verdict is any sequence of at most `MaxChecks` checks about any tracked
objectives, asked about or not, in any order; an answer is a word or N/A, and joined
answers are sequences of words. `HasWriter` says whether the config has a tool to
write fields with. `follows`, a history field of an aggregate's progress (`Heed`),
is up from when its answer was made of its parts until a part gets a first answer
that the code leaves it without. `retrySettle` and prompts are data the properties do
not read. `Lists` is what the
schema guarantees of a node: no objective twice, and the parts of an aggregate are
objectives of the same node and no aggregates themselves.

### FlowRuntime

The way through a flow: `flow/agent-builder.ts`, `router.ts`, `context.ts`,
`assemble.ts`, `handoff.ts`, `transfer.ts`. Each agent that is built (`built`) has
the numbers of its ungated exits (`open`) and an `exited` flag. A move is a transition
between its commit and its arrival; several may be under way (`moves`), as the
flags of `FlowRuntimeState` exclude only some of them. `stranded` (history) says that
a transition has ended without arriving since the last node was entered: something
in it threw, a transfer led to another transfer and was dropped, or the agent of a
config without a flow took over, which enters no node.

| Model | Code |
|---|---|
| `Chain`, `Hop`, `Walk` | `resolveTarget`: one turn of its loop, and the six it has at most, through silent nodes |
| `Go`, `RouterAnswers`, `Arrive` | an await per router, and what its caller does with the result |
| `TakeExit`, `JudgeCommits`, `JudgeResumes` | exit tools; the judge's deferred transition |
| `EndCall`, `Refusals`, `Goodbye`, `CallEnds` | the guards of `end_call`, auto-advance after a second refusal, the delayed hangup |
| `ParkedTurn`, `ScenarioAnswers`, `ParkTimeout` | the parked agent, its scenarios and its timer |
| `StartHandoff`, `HandoffDone` | handoff to another config, with MAX_HANDOFFS |
| `TransferDone`, `ColdDone`, `WarmDone` | simulated, cold and warm transfers |

When an objective is settled is Objectives' business: here the judge of a node
with objectives may commit at any turn. The other config of a handoff is a node
of the same graph, or `Single`, an agent without a flow; a router's exits are
filtered by the tags when it is asked (`Routable`), not when it answers; the conversation timer, which only makes the model speak, is
left out.

### AgentCatalog and AgentVersions

`AgentCatalog` is the abstract promise: a history of configs per agent that only
grows, each one a patch or an old version on top of the last. `AgentVersions` is
`routes/agents.ts` on its two tables, each handler split at its awaits: it reads
the row (`Update`, `SaveDraft`, `Restore`, `PublishReadsDraft` and
`PublishReadsAgent`, …) and writes later without looking again (`Write`, `Bump`).
The primary key of `agent_versions` decides between two writers. The refinement
maps the history of an agent to its stored configs in order of version
(`History`), and `ImplementsCatalog` is the abstract specification as a property.

### ConvoRunner

`lib/convo-runner/*` and `routes/conversations.ts`: one conversation's row and the
requests on it. `turn[t]` is what a request holds: `Arrive` (the route), `Load`
(reads the row and the pinned config), `Run` (everything up to the transaction,
on a copy of the row), `Persist` (writes all of the copy), `End`, and `Break` (a
query fails or the process dies). `Run` picks one of `Results`: judge, exits
through routers and silent nodes (`Hop` is a turn of `resolveTarget`'s loop, of
which `Resolve` makes six; `Onward` one of `advance`'s, of which `Advance` makes
five), handoff, continuation, goodbye or reply, as functions of the copied row. The agents it is pinned to are edited and deleted
meanwhile through `Catalog`, an instance of AgentCatalog, and its flows are
FlowConfig's. CRM writes and usage are not in the state. `here` (history) counts the
turns since the row's agent took over.

### FlowConfig

What the schema of `packages/shared/src/agent-config.ts` accepts as a flow
(`Valid`: shape, and the checks across fields, one operator per `superRefine`
block) and `pruneFlowForChannel` (`Prune`). `FirstKept` is the independent
definition that `PastCut` is checked against: as many primary exits as there are
nodes, applied one by one. `At`, `Led`, `Kept` and `Reachable` are the filters and
maps of that function. `FlowEditor` states the two properties of pruning about a
flow that an editor changes, valid or not.

### RollingMemory, LanguageAligner, LimitsCache, NumberRegistry

`flow/memory.ts`: the refresh (`refresh`, `rerun`) and the two ways in which an agent
is told of it: `block`, the CONVERSATION SO FAR of its prompt, made when it is built,
and `spliced`, the system message in its chat context, which the copies for the next
agent leave out (`excludeInstructions`). A tool's move builds the next agent
(`MoveCopies`) some time before it is live (`MoveLands`), others do both at once
(`MoveAtOnce`). The splice waits for an idle agent (`AgentIdle`), and for 12 s at
most (`SpliceAnyway`). `language.ts`: `Detect` is `detectLanguage`'s single pass, checked against
`Winner`, and `Guess` the debounced switch. `concurrency.ts`/`routes/limits.ts`:
the two caches with their expiry, a SELECT whose answer is on its way, a PUT
between write and drop. `routes/numbers.ts`/`lib/phone-numbers.ts`: the registry
against the account at the provider, every handler split at its awaits. A purchase
may be answered without the number's id; its row then has no provider_ref (`NoRef`),
and a release drops it without asking the provider. `lost` collects the numbers that
a purchase cut short, DELETE, or such a release makes the registry forget, and which
nothing in the code could get back.

These four and FlowConfig touch none of each other's state; `MCHelpers` explores
them side by side, one of them per behaviour (`focus`).

`MC*` modules hold the values of operator-like constants for TLC;
`WorkerSession` needs none. Definitions whose name ends in
`M` or `M1`… are mutated forms of the definition before which they stand, used to
see that each property can fail; the specifications do not use them.

## 3. What is checked

| Run | Instance | Question | Result |
|---|---|---|---|
| calls | 1 immediate and 1 scheduled call, 1 cancelable, 1 scheduler and 2 drainer ticks that may overlap, 2 jobs, 1 slot, 1 fault | dialed at most once, not early, never after expiry, never requeued, but for rows two ticks had at once | holds, 2.2 M states |
| calls_live | scheduled + browser + inbound call, a project limit and a tenant's daily ceiling, cancel, 1 fault, reports in order | nothing parked for ever; every row settles if nothing failed | holds, @LIVE@ states |
| webhooks | 2 events, 2 endpoints, one filtered from one event, one unsafe and deletable, 2 attempts, LIMIT 1, 1 fault | bounded posts, true outcome, quiet once settled, every delivery settles | holds, 396 k states |
| session | 2 hangups + not-live path, 3 faults, humans who need not hang up | one completion, always; every line is taken down, but for three named cases | holds, @SESSION@ states |
| objectives | 3 nodes, 2 questions and their aggregate, known as a whole or not, 2 entries, 2 turns, 2 attempts, verdicts of 2 checks, 1 fault | every turn judged, a node is left when settled, no answer lost, aggregates follow their parts | holds, 3.4 M states |
| flow | 15 nodes: 2 routers in a ring, statements, tags, every kind of transfer (one leads to others), 3 handoffs (one to an agent without a flow), park with 2 scenarios; 2 turns, 1 fault | guards match, pending has a move, every move lands, goodbyes and parks end | holds, 169 k states |
| versions | 1 agent, 2 clients, an optional key, 2 values, 3 versions | the row is the newest version; the handlers implement the catalog | holds, 197 k states |
| convo | 2 requests at once, 3 in all, 2 agents that hand over to each other, 3 configs, flows of 9 and 3 nodes, 1 edit per agent | row stays in its flow, questions end, every message is answered | holds, 1.1 M states |
| helpers | the five small parts, see below | no number forgotten, summaries reach the agent, language, stale limits, pruning | holds, @HELPERS@ states |
| calls_canceled | 1 call, 1 cancel, no faults | a canceled call is not dialed | **violated** |
| calls_leak | 1 call, no faults | a live row has a session | **violated** |
| obj_wedge | as objectives | what was skipped gates nothing | **violated** |

The violated ones are claims of the code's own comments; `PROJECT.json` quotes
them under `findings`. In short:

1. `dispatchOutbound` reads the status and dials some awaits later; a cancel in
   between is answered with success and the phone rings all the same.
2. `call.started` is sent without waiting; if `/complete` overtakes it, the row
   is `active` for ever and one slot of every limit on it is gone.
3. An objective that was skipped after its last attempt leaves an aggregate built
   from it that can be neither met nor skipped; a required one holds its node for
   the rest of the call.

**Further configurations.** These check one more property each of the same
modules, which TLC finds violated; they are kept to be run by hand
(`tlc -config <cfg> <module>`).

| Configuration, module | Property | What happens |
|---|---|---|
| MCCallsPatience, MCCallLifecycle | FullPatience | The age of a parked call counts from its creation: one scheduled for later may be expired by the first tick after it was parked (outbound.ts:246). |
| MCCallsOverlap, MCCallLifecycle | ExpiredNeverDialedAtAll | Two overlapping drainer ticks: one dispatches a row that the other expires (outbound.ts:240). |
| MCWebhooksLost, MCWebhookDelivery | AtLeastOnce | An endpoint deleted during the fan-out costs the other endpoints the event, and the process (webhooks.ts:37). |
| MCSessionFlush, WorkerSession | FlushFirst | A second `hangUp` deletes the room while the first one's flush is in flight (session-lifecycle.ts:546). |
| MCFlowStuck, MCFlowRuntime | PendingAlwaysMoves | In a run in which nothing throws, a simulated transfer that leads to another one (transfer.ts:306) or a handoff to a config without a flow (assemble.ts:341) leaves transitionPending up, and `end_call` is refused. |
| MCVersionsRestore, MCAgentVersions | RestoreRestores | A restore is a merge: keys that came after the restored version survive it (agents.ts:254). |
| MCConvoRevived, MCConvoRunner | EndedStaysEnded | A turn that was under way when the conversation was ended writes it back to active (convo-runner/index.ts:480). |
| MCObjectivesPartial, MCObjectives | AggregateSaysParts | An aggregate met as a whole and corrected through one part keeps its value when the other part gets its first answer: completeAggregates leaves what is met alone, and recomposeAggregates runs for corrections only (objectives.ts:453, 487). |
| MCObjectivesPending, MCObjectives | PendingCoversCommit | The flag of a committed transition is cleared by the entry of another node (context.ts:284). |

One more such property has no configuration of its own: `ReleaseGivesBack`
(NumberRegistry; put it for the INVARIANTS of MCHelpers.cfg) says that a release that
succeeds has given the number back, which a null provider_ref makes false
(numbers.ts:123, 145).

**Bounds.** A violation of the call properties needs two holders of one row: the
creating handler, the scheduler, two drainer ticks and a cancel are all present in
calls, with a second call to compete for the slot; a second fault adds
nothing new after a crash has put all threads back. Two jobs are what it takes
to see a second agent. One slot makes every admission contended. Webhooks: LIMIT
1 with two endpoints makes every batch full; two attempts have a first, a retry
and a last. Session: two hangups and the not-live path are three, and
`complete()` tells only the first from the others; three faults are a flush and
both deletes of the room. Objectives: two entries are a
node and the next one whose tracker the old passes and writes could disturb; two
turns are one that starts a pass and one that comes during it; two words make a
correction; two checks are about two objectives or twice about one. Flow: the ring of routers is longer than the five hops; two turns are
a first and a second goodbye; one handoff is within the limit and the next beyond
it. The graph has every kind of node, of transfer and of exit.
Versions: two clients with three versions have every order of two reads and two
writes after a first edit. Convo: two requests at once are what a lost update
takes, a third arrives at what they leave. Helpers: three intervals of two turns,
so that a boundary passes during a refresh that was itself run again; scores up
to 4 are below, at and above both margins of the detector; two checkers, two
tables and two periods of the cache; every flow of three nodes that an editor can
make of the first one, valid or not; two handlers and two numbers. Worker jobs
and requests are interchangeable: calls and convo (safety only) use
symmetry on them. StaleAtMostTtl is a bound that Ttl alone would nearly give: what
the invalidation adds is that the clock starts at the write, not at the last fill. Deadlock is not checked: a settled system has nothing to do.

**Fairness.** calls_live: intervals keep firing, awaited statements return, time
passes, every job ends (`maxCallTimer` in the worker) and its reports arrive.
Nobody has to post, cancel or join. EveryCallSettles speaks of behaviours in which
nothing fails, and no `call.started` is late in this run: calls_leak shows that it
is false otherwise; ParkedLeaves holds under the fault as well. webhooks: the loop, emitters and deletions continue, backoffs end;
faults are not fair. session: awaited calls return, the max-duration timer
fires, the SDK closes a session whose room is gone and shuts its job down, and
LiveKit removes an empty room; no human has to hang up. EveryLineDrops is therefore a
claim about the engine alone, and names the three cases in which a line stays up:
merged with a colleague; both deletes of the room refused (session-lifecycle.ts:601);
an error that closed the session before anything called `state.hangUp`, as the Close
handlers clear the timers and delete no room. flow: the engine's own awaits return and its timers fire
(`Enter`, `TimePasses`, `Goodbye`, `ParkTimeout`, `MoveStep`), the model that
thinks the call is over keeps calling `end_call`, and the caller says something
while turns are left; nobody has to take an exit tool or commit a verdict.
GoodbyeEndsCall is a claim about exactly such a model, and no router, exit or
transfer is assumed to choose well. It and ParkedCloses leave out the calls that are
`stranded` for good: there nothing in the engine goes on.

## 4. What is proved

`CallLifecycleProofs` proves, for any number of calls of each kind, of ticks that
overlap, of jobs and faults, and any limits:

* `TypeCorrect`, `DialedAtMostOnce`, `ExpiryIsSafe`, `DialedOnTime` and
  `EndedStaysOffTheLine`, i.e. `TypeOK`, `AtMostOnceDialed`, `ExpiredNeverDialed`,
  `NotDialedEarly` and `NeverRequeued`.

None of them is inductive alone. The invariant `IInv` says who may touch a row:
a row that waits to be dialed is *held* by at most one thread (`Alone`), a held
row has the status its holder relies on (`StatusOfHeld`) and has no job and no
leg yet (`Fresh`), an expired row is untouched and held by nobody (`Expiry`), and a
scheduled row that is held or parked is due (`Ripe`). `dispatchOutbound`'s read and write are not
atomic, so it is `Alone`, not the status, that excludes the second dispatch. A
cancel does not hold a row, and `StatusOfHeld` allows for it. All this is said of
rows that were never `contested`: one is as soon as a tick selects it while another
tick of the interval has it, so what an overlap can break is confined to the rows the
two share, and the rest of their lists stays safe. That the exception is needed is
`MCCallsOverlap.cfg`; NotDialedEarly and TypeOK hold of contested rows too.

`WorkerSessionProofs` proves, without further assumptions, `TypeCorrect` and
`ReportedOnce`: `Counting` ties the number of reports to the flag, so whoever
finds the flag unset is the first.

`AgentVersionsProofs` proves, for any agents, clients, configs and patches,
`NewestSafe` (`RowIsNewest`) and `Implements` (`ImplementsCatalog`). The handlers
write without looking at the row again, so neither is inductive. `IInv` adds that
exactly the versions up to the row's are stored (`Tables`), that a handler counted
at most one version ahead of the row (`Counted`), that drafts are patches
(`Drafts`), and, the heart, that a handler whose version is still free writes a
change of what the row holds *now* (`Edited`): whoever took the version in between
also made the handler's INSERT fail. Every step is then either a creation, one
more version that is a change of the last, or something beside the history
(`HandlerStep`), and each of these is a step or a stutter of the catalog
(`TablesSimulate`). It needs only `Shape`: complete configs and patches are
configs.

`WebhookDeliveryProofs` proves, for any events, endpoints, filters, batch size and
faults, `TypeCorrect`, `PostsBounded`, `OutcomeTrue` and the action property
`QuietOnceSettled`. `IInv` adds to the types that a delivery still to be inserted
is no row yet (`Once`), that what is due is pending and pending rows have attempts
left (`Waiting`), that the loop holds each row once and what it holds is pending or
was deleted meanwhile (`Batched`), and the heart: a request is either counted in
`attempts`, or the one in flight, or was cut off by an interruption, and every
attempt had its request (`Counted`, `Attempted`).

`ObjectivesProofs` proves, for any flow, words and faults, `TypeCorrect`, `Heeded`
(`TurnsJudged`), `LeavesInTime` (`LeavesWhenSettled`) and `NothingLost`
(`NoSilentLoss`), and `AggregatesFollow` (`AggregateFresh`), aggregates that skipIfKnown
met from the CRM as a whole included: those follow their parts from the first pass
that corrects one of them. `IInv` speaks of one runtime object at a time
(`Tracked`), as the code keeps one per entry. It says that a pass that runs means
that the exit is not committed, that without a rerun to come the last pass covered
every turn, and that an exit is committed exactly when the required objectives are
settled; and of the progress (`Sound`) that attempts are within bounds (`Spent`),
that what was taken is landed, under way or failed (`Kept`), and that a met
aggregate that `follows` its parts says what they say (`Composed`). What a verdict does is proved for
any sequence of checks by induction on their number.

`FlowRuntimeProofs` proves, for any flow, that a chain of silent nodes ends within
its hops at a node of the kind it reports (`WalkEnds`), `TypeCorrect`, `GuardsTrue`
(`GuardsMatch`) and `PendingUnderWay` (`PendingHasMove`). No flow is left out: a
transfer that leads to another transfer ("a transfer chaining into another transfer is
not supported", transfer.ts:306: the second does nothing) and a handoff to an agent
without a flow (assemble.ts:341) do leave transitionPending up, and PendingHasMove
says so (`stranded`, until the next node enters). `IInv` (`AgentsOK`,
`MovesOK`, `CallOK`, `RestOK`, `Guarded`) ties each guard to the moves that hold it
and bounds how many there are.

`ConvoRunnerProofs` proves, for any agents, flows the schema accepts, edits and
number of requests at once:

* `TypeCorrect`, `InItsFlow` (`StandsInItsFlow`) and `EveryoneAnswered`
  (`Answered`). Persist writes back a copy that may be older than any number of
  turns, ends and edits, so `IInv` says the same of the row and of every copy a
  request holds (`Rows`, `Requests`): it is `RowOK`, i.e. agent, version, node and
  progress belong together. Histories only grow (`Grown`), so no edit disturbs
  that. `ResultsOK` shows that every way through a turn (`HopOK`, `ResolveOK`,
  `OnwardOK`, `AdvanceOK`, `LeaveOK`, `SwitchOK`) keeps it and ends with an answer.
* `LeftInTime` (`AskedWithinLimit`), for the entry of every agent's flow, counted from
  when the agent took over, so that a hand-back starts anew. `Patience` says of the
  row and of every copy that each turn counted since then has burnt an attempt
  (`Burnt`), with one still owed between Load and Run; that sums of attempts stay
  below sums of limits is by `TotalOneMore` and `TotalLess`.
* `LeadsPast` (`PruneLeadsPast`) and `PrunedStaysValid` (`PruneStaysValid`), for
  every flow the schema accepts: the recursion of `pruneFlowForChannel` terminates
  and finds what walking as many primary exits as there are nodes finds
  (`PastCutWalks`, `WalksAlike`), and what is left is again a valid flow. The proofs
  about the runner rest on this: text conversations run pruned flows.

`HelpersProofs` proves the properties of the small parts, each for all values of
its constants: `LimitsFresh` (`StaleAtMostTtl`; the invariant bounds the expiry of
an entry by the age of its SELECT), `SummaryReaches` (`SummaryCatchesUp`) and
`SummaryIsTold` (`AgentIsTold`: while a refresh waits for the agent its summary is the
newest there is, and an agent that is being built is either told of it by the splice
after its arrival or has it in its prompt), `NumbersKept` (NumberRegistry), `DetectsWinner`, i.e. that
`Detect`'s single pass finds the `Winner` for any languages and scores, and
`LanguageSwitches` (`LanguageFollows`).

Assumptions on constants (`Kinds`, `Limits`, `Names`, `Bounds`, `Filters`,
`Lists`, `Shape`, `CacheShape`, `MemoryShape`, `LanguageShape`, `RegistryShape`) only
say that sets are disjoint, bounds are numbers, tables are functions and flows are
what the schema accepts; TLC evaluates them in each run.

Induction on data is not available from the library's theorems here. Where a
definition recurses (`PastCut`, `At`, `Total`, `ApplyChecks`, `Detect`), the proofs
show that the recursive function exists and reason by the least number at which a
claim would fail (`LeastNumber`, `InductionUpTo`).

Only model-checked: all liveness (`ParkedLeaves`, `EveryCallSettles`,
`EveryDeliverySettles`, `AlwaysReported`, `EveryLineDrops`, `EveryMoveLands`,
`GoodbyeEndsCall`, `ParkedCloses`), which TLAPS cannot prove under fairness here.
Every safety property of the passing runs has a theorem.

## 5. Not modelled, and plan

Not modelled, and why:

* **Post-call pipeline and usage**: one row per report, LLM summaries, additive
  metering; nothing it writes is read by another component.
* **Authentication, admin, worker entry point, tool proxying, AI log**: one
  request, one answer, no state over time.
* **Prompts, audio, egress, recording, formatting**: text and media.
* **Kit, examples, scripts** and the vendored copy of `packages/shared`: outside
  the engine.
* The **PATCH routes of numbers** and the search: they change columns nothing
  here relates.
* **Strings**: `hmac`, `slugify` and the URL rules are pure string functions; the
  refusals of `assertSafeUrl` are in WebhookDelivery.
* Parts of modelled components that are left out are named in section 2 and in
  the notes of `PROJECT.json`: the conversation timer, a second flow's own
  trackers after a handoff, `meterTurn`.

Next, in this order:

1. Abstract specifications, with the refinement proved: a *call* as its customer
   sees it (created, ringing, over) that CallLifecycle implements for rows that were
   never contested; a completion as one atomic report that WorkerSession implements.
2. FlowRuntime with the hooks' owner as state, so that the moves of an old flow
   after a handoff are covered, and composed with Objectives and with the hangups
   of WorkerSession (the merged line of a warm transfer must survive its timers).
