---------------------------- MODULE CallLifecycle ----------------------------
(***************************************************************************)
(* The life of a row of the gateway's calls table: how a call is born      *)
(* (POST /v1/calls, POST /v1/sessions, POST /internal/calls/inbound), how  *)
(* the scheduler and the capacity-queue drainer dispatch it, how a         *)
(* customer cancels it and how the worker reports its start and its end.   *)
(*                                                                         *)
(* Every handler is asynchronous: each database statement and each LiveKit *)
(* request is awaited, and every other handler may run at that point.  So  *)
(* one action is one awaited statement, a handler is a thread with a       *)
(* program counter, and what a handler read earlier is only in its locals. *)
(***************************************************************************)
EXTENDS Naturals, FiniteSets

CONSTANTS
  Immediate,   \* outbound calls posted without a future scheduled_at
  Later,       \* outbound calls posted with a future scheduled_at
  Web,         \* browser sessions
  Inbound,     \* calls that ring one of our numbers
  SchedTick,   \* callbacks of the scheduler's setInterval that may overlap
  DrainTick,   \* callbacks of the drainer's setInterval that may overlap
  Job,         \* worker jobs LiveKit may start (bounds the dispatches)
  Scope,       \* limits in force: project, agent, group and daily ones
  Members,     \* Members[s]: the calls that limit s applies to
  Cap,         \* Cap[s]: its max_concurrent, or its max_per_day
  DailyScope,  \* the limits of Scope that are daily ceilings
  DrainBatch,  \* LIMIT of the drainer's second query (20)
  MayCancel,   \* bound: the calls a customer may cancel
  MaxFaults,   \* bound on crashes, failed statements and lost requests
  InOrder,     \* TRUE: call.started is never overtaken by /complete
  NoCall       \* not a call

Outbound == Immediate \cup Later
Call     == Outbound \cup Web \cup Inbound
Tick     == SchedTick \cup DrainTick
\* The handler that creates a call is named after the call.
Thread   == Call \cup Tick

ASSUME Kinds ==
  /\ Immediate \cap Later = {}
  /\ Outbound \cap (Web \cup Inbound) = {}
  /\ Web \cap Inbound = {}
  /\ SchedTick \cap DrainTick = {}
  /\ Call \cap Tick = {}
  /\ NoCall \notin Call
ASSUME Limits ==
  /\ Members \in [Scope -> SUBSET Call]
  /\ Cap \in [Scope -> Nat]
  /\ DailyScope \subseteq Scope
  /\ DrainBatch \in Nat
  /\ MayCancel \subseteq Call
  /\ MaxFaults \in Nat
  /\ InOrder \in BOOLEAN

VARIABLES
  \* the calls table
  status,     \* status[c], "none" before the INSERT
  parked,     \* rows with queued_reason = 'capacity'
  expired,    \* rows with end_reason = 'queue_expired'
  older,      \* older[c]: the rows created before c (the order of created_at)
  \* the database clock
  due,        \* rows whose scheduled_at has passed
  stale,      \* rows older than QUEUE_EXPIRY_SECONDS
  \* the gateway's handlers
  pc,         \* pc[t]: what thread t does next
  cur,        \* cur[t]: the call it is working on
  todo,       \* todo[t]: rows its SELECT returned that it has not reached
  contested,  \* history: rows that two ticks of one interval had at the same time
  canceler,   \* canceler[c]: progress of POST /v1/calls/:id/cancel
  \* LiveKit and the workers
  legs,       \* legs[c]: how often the phone of c was dialed
  job,        \* job[j]: a worker job
  \* environment
  faults

db    == <<status, parked, expired, older>>
clock == <<due, stale>>
gw    == <<pc, cur, todo, contested>>
vars  == <<db, clock, gw, canceler, legs, job, faults>>

LiveStatus   == {"dialing", "active"}
\* "ended" stands for completed, no_answer and failed, which nothing here tells
\* apart.  'voicemail', which is not counted, is a status that /complete accepts
\* and that the worker never sends.
DailyCounted == LiveStatus \cup {"ended"}
Status       == {"none", "queued", "scheduled", "canceled"} \cup DailyCounted
Cancelable   == {"queued", "scheduled"} \cup LiveStatus

PC == {"idle", "done", "insert", "insert_parked",
       "fire", "park", "expire", "drain", "unpark",
       "dispatch", "flip", "agent", "sip", "fail"}
JobRecord ==
  [call    : Call \cup {NoCall},
   at      : {"free", "waiting", "live", "closing", "over"},
   started : {"unsent", "flying", "received"},
   result  : {"unsent", "flying", "received"}]

TypeOK ==
  /\ status \in [Call -> Status]
  /\ parked \subseteq Call
  /\ expired \subseteq Call
  /\ older \in [Call -> SUBSET Call]
  /\ due \subseteq Later
  /\ stale \subseteq Outbound
  /\ pc \in [Thread -> PC]
  /\ cur \in [Thread -> Call \cup {NoCall}]
  /\ todo \in [Thread -> SUBSET Call]
  /\ contested \subseteq Outbound
  /\ canceler \in [Call -> {"idle", "room", "write"}]
  /\ legs \in [Call -> Nat]
  /\ job \in [Job -> JobRecord]
  /\ faults \in 0 .. MaxFaults

NewJob(c, place) == [call |-> c, at |-> place, started |-> "unsent", result |-> "unsent"]
FreeJob          == NewJob(NoCall, "free")

Init ==
  /\ status = [c \in Call |-> "none"]
  /\ parked = {}
  /\ expired = {}
  /\ older = [c \in Call |-> {}]
  /\ due = {}
  /\ stale = {}
  /\ pc = [t \in Thread |-> "idle"]
  /\ cur = [t \in Thread |-> IF t \in Call THEN t ELSE NoCall]
  /\ todo = [t \in Thread |-> {}]
  /\ contested = {}
  /\ canceler = [c \in Call |-> "idle"]
  /\ legs = [c \in Call |-> 0]
  /\ job = [j \in Job |-> FreeJob]
  /\ faults = 0

-----------------------------------------------------------------------------
(* Admission: checkCapacity. *)

Rows == {c \in Call : status[c] # "none"}

\* What the count query of limit s finds.
Counted(s) ==
  {c \in Members[s] : status[c] \in (IF s \in DailyScope THEN DailyCounted ELSE LiveStatus)}

\* checkCapacity refuses a call that some limit on it blocks.
Full(c) == \E s \in Scope : c \in Members[s] /\ Cardinality(Counted(s)) >= Cap[s]

\* ORDER BY created_at LIMIT n, and the first row of a result in that order.
Oldest(S, n) == {c \in S : Cardinality(older[c] \cap S) < n}
First(S)     == {c \in S : older[c] \cap S = {}}

\* Thread t goes to l with its current call, or takes up call c and goes to l.
Goto(t, l)    == pc' = [pc EXCEPT ![t] = l] /\ UNCHANGED cur
Take(t, c, l) == pc' = [pc EXCEPT ![t] = l] /\ cur' = [cur EXCEPT ![t] = c]

\* The environment spends one of the faults it may cause.
Fault == faults < MaxFaults /\ faults' = faults + 1

\* Tick t has the rows S that its SELECT returned.  setInterval starts a tick
\* whether or not the one before has ended, so a twin may still have some of them.
Twins(t) == (IF t \in SchedTick THEN SchedTick ELSE DrainTick) \ {t}
Receive(t, S) ==
  /\ todo' = [todo EXCEPT ![t] = S]
  /\ contested' = contested \cup {c \in S : \E u \in Twins(t) : c \in todo[u] \/ cur[u] = c}

\* Where the loop of tick t stands when the rows S are left: a loop that has
\* done its last row awaits nothing more, so the tick is over.
Loop(t, S) == IF S = {} THEN "idle" ELSE IF t \in SchedTick THEN "fire" ELSE "drain"

\* Where dispatchOutbound and the loop bodies return to.
After(t) == IF t \in Tick THEN Loop(t, todo[t]) ELSE "done"
Return(t) == Take(t, IF t \in Tick THEN NoCall ELSE t, After(t))

-----------------------------------------------------------------------------
(* Birth of a call: one handler per call, so thread c creates call c. *)

\* INSERT of a row that did not exist.
Insert(c, st) ==
  /\ status' = [status EXCEPT ![c] = st]
  /\ older' = [older EXCEPT ![c] = Rows]
  /\ UNCHANGED expired

\* createOutboundCall with a future scheduled_at: no capacity check now.
PostScheduled(c) ==
  /\ c \in Later /\ pc[c] = "idle"
  /\ Insert(c, "scheduled")
  /\ Goto(c, "done")
  /\ UNCHANGED <<parked, clock, todo, contested, canceler, legs, job, faults>>

\* The check of an immediate call, a session or an inbound call: an outbound
\* call at capacity is parked, a session gets 429, an inbound call a refusal.
CheckBirth(c) ==
  /\ c \notin Later /\ pc[c] = "idle"
  /\ Goto(c, IF ~Full(c) THEN "insert"
             ELSE IF c \in Immediate THEN "insert_parked" ELSE "done")
  /\ UNCHANGED <<db, clock, todo, contested, canceler, legs, job, faults>>

\* POST /v1/agents/:id/test opens a session without a capacity check.
TestSession(c) ==
  /\ c \in Web /\ pc[c] = "idle"
  /\ Goto(c, "insert")
  /\ UNCHANGED <<db, clock, todo, contested, canceler, legs, job, faults>>

\* Mutant: every queued row is marked as parked.
InsertOutboundM(c) ==
  /\ c \in Immediate /\ pc[c] \in {"insert", "insert_parked"}
  /\ Insert(c, "queued")
  /\ parked' = parked \cup {c}
  /\ Goto(c, IF pc[c] = "insert_parked" THEN "done" ELSE "dispatch")
  /\ UNCHANGED <<clock, todo, contested, canceler, legs, job, faults>>

InsertOutbound(c) ==
  /\ c \in Immediate /\ pc[c] \in {"insert", "insert_parked"}
  /\ Insert(c, "queued")
  /\ parked' = IF pc[c] = "insert_parked" THEN parked \cup {c} ELSE parked
  /\ Goto(c, IF pc[c] = "insert_parked" THEN "done" ELSE "dispatch")
  /\ UNCHANGED <<clock, todo, contested, canceler, legs, job, faults>>

\* createWebSession: the row and the token; the browser joins when it likes.
InsertWeb(c) ==
  /\ c \in Web /\ pc[c] = "insert"
  /\ Insert(c, "queued")
  /\ Goto(c, "done")
  /\ UNCHANGED <<parked, clock, todo, contested, canceler, legs, job, faults>>

\* The worker job of an inbound call exists before its row does; the caller is
\* already in the room and call.started is logged here, not by the worker.
InsertInbound(c) ==
  /\ c \in Inbound /\ pc[c] = "insert"
  /\ Insert(c, "active")
  /\ Goto(c, "done")
  /\ \E j \in Job :
       /\ job[j].call = NoCall
       /\ job' = [job EXCEPT ![j] = NewJob(c, "live")]
  /\ UNCHANGED <<parked, clock, todo, contested, canceler, legs, faults>>

-----------------------------------------------------------------------------
(* dispatchOutbound(cur[t]), run by a creating handler or by a tick. *)

DispatchRead(t) ==
  /\ pc[t] = "dispatch"
  /\ IF status[cur[t]] \in {"queued", "scheduled"} THEN Goto(t, "flip") ELSE Return(t)
  /\ UNCHANGED <<db, clock, todo, contested, canceler, legs, job, faults>>

FlipToDialing(t) ==
  /\ pc[t] = "flip"
  /\ status' = [status EXCEPT ![cur[t]] = "dialing"]
  /\ Goto(t, "agent")
  /\ UNCHANGED <<parked, expired, older, clock, todo, contested, canceler, legs, job, faults>>

\* LiveKit starts a worker job for call c.
StartJob(c) ==
  \E j \in Job :
    /\ job[j].call = NoCall
    /\ job' = [job EXCEPT ![j] = NewJob(c, "waiting")]

\* createDispatch. A request that fails or times out may still have worked.
CreateDispatch(t) ==
  /\ pc[t] = "agent"
  /\ \/ StartJob(cur[t]) /\ \E next \in {"sip", "fail"} : Goto(t, next)
     \/ Goto(t, "fail") /\ UNCHANGED job
  /\ UNCHANGED <<db, clock, todo, contested, canceler, legs, faults>>

\* createSipParticipant, which does not wait for the answer.
PlaceLeg(t) ==
  /\ pc[t] = "sip"
  /\ \/ /\ legs' = [legs EXCEPT ![cur[t]] = @ + 1]
        /\ Return(t) \/ Goto(t, "fail")
     \/ Goto(t, "fail") /\ UNCHANGED legs
  /\ UNCHANGED <<db, clock, todo, contested, canceler, job, faults>>

\* The catch block of dispatchOutbound.
MarkFailed(t) ==
  /\ pc[t] = "fail"
  /\ status' = [status EXCEPT ![cur[t]] = "ended"]
  /\ expired' = expired \ {cur[t]}
  /\ Return(t)
  /\ UNCHANGED <<parked, older, clock, todo, contested, canceler, legs, job, faults>>

Dispatch(t) ==
  \/ DispatchRead(t) \/ FlipToDialing(t) \/ CreateDispatch(t)
  \/ PlaceLeg(t) \/ MarkFailed(t)

-----------------------------------------------------------------------------
(* startCallScheduler: one tick of the 5-second interval. *)

\* Mutants: no test of the status, no test of scheduled_at.
DueRowsM1 == {c \in due : status[c] # "none"}
DueRowsM2 == {c \in Later : status[c] = "scheduled"}

\* Scheduled rows whose time has come (LIMIT 10, more than an instance has).
DueRows == {c \in due : status[c] = "scheduled"}

\* A tick that finds no row changes nothing.
SchedSelect(t) ==
  /\ t \in SchedTick /\ pc[t] = "idle"
  /\ DueRows # {}
  /\ Receive(t, DueRows)
  /\ Goto(t, "fire")
  /\ UNCHANGED <<db, clock, canceler, legs, job, faults>>

SchedCheck(t) ==
  /\ pc[t] = "fire"
  /\ \E c \in todo[t] :
       /\ todo' = [todo EXCEPT ![t] = @ \ {c}]
       /\ Take(t, c, IF Full(c) THEN "park" ELSE "dispatch")
  /\ UNCHANGED <<db, clock, contested, canceler, legs, job, faults>>

\* Mutants: the reason is written as the status, or not at all.
ParkForCapacityM1(t) ==
  /\ pc[t] = "park"
  /\ status' = [status EXCEPT ![cur[t]] = "capacity"]
  /\ parked' = parked \cup {cur[t]}
  /\ Return(t)
  /\ UNCHANGED <<expired, older, clock, todo, contested, canceler, legs, job, faults>>
ParkForCapacityM2(t) ==
  /\ pc[t] = "park"
  /\ status' = [status EXCEPT ![cur[t]] = "queued"]
  /\ Return(t)
  /\ UNCHANGED <<parked, expired, older, clock, todo, contested, canceler, legs, job, faults>>

ParkForCapacity(t) ==
  /\ pc[t] = "park"
  /\ status' = [status EXCEPT ![cur[t]] = "queued"]
  /\ parked' = parked \cup {cur[t]}
  /\ Return(t)
  /\ UNCHANGED <<expired, older, clock, todo, contested, canceler, legs, job, faults>>

-----------------------------------------------------------------------------
(* startCallQueueDrainer: one tick of the 10-second interval. *)

\* Mutant: no test of queued_reason.
ParkedRowsM == {c \in Outbound : status[c] = "queued"}

ParkedRows == {c \in parked : status[c] = "queued"}

\* A tick changes nothing unless a row is parked, or will be before it ends.
WorthATick == ParkedRows # {} \/ \E t \in Thread : pc[t] \in {"park", "insert_parked"}

\* Mutant: nothing is ever too old.
ExpireSelectM(t) ==
  /\ t \in DrainTick /\ pc[t] = "idle"
  /\ WorthATick
  /\ Goto(t, "expire")
  /\ UNCHANGED <<db, clock, todo, contested, canceler, legs, job, faults>>

\* Step 1 of a tick (LIMIT 50, more than an instance has).
ExpireSelect(t) ==
  /\ t \in DrainTick /\ pc[t] = "idle"
  /\ WorthATick
  /\ Receive(t, ParkedRows \cap stale)
  /\ Goto(t, "expire")
  /\ UNCHANGED <<db, clock, canceler, legs, job, faults>>

ExpireOne(t) ==
  /\ pc[t] = "expire"
  /\ \E c \in First(todo[t]) :
       /\ status' = [status EXCEPT ![c] = "canceled"]
       /\ parked' = parked \ {c}
       /\ expired' = expired \cup {c}
       /\ todo' = [todo EXCEPT ![t] = @ \ {c}]
  /\ UNCHANGED <<older, clock, pc, cur, contested, canceler, legs, job, faults>>

DrainSelect(t) ==
  /\ pc[t] = "expire" /\ todo[t] = {}
  /\ LET S == Oldest(ParkedRows, DrainBatch) IN Receive(t, S) /\ Goto(t, Loop(t, S))
  /\ UNCHANGED <<db, clock, canceler, legs, job, faults>>

DrainCheck(t) ==
  /\ pc[t] = "drain"
  /\ \E c \in First(todo[t]) :
       /\ todo' = [todo EXCEPT ![t] = @ \ {c}]
       /\ IF Full(c) THEN Goto(t, Loop(t, todo[t] \ {c})) ELSE Take(t, c, "unpark")
  /\ UNCHANGED <<db, clock, contested, canceler, legs, job, faults>>

\* queued_reason = NULL, in a statement of its own before the dispatch.
Unpark(t) ==
  /\ pc[t] = "unpark"
  /\ parked' = parked \ {cur[t]}
  /\ Goto(t, "dispatch")
  /\ UNCHANGED <<status, expired, older, clock, todo, contested, canceler, legs, job, faults>>

-----------------------------------------------------------------------------
(* POST /v1/calls/:id/cancel. *)

\* Deleting the room of call c disconnects its jobs.
Evict(c) ==
  [j \in Job |-> IF job[j].call = c /\ job[j].at \in {"waiting", "live"}
                 THEN [job[j] EXCEPT !.at = "closing"] ELSE job[j]]

CancelRead(c) ==
  /\ c \in MayCancel /\ canceler[c] = "idle"
  /\ status[c] \in Cancelable
  /\ canceler' = [canceler EXCEPT ![c] = "room"]
  /\ UNCHANGED <<db, clock, gw, legs, job, faults>>

CancelRoom(c) ==
  /\ canceler[c] = "room"
  /\ job' = Evict(c)
  /\ canceler' = [canceler EXCEPT ![c] = "write"]
  /\ UNCHANGED <<db, clock, gw, legs, faults>>

\* cancelCall swallows a deleteRoom that fails: the call goes on.
CancelRoomFails(c) ==
  /\ Fault
  /\ canceler[c] = "room"
  /\ canceler' = [canceler EXCEPT ![c] = "write"]
  /\ UNCHANGED <<db, clock, gw, legs, job>>

CancelWrite(c) ==
  /\ canceler[c] = "write"
  /\ status' = [status EXCEPT ![c] = "canceled"]
  /\ expired' = expired \ {c}
  /\ canceler' = [canceler EXCEPT ![c] = "idle"]
  /\ UNCHANGED <<parked, older, clock, gw, legs, job, faults>>

-----------------------------------------------------------------------------
(* Worker jobs, as far as the gateway sees them, and their reports. *)

\* A browser uses its token: LiveKit creates the room and its job again
\* whenever the room is not there.
BrowserJoins(c) ==
  /\ c \in Web /\ pc[c] = "done" /\ status[c] # "none"
  /\ \A j \in Job : job[j].call = c => job[j].at \in {"closing", "over"}
  /\ StartJob(c)
  /\ UNCHANGED <<db, clock, gw, canceler, legs, faults>>

\* The human is there: the worker reports call.started and forgets about it.
GoLive(j) ==
  /\ job[j].at = "waiting"
  /\ job[j].call \in Outbound => legs[job[j].call] > 0
  /\ job' = [job EXCEPT ![j].at = "live", ![j].started = "flying"]
  /\ UNCHANGED <<db, clock, gw, canceler, legs, faults>>

\* The job ends by itself: it flushes the completion and deletes the room.
\* Nobody answered, or the call is over.
Finish(j) ==
  /\ job[j].at \in {"waiting", "live"}
  /\ job' = [Evict(job[j].call) EXCEPT ![j] = [job[j] EXCEPT !.at = "over", !.result = "flying"]]
  /\ UNCHANGED <<db, clock, gw, canceler, legs, faults>>

\* Someone else deleted the room: the session's Close handler flushes, unless
\* the job had not got as far as having a session.
Disconnected(j) ==
  /\ job[j].at = "closing"
  /\ \E r \in {"flying"} \cup (IF job[j].started = "unsent" THEN {"unsent"} ELSE {}) :
       job' = [job EXCEPT ![j].at = "over", ![j].result = r]
  /\ UNCHANGED <<db, clock, gw, canceler, legs, faults>>

\* POST /internal/calls/:id/events with call.started.
ReceiveStarted(j) ==
  /\ job[j].started = "flying"
  /\ status' = [status EXCEPT ![job[j].call] = "active"]
  /\ job' = [job EXCEPT ![j].started = "received"]
  /\ UNCHANGED <<parked, expired, older, clock, gw, canceler, legs, faults>>

\* POST /internal/calls/:id/complete: one transaction.
ReceiveComplete(j) ==
  /\ job[j].result = "flying"
  /\ InOrder => job[j].started # "flying"
  /\ status' = [status EXCEPT ![job[j].call] = "ended"]
  /\ expired' = expired \ {job[j].call}
  /\ job' = [job EXCEPT ![j].result = "received"]
  /\ UNCHANGED <<parked, older, clock, gw, canceler, legs, faults>>

-----------------------------------------------------------------------------
(* Time and faults. *)

BecomesDue(c) ==
  /\ c \in Later \cap Rows /\ c \notin due
  /\ due' = due \cup {c}
  /\ UNCHANGED <<db, stale, gw, canceler, legs, job, faults>>

\* Only the drainer looks at the age of a row, and only while it waits.
GrowsStale(c) ==
  /\ c \in Outbound \ stale /\ status[c] \in {"queued", "scheduled"}
  /\ stale' = stale \cup {c}
  /\ UNCHANGED <<db, due, gw, canceler, legs, job, faults>>

\* What a thread is when its handler is gone: a tick runs again, a request does not.
Gone(t) == IF t \in Tick \/ pc[t] = "idle" THEN "idle" ELSE "done"

GatewayCrash ==
  /\ Fault
  /\ pc' = [t \in Thread |-> Gone(t)]
  /\ todo' = [t \in Thread |-> {}]
  /\ cur' = [t \in Thread |-> IF t \in Tick THEN NoCall ELSE t]
  /\ canceler' = [c \in Call |-> "idle"]
  /\ UNCHANGED <<db, clock, contested, legs, job>>

\* A database statement throws: the request fails, a tick logs the error and ends.
\* At "agent" it is the read of agent_versions, outside dispatchOutbound's try.
StatementFails(t) ==
  /\ Fault
  /\ pc[t] \notin {"idle", "done", "sip"}
  /\ Take(t, IF t \in Tick THEN NoCall ELSE t, Gone(t))
  /\ todo' = [todo EXCEPT ![t] = {}]
  /\ UNCHANGED <<db, clock, contested, canceler, legs, job>>

\* The worker process dies, or one of its reports is lost: neither is retried.
WorkerDies(j) ==
  /\ Fault
  /\ job[j].at \in {"waiting", "live", "closing"}
  /\ job' = [job EXCEPT ![j].at = "over"]
  /\ UNCHANGED <<db, clock, gw, canceler, legs>>

ReportLost(j) ==
  /\ Fault
  /\ \/ job[j].started = "flying" /\ job' = [job EXCEPT ![j].started = "received"]
     \/ job[j].result = "flying" /\ job' = [job EXCEPT ![j].result = "received"]
  /\ UNCHANGED <<db, clock, gw, canceler, legs>>

-----------------------------------------------------------------------------
(* The specification. *)

Birth(c) ==
  \/ PostScheduled(c) \/ CheckBirth(c) \/ TestSession(c)
  \/ InsertOutbound(c) \/ InsertWeb(c) \/ InsertInbound(c)

TickStep(t) ==
  \/ SchedSelect(t) \/ SchedCheck(t) \/ ParkForCapacity(t)
  \/ ExpireSelect(t) \/ ExpireOne(t) \/ DrainSelect(t) \/ DrainCheck(t) \/ Unpark(t)

Cancel(c) == CancelRead(c) \/ CancelRoom(c) \/ CancelRoomFails(c) \/ CancelWrite(c)

JobStep(j) == GoLive(j) \/ Finish(j) \/ Disconnected(j)

Report(j) == ReceiveStarted(j) \/ ReceiveComplete(j)

Next ==
  \/ \E c \in Call : Birth(c) \/ Cancel(c) \/ BrowserJoins(c) \/ BecomesDue(c) \/ GrowsStale(c)
  \/ \E t \in Thread : Dispatch(t) \/ StatementFails(t)
  \/ \E t \in Tick : TickStep(t)
  \/ \E j \in Job : JobStep(j) \/ Report(j) \/ WorkerDies(j) \/ ReportLost(j)
  \/ GatewayCrash

Spec == Init /\ [][Next]_vars

-----------------------------------------------------------------------------
(* Safety. *)

\* One customer, one phone call: however creating handlers, scheduler and drainer
\* ticks, cancellations and crashes interleave, an outbound call gets at most one
\* agent (createDispatch) and its number rings at most once
\* (createSipParticipant).  dispatchOutbound reads the status and only then
\* writes 'dialing', so this rests on who else may hold the row; the one way out
\* is that two overlapping ticks of the same interval both selected it.
AtMostOnceDialed ==
  \A c \in Outbound \ contested :
    /\ legs[c] <= 1
    /\ \A j, k \in Job : job[j].call = c /\ job[k].call = c => j = k

\* A call the drainer gave up on as queue_expired was never dialed, unless two
\* drainer ticks had it at once: the expiry UPDATE has no guard on the status it
\* overwrites.
ExpiredNeverDialed ==
  \A c \in expired \ contested : legs[c] = 0

\* The same without the exception.
ExpiredNeverDialedAtAll ==
  \A c \in expired : legs[c] = 0

\* Only outbound calls are dialed, and one with a scheduled_at not before it has
\* passed, also when it was parked and taken over by the drainer meanwhile.
NotDialedEarly ==
  \A c \in Call : legs[c] > 0 => c \in Immediate \cup due

\* A call that has ended is never put back in the queue or on the line by the
\* gateway (a late call.started can still set it active), unless two ticks of one
\* interval had it at once.
NeverRequeued ==
  [][\A c \in Outbound \ contested :
       status[c] = "ended" => status'[c] \notin {"queued", "scheduled", "dialing"}]_vars

\* The comments claim (concurrency.ts:59) that 'canceled' means never dialed: no
\* phone is made to ring for a row that is already canceled.
NoDialOnceCanceled ==
  [][\A c \in Call : legs'[c] > legs[c] => status[c] # "canceled"]_vars

\* The comments claim (concurrency.ts:10) that a live row holds, or is about to
\* hold, a media session: a thread is dispatching it, or a job of it is running
\* or has a report under way.
Dispatching(c) == \E t \in Thread : cur[t] = c /\ pc[t] \in {"agent", "sip", "fail"}
HasSession(c)  ==
  \E j \in Job : /\ job[j].call = c
                 /\ \/ job[j].at \in {"waiting", "live", "closing"}
                    \/ "flying" \in {job[j].started, job[j].result}
LiveHasSession ==
  \A c \in Call : status[c] \in LiveStatus => Dispatching(c) \/ HasSession(c)

\* The comments claim (env.ts:81) that QUEUE_EXPIRY_SECONDS is how long a call may
\* sit queued at capacity: a call that only now enters the capacity queue has
\* not used that time up already.
FullPatience == [][\A c \in parked' \ parked : c \notin stale]_vars

-----------------------------------------------------------------------------
(* Liveness: every interval keeps firing, every awaited statement and       *)
(* request returns, every job ends (the worker's max_duration timer) and    *)
(* time passes.  Nobody has to post, cancel or join.                        *)

Fairness ==
  /\ \A t \in Thread : WF_vars(Dispatch(t))
  /\ \A t \in Tick : WF_vars(TickStep(t))
  /\ \A c \in Call : /\ WF_vars(InsertOutbound(c) \/ InsertWeb(c) \/ InsertInbound(c))
                     /\ WF_vars(CancelRoom(c) \/ CancelWrite(c))
                     /\ WF_vars(BecomesDue(c))
                     /\ WF_vars(GrowsStale(c))
  /\ \A j \in Job : WF_vars(JobStep(j)) /\ WF_vars(Report(j))

FairSpec == Spec /\ Fairness

\* No call waits in the capacity queue for ever, even when capacity never comes:
\* the drainer dispatches it or expires it.
ParkedLeaves == \A c \in Outbound : c \in ParkedRows ~> c \notin ParkedRows

\* When nothing crashes, no report is lost and none is overtaken, every row of
\* an outbound call comes to a final status and stays there, whatever was
\* canceled, parked or refused by LiveKit on the way: no live slot leaks.
EveryCallSettles ==
  \A c \in Outbound :
    status[c] # "none" ~> [](status[c] \in {"ended", "canceled"} \/ faults > 0)
=============================================================================
