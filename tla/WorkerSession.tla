---------------------------- MODULE WorkerSession ----------------------------
(***************************************************************************)
(* One job of the worker: startSession and what may end the call.  The     *)
(* flow, three timers and the not-live path call state.hangUp, which       *)
(* flushes the completion, closes the session and deletes the room, each   *)
(* step awaited.  The session's Close handler and the job's shutdown       *)
(* callback flush too, and all of them share the flag state.completed.     *)
(* (call.started, which nothing here waits for, is in CallLifecycle.)      *)
(***************************************************************************)
EXTENDS Naturals, FiniteSets

CONSTANTS
  Hangup,      \* calls of state.hangUp by the flow and by timers (a bound)
  Unanswered,  \* the call of state.hangUp on startSession's not-live path
  MaxFaults    \* bound on requests that fail

ASSUME Names  == Unanswered \notin Hangup
ASSUME Bounds == MaxFaults \in Nat

Hangups == Hangup \cup {Unanswered}
Flusher == Hangups \cup {"nobody", "handler", "shutdown"}

VARIABLES
  run,        \* startSession: where its own thread is
  hang,       \* hang[h]: where that call of state.hangUp is
  session,    \* the AgentSession
  erred,      \* history: an unrecoverable error closed it
  timers,     \* the timers that are armed
  completed,  \* state.completed
  reports,    \* completion requests sent
  flush,      \* the last of them
  flusher,    \* who awaits it
  room,       \* the LiveKit room
  caller,     \* the human
  merged,     \* a warm transfer has connected the caller to a colleague
  job,        \* the job process; "draining" runs the shutdown callback
  faults

flushing == <<completed, reports, flush, flusher>>
vars     == <<run, hang, session, erred, timers, flushing, room, caller, merged, job, faults>>

TypeOK ==
  /\ run \in {"starting", "waiting", "flush", "up", "over"}
  /\ hang \in [Hangups -> {"idle", "flush", "close", "closing", "delete", "retry", "done"}]
  /\ session \in {"fresh", "open", "closing", "closed"}
  /\ erred \in BOOLEAN
  /\ timers \subseteq {"maxCall", "silence", "noProgress"}
  /\ completed \in BOOLEAN
  /\ reports \in Nat
  /\ flush \in {"none", "flying", "received", "failed", "killed"}
  /\ flusher \in Flusher
  /\ room \in {"open", "deleted"}
  /\ caller \in {"absent", "ringing", "there", "gone"}
  /\ merged \in BOOLEAN
  /\ job \in {"running", "draining", "dead"}
  /\ faults \in 0 .. MaxFaults

\* The handlers are registered and maxCallTimer is armed before channel.start.
Init ==
  /\ run = "starting"
  /\ hang = [h \in Hangups |-> "idle"]
  /\ session = "fresh" /\ erred = FALSE
  /\ timers = {"maxCall"}
  /\ completed = FALSE /\ reports = 0 /\ flush = "none" /\ flusher = "nobody"
  /\ room = "open" /\ caller = "absent" /\ merged = FALSE /\ job = "running"
  /\ faults = 0

Alive == job # "dead"
Fault == faults < MaxFaults /\ faults' = faults + 1

-----------------------------------------------------------------------------
(* complete() *)

\* Mutant: the flag is not tested.
CompleteM(x) ==
  /\ completed' = TRUE /\ reports' = reports + 1
  /\ flush' = "flying" /\ flusher' = x

\* x calls complete(); only the first caller sends the report and awaits it.
Complete(x) ==
  IF completed THEN UNCHANGED flushing
  ELSE /\ completed' = TRUE /\ reports' = reports + 1
       /\ flush' = "flying" /\ flusher' = x

\* x called complete() and awaits it still.
Awaits(x) == flusher = x /\ flush = "flying"

FlushAnswered ==
  /\ Alive /\ flush = "flying"
  /\ flush' = "received"
  /\ UNCHANGED <<run, hang, session, erred, timers, completed, reports, flusher, room, caller, merged, job, faults>>

FlushFails ==
  /\ Fault
  /\ Alive /\ flush = "flying"
  /\ flush' = "failed"
  /\ UNCHANGED <<run, hang, session, erred, timers, completed, reports, flusher, room, caller, merged, job>>

-----------------------------------------------------------------------------
(* state.hangUp *)

\* It is called: flush first.
Begin(h) ==
  /\ hang[h] = "idle"
  /\ Complete(h)
  /\ hang' = [hang EXCEPT ![h] = IF completed THEN "close" ELSE "flush"]

\* The flow ends the call: end_call, a terminal node, a cold transfer.
FlowHangsUp(h) ==
  /\ Alive /\ h \in Hangup
  /\ session = "open"
  /\ Begin(h)
  /\ UNCHANGED <<run, session, erred, timers, room, caller, merged, job, faults>>

\* max_duration, silence_timeout or no_progress.
TimerFires(h) ==
  /\ Alive /\ h \in Hangup
  /\ \E t \in timers : timers' = timers \ {t}
  /\ Begin(h)
  /\ UNCHANGED <<run, session, erred, room, caller, merged, job, faults>>

\* Mutant: what became of the flush is taken for the next step.
HangFlushedM(h) ==
  /\ Alive /\ hang[h] = "flush" /\ ~ Awaits(h)
  /\ hang' = [hang EXCEPT ![h] = flush]
  /\ UNCHANGED <<run, session, erred, timers, flushing, room, caller, merged, job, faults>>

\* A flush that failed is caught.
HangFlushed(h) ==
  /\ Alive /\ hang[h] = "flush" /\ ~ Awaits(h)
  /\ hang' = [hang EXCEPT ![h] = "close"]
  /\ UNCHANGED <<run, session, erred, timers, flushing, room, caller, merged, job, faults>>

\* session.close(), which has nothing to do for a session that is not started.
HangClose(h) ==
  /\ Alive /\ hang[h] = "close"
  /\ hang' = [hang EXCEPT ![h] = IF session \in {"open", "closing"} THEN "closing" ELSE "delete"]
  /\ session' = IF session = "open" THEN "closing" ELSE session
  /\ UNCHANGED <<run, erred, timers, flushing, room, caller, merged, job, faults>>

HangClosed(h) ==
  /\ Alive /\ hang[h] = "closing" /\ session = "closed"
  /\ hang' = [hang EXCEPT ![h] = "delete"]
  /\ UNCHANGED <<run, session, erred, timers, flushing, room, caller, merged, job, faults>>

\* Nobody is in a room that is deleted: the SDK closes the session.
Vacate ==
  /\ room' = "deleted"
  /\ session' = IF session = "open" THEN "closing" ELSE session
  /\ caller' = IF caller \in {"ringing", "there"} THEN "gone" ELSE caller

HangDelete(h) ==
  /\ Alive /\ hang[h] \in {"delete", "retry"}
  /\ hang' = [hang EXCEPT ![h] = "done"]
  /\ Vacate
  /\ UNCHANGED <<run, erred, timers, flushing, merged, job, faults>>

\* Mutant: no retry.
DeleteFailsM(h) ==
  /\ Fault
  /\ Alive /\ hang[h] \in {"delete", "retry"}
  /\ hang' = [hang EXCEPT ![h] = "done"]
  /\ UNCHANGED <<run, session, erred, timers, flushing, room, caller, merged, job>>

\* One retry, a second later.
DeleteFails(h) ==
  /\ Fault
  /\ Alive /\ hang[h] \in {"delete", "retry"}
  /\ hang' = [hang EXCEPT ![h] = IF @ = "delete" THEN "retry" ELSE "done"]
  /\ UNCHANGED <<run, session, erred, timers, flushing, room, caller, merged, job>>

-----------------------------------------------------------------------------
(* startSession *)

StartOk ==
  /\ Alive /\ run = "starting"
  /\ run' = "waiting"
  /\ session' = IF room = "open" THEN "open" ELSE "closing"
  /\ UNCHANGED <<hang, erred, timers, flushing, room, caller, merged, job, faults>>

\* channel.start rejects, and startSession with it.
StartFails ==
  /\ Fault
  /\ Alive /\ run = "starting"
  /\ run' = "over"
  /\ UNCHANGED <<hang, session, erred, timers, flushing, room, caller, merged, job>>

\* waitUntilLive: live.  Whether the session is still open is not asked.
Answered ==
  /\ Alive /\ run = "waiting" /\ caller = "ringing"
  /\ run' = "up"
  /\ caller' = "there"
  /\ timers' = timers \cup {"silence", "noProgress"}
  /\ UNCHANGED <<hang, session, erred, flushing, room, merged, job, faults>>

\* waitUntilLive: not live, because of a timeout or a disconnect while ringing.
NotLive ==
  /\ Alive /\ run = "waiting"
  /\ Complete(Unanswered)
  /\ IF completed
     THEN run' = "over" /\ hang' = [hang EXCEPT ![Unanswered] = "close"]
     ELSE run' = "flush" /\ UNCHANGED hang
  /\ UNCHANGED <<session, erred, timers, room, caller, merged, job, faults>>

\* A flush that fails here is not caught: state.hangUp is not reached.
NotLiveFlushed ==
  /\ Alive /\ run = "flush" /\ ~ Awaits(Unanswered)
  /\ run' = "over"
  /\ hang' = IF flush = "received" THEN [hang EXCEPT ![Unanswered] = "close"] ELSE hang
  /\ UNCHANGED <<session, erred, timers, flushing, room, caller, merged, job, faults>>

\* The conversation goes on: a turn or some progress restarts a timer that fired.
TimersReset ==
  /\ Alive /\ run = "up" /\ session = "open"
  /\ timers' = timers \cup {"silence", "noProgress"}
  /\ timers' # timers
  /\ UNCHANGED <<run, hang, session, erred, flushing, room, caller, merged, job, faults>>

\* warmTransfer: both parties are connected, the agent leaves them alone.
CallsMerge ==
  /\ Alive /\ run = "up" /\ session = "open" /\ caller = "there"
  /\ merged' = TRUE
  /\ session' = "closing"
  /\ UNCHANGED <<run, hang, erred, timers, flushing, room, caller, job, faults>>

-----------------------------------------------------------------------------
(* The SDK, LiveKit, the human. *)

\* The session has closed: both Close handlers.
Closed ==
  /\ Alive /\ session = "closing"
  /\ session' = "closed"
  /\ Complete("handler")
  /\ timers' = {}
  /\ UNCHANGED <<run, hang, erred, room, caller, merged, job, faults>>

\* An unrecoverable error of the pipeline closes the session.
SessionErrs ==
  /\ Alive /\ session = "open"
  /\ session' = "closing"
  /\ erred' = TRUE
  /\ UNCHANGED <<run, hang, timers, flushing, room, caller, merged, job, faults>>

CallerRings ==
  /\ caller = "absent" /\ room = "open"
  /\ caller' = "ringing"
  /\ UNCHANGED <<run, hang, session, erred, timers, flushing, room, merged, job, faults>>

CallerLeaves ==
  /\ caller \in {"ringing", "there"}
  /\ caller' = "gone"
  /\ session' = IF session = "open" /\ Alive THEN "closing" ELSE session
  /\ UNCHANGED <<run, hang, erred, timers, flushing, room, merged, job, faults>>

\* Somebody else deletes the room: the gateway cancels the call.
RoomCanceled ==
  /\ room = "open"
  /\ Vacate
  /\ UNCHANGED <<run, hang, erred, timers, flushing, merged, job, faults>>

\* LiveKit closes a room that the human has left.
RoomEmpties ==
  /\ room = "open" /\ caller = "gone"
  /\ Vacate
  /\ UNCHANGED <<run, hang, erred, timers, flushing, merged, job, faults>>

\* Mutant: no shutdown callback.
JobShutsDownM ==
  /\ job = "running" /\ room = "deleted"
  /\ job' = "draining"
  /\ UNCHANGED <<run, hang, session, erred, timers, flushing, room, caller, merged, faults>>

\* The room is gone: the job shuts down and runs its callback, complete().
JobShutsDown ==
  /\ job = "running" /\ room = "deleted"
  /\ job' = "draining"
  /\ Complete("shutdown")
  /\ UNCHANGED <<run, hang, session, erred, timers, room, caller, merged, faults>>

\* The callback has returned: the process exits, with a request it is not waiting for.
JobExits ==
  /\ job = "draining" /\ ~ Awaits("shutdown")
  /\ job' = "dead"
  /\ flush' = IF flush = "flying" THEN "killed" ELSE flush
  /\ UNCHANGED <<run, hang, session, erred, timers, completed, reports, flusher, room, caller, merged, faults>>

-----------------------------------------------------------------------------

HangUp(h) ==
  HangFlushed(h) \/ HangClose(h) \/ HangClosed(h) \/ HangDelete(h)

Start == StartOk \/ Answered \/ NotLive \/ NotLiveFlushed

Next ==
  \/ \E h \in Hangups : FlowHangsUp(h) \/ TimerFires(h) \/ HangUp(h) \/ DeleteFails(h)
  \/ Start \/ StartFails \/ TimersReset \/ CallsMerge
  \/ FlushAnswered \/ FlushFails \/ Closed \/ SessionErrs
  \/ CallerRings \/ CallerLeaves \/ RoomCanceled \/ RoomEmpties
  \/ JobShutsDown \/ JobExits

Spec == Init /\ [][Next]_vars

\* Awaited calls return, timers fire, the SDK closes and shuts down and LiveKit
\* removes an empty room.  Nobody has to answer, to leave or to cancel.
Fairness ==
  /\ WF_vars(Start)
  /\ WF_vars(\E h \in Hangup : "maxCall" \in timers /\ TimerFires(h))
  /\ \A h \in Hangups : WF_vars(HangUp(h))
  /\ WF_vars(FlushAnswered)
  /\ WF_vars(Closed)
  /\ WF_vars(RoomEmpties)
  /\ WF_vars(JobShutsDown)
  /\ WF_vars(JobExits)

FairSpec == Spec /\ Fairness

-----------------------------------------------------------------------------
(* Properties. *)

\* Completion is reported once, whatever ends the call: the agent, a timer, the
\* human, an error or a canceled room, in any combination and order.
ReportedAtMostOnce == reports <= 1
AlwaysReported     == <>(reports = 1)

\* LiveKit refused to delete the room twice: that call of state.hangUp gives up.
GaveUp == faults >= 2 /\ \E h \in Hangups : hang[h] = "done" /\ room = "open"

\* Who is on the line is taken off it, also when nobody hangs up: whatever
\* startSession, the flow, the timers and failing requests do, also when
\* startSession fails or the flush of the not-live path fails and state.hangUp is
\* not reached there.  A line stays up in three cases only: a colleague has
\* taken it over; both deletes of the room failed; or an error closed the session
\* before any call of state.hangUp, and the Close handlers cleared the timers.
EveryLineDrops ==
  caller \in {"ringing", "there"} ~>
    [](\/ caller = "gone" \/ merged \/ GaveUp
       \/ erred /\ \A h \in Hangups : hang[h] = "idle")

\* The comments claim (session-lifecycle.ts:577) that the completion is flushed
\* before the room is deleted, which kills any request in flight: state.hangUp
\* does not delete the room while the report is under way.
FlushFirst ==
  [][\A h \in Hangups :
       hang[h] \in {"delete", "retry"} /\ hang'[h] = "done" /\ room' # room
         => flush # "flying"]_vars
=============================================================================
