--------------------------- MODULE WebhookDelivery ---------------------------
(***************************************************************************)
(* Events out: emitEvent writes one pending row of webhook_deliveries for  *)
(* every endpoint whose filter matches, and processPendingDeliveries, the  *)
(* only drain loop of the process, posts the due rows and reschedules the  *)
(* failures.  Customers register and delete endpoints meanwhile, consumers *)
(* fail or answer too late, and the process may die at any await.          *)
(***************************************************************************)
EXTENDS Naturals, Sequences

CONSTANTS
  Event,        \* events that handlers log and emit
  Endpoint,     \* rows of webhook_endpoints, before and after they exist
  Wants,        \* Wants[e]: the endpoints whose event_filter matches e
  Unsafe,       \* endpoints whose URL assertSafeUrl refuses at fetch time
  Batch,        \* LIMIT of the drain loop's query (25)
  MAX_ATTEMPTS, \* the same constant (8)
  MayDelete,    \* bound: the endpoints a customer may delete
  MaxFaults     \* bound on crashes and failed statements

ASSUME Filters == Wants \in [Event -> SUBSET Endpoint]
ASSUME Bounds ==
  /\ Batch \in Nat \ {0}
  /\ MAX_ATTEMPTS \in Nat \ {0}
  /\ MayDelete \subseteq Endpoint
  /\ MaxFaults \in Nat

\* An event has at most one delivery per endpoint.
Delivery == Event \X Endpoint
To(w)    == Event \X {w}

VARIABLES
  endpoint,   \* endpoint[w]: "absent", "enabled" (nothing ever disables one), "deleted"
  deleter,    \* deleter[w]: progress of DELETE /v1/webhooks/:id
  emitter,    \* emitter[e]: progress of emitEvent
  targets,    \* targets[e]: the endpoints its SELECT returned and it has yet to insert
  matched,    \* matched[e]: history, the endpoints that were to get e when it happened
  status,     \* status[d], "none" without a row
  attempts,   \* attempts[d]
  queue,      \* pending rows with next_attempt_at <= now(): <<c, d>> when c is due no
              \* later than d
  pc,         \* the drain loop; "idle" is draining = false
  batch,      \* the rows of its SELECT that it has not finished
  posts,      \* posts[d]: requests sent
  accepted,   \* deliveries some request of which the consumer took
  faults,     \* failures the environment caused
  restarts    \* interruptions of the drain loop or the process, whatever the cause

endpoints == <<endpoint, deleter>>
emission  == <<emitter, targets, matched>>
rows      == <<status, attempts, queue>>
loop      == <<pc, batch>>
traffic   == <<posts, accepted>>
vars      == <<endpoints, emission, rows, loop, traffic, faults, restarts>>

Due == {d \in Delivery : <<d, d>> \in queue}

\* The queue without the rows in gone, and with d behind all the others.
Without(gone) == {q \in queue : q[1] \notin gone /\ q[2] \notin gone}
With(d)       == queue \cup {<<c, d>> : c \in Due \cup {d}}

TypeOK ==
  /\ endpoint \in [Endpoint -> {"absent", "enabled", "deleted"}]
  /\ deleter \in [Endpoint -> {"idle", "rows", "endpoint", "done"}]
  /\ emitter \in [Event -> {"idle", "select", "insert", "done", "lost"}]
  /\ targets \in [Event -> SUBSET Endpoint]
  /\ matched \in [Event -> SUBSET Endpoint]
  /\ status \in [Delivery -> {"none", "pending", "delivered", "failed"}]
  /\ attempts \in [Delivery -> 0 .. MAX_ATTEMPTS]
  /\ queue \subseteq Delivery \X Delivery
  /\ pc \in {"idle", "next", "ok", "error"}
  /\ batch \in Seq(Delivery)
  /\ posts \in [Delivery -> Nat]
  /\ accepted \subseteq Delivery
  /\ faults \in 0 .. MaxFaults
  /\ restarts \in Nat

Init ==
  /\ endpoint = [w \in Endpoint |-> "absent"]
  /\ deleter = [w \in Endpoint |-> "idle"]
  /\ emitter = [e \in Event |-> "idle"]
  /\ targets = [e \in Event |-> {}]
  /\ matched = [e \in Event |-> {}]
  /\ status = [d \in Delivery |-> "none"]
  /\ attempts = [d \in Delivery |-> 0]
  /\ queue = {}
  /\ pc = "idle"
  /\ batch = <<>>
  /\ posts = [d \in Delivery |-> 0]
  /\ accepted = {}
  /\ faults = 0
  /\ restarts = 0

-----------------------------------------------------------------------------
(* Endpoints. *)

Register(w) ==
  /\ endpoint[w] = "absent"
  /\ endpoint' = [endpoint EXCEPT ![w] = "enabled"]
  /\ UNCHANGED <<deleter, emission, rows, loop, traffic, faults, restarts>>

\* The lookup of DELETE /v1/webhooks/:id; without a row it answers 404.
DeleteRead(w) ==
  /\ w \in MayDelete /\ endpoint[w] = "enabled" /\ deleter[w] = "idle"
  /\ deleter' = [deleter EXCEPT ![w] = "rows"]
  /\ UNCHANGED <<endpoint, emission, rows, loop, traffic, faults, restarts>>

\* DELETE FROM webhook_deliveries.
DeleteRows(w) ==
  /\ deleter[w] = "rows"
  /\ status' = [d \in Delivery |-> IF d \in To(w) THEN "none" ELSE status[d]]
  /\ queue' = Without(To(w))
  /\ deleter' = [deleter EXCEPT ![w] = "endpoint"]
  /\ UNCHANGED <<endpoint, emission, attempts, loop, traffic, faults, restarts>>

\* DELETE FROM webhook_endpoints, which the foreign key refuses (a 500) when an
\* emitter has inserted a delivery in between.
DeleteEndpoint(w) ==
  /\ deleter[w] = "endpoint"
  /\ endpoint' = [endpoint EXCEPT
       ![w] = IF \E d \in To(w) : status[d] # "none" THEN @ ELSE "deleted"]
  /\ deleter' = [deleter EXCEPT ![w] = "done"]
  /\ UNCHANGED <<emission, rows, loop, traffic, faults, restarts>>

-----------------------------------------------------------------------------
(* emitEvent. *)

\* A handler logs event e and calls emitEvent without awaiting it.
Happens(e) ==
  /\ emitter[e] = "idle"
  /\ emitter' = [emitter EXCEPT ![e] = "select"]
  /\ matched' = [matched EXCEPT ![e] = {w \in Wants[e] : endpoint[w] = "enabled"}]
  /\ UNCHANGED <<endpoints, targets, rows, loop, traffic, faults, restarts>>

SelectEndpoints(e) ==
  /\ emitter[e] = "select"
  /\ targets' = [targets EXCEPT ![e] = {w \in Wants[e] : endpoint[w] = "enabled"}]
  /\ emitter' = [emitter EXCEPT ![e] = "insert"]
  /\ UNCHANGED <<endpoints, matched, rows, loop, traffic, faults, restarts>>

InsertDelivery(e, w) ==
  /\ emitter[e] = "insert" /\ w \in targets[e]
  /\ endpoint[w] = "enabled"
  /\ targets' = [targets EXCEPT ![e] = @ \ {w}]
  /\ status' = [status EXCEPT ![<<e, w>>] = "pending"]
  /\ queue' = With(<<e, w>>)
  /\ UNCHANGED <<endpoints, emitter, matched, attempts, loop, traffic, faults, restarts>>

EmitEnds(e) ==
  /\ emitter[e] = "insert" /\ targets[e] = {}
  /\ emitter' = [emitter EXCEPT ![e] = "done"]
  /\ UNCHANGED <<endpoints, targets, matched, rows, loop, traffic, faults, restarts>>

-----------------------------------------------------------------------------
(* processPendingDeliveries: from the interval and from emitEvent's          *)
(* setImmediate, and never two at a time.                                    *)

\* Mutant: the rows of the query are not limited to pending ones, so what was
\* delivered comes again.
SelectDueM ==
  /\ pc = "idle"
  /\ \E d \in Delivery : (d \in Due \/ status[d] = "delivered") /\ batch' = <<d>>
  /\ pc' = "next"
  /\ UNCHANGED <<endpoints, emission, rows, traffic, faults, restarts>>

\* b is the answer of ORDER BY next_attempt_at LIMIT n: n due rows, or all of them,
\* with none left out that is due before another.
FirstDue(b, n) ==
  /\ \A i, j \in 1 .. n : i < j => b[i] # b[j] /\ <<b[i], b[j]>> \in queue
  /\ \A d \in Due : \/ \E i \in 1 .. n : b[i] = d
                    \/ n = Batch /\ \A i \in 1 .. n : <<b[i], d>> \in queue

\* A drain that finds nothing due changes nothing.
SelectDue ==
  /\ pc = "idle"
  /\ \E n \in 1 .. Batch : \E b \in [1 .. n -> Due] : FirstDue(b, n) /\ batch' = b
  /\ pc' = "next"
  /\ UNCHANGED <<endpoints, emission, rows, traffic, faults, restarts>>

\* The loop writes what became of delivery d: an UPDATE by id, which finds no
\* row when the endpoint was deleted meanwhile.
Record(d, st) ==
  /\ status' = [status EXCEPT ![d] = IF @ = "none" THEN @ ELSE st]
  /\ attempts' = [attempts EXCEPT ![d] = IF status[d] = "none" THEN @ ELSE @ + 1]
  /\ queue' = Without({d})
  /\ batch' = Tail(batch)
  /\ pc' = "next"

\* assertSafeUrl throws: the delivery fails for good.
Refuse ==
  /\ pc = "next" /\ batch # <<>>
  /\ Head(batch)[2] \in Unsafe
  /\ Record(Head(batch), "failed")
  /\ UNCHANGED <<endpoints, emission, traffic, faults, restarts>>

\* The fetch.  A consumer that took the request may still answer with an error
\* or after DELIVERY_TIMEOUT_MS.
Post ==
  /\ pc = "next" /\ batch # <<>>
  /\ Head(batch)[2] \notin Unsafe
  /\ posts' = [posts EXCEPT ![Head(batch)] = @ + 1]
  /\ \/ accepted' = accepted \cup {Head(batch)} /\ pc' \in {"ok", "error"}
     \/ accepted' = accepted /\ pc' = "error"
  /\ UNCHANGED <<endpoints, emission, rows, batch, faults, restarts>>

\* Mutants: a failure is not counted, gives up too early, or one attempt too late.
RecordPostM1 ==
  /\ pc \in {"ok", "error"}
  /\ status' = [status EXCEPT ![Head(batch)] =
       IF @ = "none" THEN @ ELSE IF pc = "ok" THEN "delivered" ELSE "pending"]
  /\ queue' = Without({Head(batch)})
  /\ batch' = Tail(batch)
  /\ pc' = "next"
  /\ UNCHANGED <<endpoints, emission, attempts, traffic, faults, restarts>>
RecordPostM2 ==
  /\ pc \in {"ok", "error"}
  /\ Record(Head(batch),
       CASE pc = "ok" -> "delivered"
         [] pc = "error" /\ attempts[Head(batch)] + 2 >= MAX_ATTEMPTS -> "failed"
         [] OTHER -> "pending")
  /\ UNCHANGED <<endpoints, emission, traffic, faults, restarts>>

RecordPostM3 ==
  /\ pc \in {"ok", "error"}
  /\ Record(Head(batch),
       CASE pc = "ok" -> "delivered"
         [] pc = "error" /\ attempts[Head(batch)] >= MAX_ATTEMPTS -> "failed"
         [] OTHER -> "pending")
  /\ UNCHANGED <<endpoints, emission, traffic, faults, restarts>>

\* 2xx delivers; the last attempt fails the delivery; others wait their backoff.
RecordPost ==
  /\ pc \in {"ok", "error"}
  /\ Record(Head(batch),
       CASE pc = "ok" -> "delivered"
         [] pc = "error" /\ attempts[Head(batch)] + 1 >= MAX_ATTEMPTS -> "failed"
         [] OTHER -> "pending")
  /\ UNCHANGED <<endpoints, emission, traffic, faults, restarts>>

DrainEnds ==
  /\ pc = "next" /\ batch = <<>>
  /\ pc' = "idle"
  /\ UNCHANGED <<endpoints, emission, rows, batch, traffic, faults, restarts>>

\* The backoff of a rescheduled delivery is over: its next_attempt_at is now.
BecomesDue(d) ==
  /\ status[d] = "pending"
  /\ d \notin Due
  /\ queue' = With(d)
  /\ UNCHANGED <<endpoints, emission, status, attempts, loop, traffic, faults, restarts>>

-----------------------------------------------------------------------------
(* Failures. *)

\* The process dies and starts again: what was in memory is gone.
Restart ==
  /\ emitter' = [e \in Event |-> IF emitter[e] \in {"select", "insert"} THEN "lost" ELSE emitter[e]]
  /\ targets' = [e \in Event |-> {}]
  /\ deleter' = [w \in Endpoint |-> IF deleter[w] = "idle" THEN "idle" ELSE "done"]
  /\ pc' = "idle"
  /\ batch' = <<>>
  /\ restarts' = restarts + 1
  /\ UNCHANGED <<endpoint, matched, rows, traffic>>

\* A crash, or an INSERT of emitEvent that fails: nobody handles the rejection
\* of its promise, which ends a Node process.
Crash ==
  /\ faults < MaxFaults /\ faults' = faults + 1
  /\ Restart

\* The foreign key refuses a delivery to an endpoint that was just deleted.
InsertRefused(e) ==
  /\ emitter[e] = "insert"
  /\ \E w \in targets[e] : endpoint[w] = "deleted"
  /\ Restart
  /\ UNCHANGED faults

\* Mutant: draining is not reset when the loop throws.
DrainFailsM ==
  /\ faults < MaxFaults /\ faults' = faults + 1
  /\ pc # "idle"
  /\ pc' = "stuck"
  /\ batch' = <<>>
  /\ restarts' = restarts + 1
  /\ UNCHANGED <<endpoints, emission, rows, traffic>>

\* A statement of the drain loop throws: the loop ends, the rows stay pending.
DrainFails ==
  /\ faults < MaxFaults /\ faults' = faults + 1
  /\ pc # "idle"
  /\ pc' = "idle"
  /\ batch' = <<>>
  /\ restarts' = restarts + 1
  /\ UNCHANGED <<endpoints, emission, rows, traffic>>

-----------------------------------------------------------------------------

Customer(w) == Register(w) \/ DeleteRead(w)
Delete(w)   == DeleteRows(w) \/ DeleteEndpoint(w)
Emit(e) ==
  SelectEndpoints(e) \/ (\E w \in Endpoint : InsertDelivery(e, w)) \/ EmitEnds(e) \/ InsertRefused(e)
Drain == SelectDue \/ Refuse \/ Post \/ RecordPost \/ DrainEnds

Next ==
  \/ \E w \in Endpoint : Customer(w) \/ Delete(w)
  \/ \E e \in Event : Happens(e) \/ Emit(e)
  \/ \E d \in Delivery : BecomesDue(d)
  \/ Drain \/ DrainFails \/ Crash

Spec == Init /\ [][Next]_vars

\* The interval keeps firing, statements and requests return, time passes.
Fairness ==
  /\ WF_vars(Drain)
  /\ \A e \in Event : WF_vars(Emit(e))
  /\ \A w \in Endpoint : WF_vars(Delete(w))
  /\ \A d \in Delivery : WF_vars(BecomesDue(d))

FairSpec == Spec /\ Fairness

-----------------------------------------------------------------------------
(* Properties. *)

\* A consumer sees at most MAX_ATTEMPTS requests of a delivery, and one more for
\* each time the process or its drain loop was interrupted between a request and
\* the row that counts it.
BoundedPosts ==
  \A d \in Delivery : posts[d] <= MAX_ATTEMPTS + restarts

\* What the table says of a settled delivery is true whatever was interrupted:
\* delivered means that the consumer took it, failed that it had all its
\* attempts or that its URL is refused.
TruthfulOutcome ==
  \A d \in Delivery :
    /\ status[d] = "delivered" => d \in accepted
    /\ status[d] = "failed"    => posts[d] >= MAX_ATTEMPTS \/ d[2] \in Unsafe

\* A delivery that the table has settled is not posted again: the batch the loop
\* is working on has no row that another drain could have settled meanwhile.
SettledStaysQuiet ==
  [][\A d \in Delivery : posts'[d] > posts[d] => status[d] \in {"pending", "none"}]_vars

\* Every delivery that is written is delivered, given up or deleted in the end:
\* endpoints that keep failing cannot starve the others of the LIMIT.
EveryDeliverySettles ==
  \A d \in Delivery : status[d] = "pending" ~> status[d] # "pending"

\* The comments claim (webhooks.ts:7) at-least-once: an endpoint that was there
\* when the event happened, and that nobody asked to delete, gets a delivery,
\* when the process is not even made to crash.
AtLeastOnce ==
  \A e \in Event : emitter[e] \in {"done", "lost"} =>
    \A w \in matched[e] : deleter[w] = "idle" => status[<<e, w>>] # "none"
=============================================================================
