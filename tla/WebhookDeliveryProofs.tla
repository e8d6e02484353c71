------------------------ MODULE WebhookDeliveryProofs ------------------------
(***************************************************************************)
(* What a consumer of events can rely on, for any number of events,        *)
(* endpoints and faults: bounded attempts, a table that tells the truth,   *)
(* and no request after a delivery is settled.                             *)
(*                                                                         *)
(* The heart is Batched: a row the drain loop holds was pending when it    *)
(* was selected and can only have been deleted since.  It rests on Once,   *)
(* since a row that was deleted must not come back as a new one.           *)
(***************************************************************************)
EXTENDS WebhookDelivery, TLAPS

\* A request has been sent for d and what became of it is not written yet.
InFlight(d) == pc \in {"ok", "error"} /\ Head(batch) = d

InBatch(d) == \E i \in 1 .. Len(batch) : batch[i] = d

\* An emitter inserts from its own list, and only what was never inserted.
Once ==
  \A e \in Event : \A w \in Endpoint :
    /\ w \in targets[e] => emitter[e] = "insert"
    /\ emitter[e] \in {"idle", "select"} \/ w \in targets[e] =>
         /\ status[<<e, w>>] = "none" /\ posts[<<e, w>>] = 0
         /\ attempts[<<e, w>>] = 0 /\ ~InBatch(<<e, w>>)

\* What is due is pending, and a pending row has attempts left.
Waiting ==
  /\ \A d \in Due : status[d] = "pending"
  /\ \A d \in Delivery : status[d] = "pending" => attempts[d] < MAX_ATTEMPTS

\* The loop holds each row once, with attempts left; it is still pending, or its
\* endpoint was deleted meanwhile.
Batched ==
  /\ pc = "idle" => batch = <<>>
  /\ pc \in {"ok", "error"} => batch # <<>> /\ Head(batch)[2] \notin Unsafe
  /\ pc = "ok" => Head(batch) \in accepted
  /\ \A i, j \in 1 .. Len(batch) : batch[i] = batch[j] => i = j
  /\ \A i \in 1 .. Len(batch) :
       /\ status[batch[i]] \in {"pending", "none"}
       /\ attempts[batch[i]] < MAX_ATTEMPTS

\* Every request is counted by an attempt, by an interruption, or is in flight; the
\* last one for a row that is gone is not counted.
Counted ==
  \A d \in Delivery :
    /\ InFlight(d) => posts[d] <= attempts[d] + restarts + 1
    /\ ~InFlight(d) /\ (status[d] # "none" \/ InBatch(d)) => posts[d] <= attempts[d] + restarts
    /\ posts[d] <= MAX_ATTEMPTS + restarts

\* Every attempt had its request, unless the URL was refused.
Attempted ==
  \A d \in Delivery : d[2] \notin Unsafe =>
    posts[d] >= attempts[d] + IF InFlight(d) THEN 1 ELSE 0

IInv == TypeOK /\ Once /\ Waiting /\ Batched /\ Counted /\ Attempted /\ TruthfulOutcome

-----------------------------------------------------------------------------
(* Lemmas about the batch *)

\* The first of the batch is one of its rows; the rest is a batch of the others.
LEMMA TheRest ==
  ASSUME TypeOK, batch # <<>>
  PROVE  /\ Len(batch) \in Nat \ {0}
         /\ Head(batch) = batch[1] /\ Head(batch) \in Delivery
         /\ Tail(batch) \in Seq(Delivery) /\ Len(Tail(batch)) = Len(batch) - 1
         /\ \A i \in 1 .. Len(batch) - 1 : Tail(batch)[i] = batch[i + 1]
         /\ \A i \in 1 .. Len(batch) : batch[i] \in Delivery
BY DEF TypeOK

\* A delivery that waits for its emitter is not a row.
LEMMA NotYetARow ==
  ASSUME TypeOK, Once, Waiting, Batched, NEW e \in Event, NEW w \in Endpoint,
         emitter[e] \in {"idle", "select"} \/ w \in targets[e]
  PROVE  <<e, w>> \notin Due /\ ~InFlight(<<e, w>>)
<1>1. <<e, w>> \in Delivery /\ status[<<e, w>>] = "none" /\ ~InBatch(<<e, w>>)
  BY DEF Once, Delivery
<1>2. <<e, w>> \notin Due
  BY <1>1 DEF Waiting
<1>3. ~InFlight(<<e, w>>)
  BY <1>1, TheRest DEF InFlight, InBatch, Batched
<1> QED
  BY <1>2, <1>3

\* A row that becomes due goes behind rows.
LEMMA WithType ==
  ASSUME TypeOK, NEW d \in Delivery
  PROVE  With(d) \subseteq Delivery \X Delivery
<1>1. \A c \in Due \cup {d} : <<c, d>> \in Delivery \X Delivery
  BY DEF Due
<1> QED
  BY <1>1 DEF With, TypeOK

\* A step that leaves the emitters alone and no row, request or place in the batch
\* to a delivery that waits for one.
LEMMA OnceKept ==
  ASSUME Once, emitter' = emitter, targets' = targets,
         \A e \in Event, w \in Endpoint :
           emitter[e] \in {"idle", "select"} \/ w \in targets[e] =>
             /\ status'[<<e, w>>] = status[<<e, w>>] /\ posts'[<<e, w>>] = posts[<<e, w>>]
             /\ attempts'[<<e, w>>] = attempts[<<e, w>>] /\ ~InBatch(<<e, w>>)'
  PROVE  Once'
<1> SUFFICES ASSUME NEW e \in Event, NEW w \in Endpoint
             PROVE  /\ w \in targets[e] => emitter[e] = "insert"
                    /\ emitter[e] \in {"idle", "select"} \/ w \in targets[e] =>
                         /\ status'[<<e, w>>] = "none" /\ posts'[<<e, w>>] = 0
                         /\ attempts'[<<e, w>>] = 0 /\ ~InBatch(<<e, w>>)'
  BY DEF Once
<1> QED
  BY DEF Once

LEMMA InitInv == Init => IInv
<1> SUFFICES ASSUME Init PROVE IInv
  OBVIOUS
<1>1. MAX_ATTEMPTS \in Nat \ {0} /\ MaxFaults \in Nat
  BY Bounds
<1>2. TypeOK
  BY <1>1 DEF Init, TypeOK
<1>3. Once /\ Waiting /\ Batched
  BY <1>1 DEF Init, Once, Waiting, Batched, Due, InBatch, Delivery
<1>4. Counted /\ Attempted /\ TruthfulOutcome
  BY <1>1 DEF Init, Counted, Attempted, TruthfulOutcome, InFlight, InBatch
<1> QED
  BY <1>2, <1>3, <1>4 DEF IInv

-----------------------------------------------------------------------------
(* The steps *)

\* Steps that touch neither a row nor the loop.
LEMMA QuietInv ==
  ASSUME IInv, UNCHANGED <<rows, loop, traffic, restarts>>, TypeOK', Once'
  PROVE  IInv'
<1> USE DEF rows, loop, traffic
<1>1. /\ \A d : InFlight(d)' = InFlight(d) /\ InBatch(d)' = InBatch(d)
      /\ Due' = Due
  BY DEF InFlight, InBatch, Due
<1>2. Waiting' /\ Batched'
  BY <1>1 DEF IInv, Waiting, Batched
<1>3. Counted' /\ Attempted' /\ TruthfulOutcome'
  BY <1>1 DEF IInv, Counted, Attempted, TruthfulOutcome
<1> QED
  BY <1>2, <1>3 DEF IInv

\* Registration and deletion of endpoints, except for their rows.
LEMMA EndpointInv ==
  ASSUME IInv, NEW w \in Endpoint, Register(w) \/ DeleteRead(w) \/ DeleteEndpoint(w)
  PROVE  IInv'
<1> USE DEF endpoints, emission, rows, loop, traffic
<1>1. UNCHANGED <<emission, rows, loop, traffic, faults, restarts>>
  BY DEF Register, DeleteRead, DeleteEndpoint
<1>2. /\ endpoint' \in [Endpoint -> {"absent", "enabled", "deleted"}]
      /\ deleter' \in [Endpoint -> {"idle", "rows", "endpoint", "done"}]
  <2>1. CASE Register(w)
    BY <2>1 DEF IInv, TypeOK, Register
  <2>2. CASE DeleteRead(w)
    BY <2>2 DEF IInv, TypeOK, DeleteRead
  <2>3. CASE DeleteEndpoint(w)
    BY <2>3 DEF IInv, TypeOK, DeleteEndpoint
  <2> QED
    BY <2>1, <2>2, <2>3
<1>3. TypeOK'
  BY <1>1, <1>2 DEF IInv, TypeOK
<1>4. Once'
  BY <1>1 DEF IInv, Once, InBatch
<1> QED
  BY <1>1, <1>3, <1>4, QuietInv

\* What an emitter does before and after it inserts.
LEMMA EmitterInv ==
  ASSUME IInv, NEW e \in Event, Happens(e) \/ SelectEndpoints(e) \/ EmitEnds(e)
  PROVE  IInv'
<1> USE DEF endpoints, emission, rows, loop, traffic
<1> DEFINE enabled == {w \in Wants[e] : endpoint[w] = "enabled"}
<1>1. UNCHANGED <<endpoints, rows, loop, traffic, faults, restarts>>
  BY DEF Happens, SelectEndpoints, EmitEnds
<1>2. enabled \subseteq Endpoint
  BY Filters
<1>3. CASE Happens(e)
  <2>1. /\ emitter' = [emitter EXCEPT ![e] = "select"] /\ targets' = targets
        /\ matched' = [matched EXCEPT ![e] = enabled] /\ emitter[e] = "idle"
    BY <1>3 DEF Happens
  <2> HIDE DEF enabled
  <2>2. TypeOK'
    BY <1>1, <1>2, <2>1 DEF IInv, TypeOK
  <2>3. emitter \in [Event -> {"idle", "select", "insert", "done", "lost"}]
        /\ targets \in [Event -> SUBSET Endpoint] /\ \A d : InBatch(d)' = InBatch(d)
    BY <1>1 DEF IInv, TypeOK, InBatch
  <2>4. Once'
    BY <1>1, <2>1, <2>3 DEF IInv, Once
  <2> QED
    BY <1>1, <2>2, <2>4, QuietInv
<1>4. CASE SelectEndpoints(e)
  <2>1. /\ emitter' = [emitter EXCEPT ![e] = "insert"] /\ matched' = matched
        /\ targets' = [targets EXCEPT ![e] = enabled] /\ emitter[e] = "select"
    BY <1>4 DEF SelectEndpoints
  <2> HIDE DEF enabled
  <2>2. TypeOK'
    BY <1>1, <1>2, <2>1 DEF IInv, TypeOK
  <2>3. emitter \in [Event -> {"idle", "select", "insert", "done", "lost"}]
        /\ targets \in [Event -> SUBSET Endpoint] /\ \A d : InBatch(d)' = InBatch(d)
    BY <1>1 DEF IInv, TypeOK, InBatch
  <2>4. Once'
    BY <1>1, <2>1, <2>3 DEF IInv, Once
  <2> QED
    BY <1>1, <2>2, <2>4, QuietInv
<1>5. CASE EmitEnds(e)
  <2>1. /\ emitter' = [emitter EXCEPT ![e] = "done"] /\ UNCHANGED <<targets, matched>>
        /\ emitter[e] = "insert" /\ targets[e] = {}
    BY <1>5 DEF EmitEnds
  <2>2. TypeOK'
    BY <1>1, <2>1 DEF IInv, TypeOK
  <2>3. emitter \in [Event -> {"idle", "select", "insert", "done", "lost"}]
        /\ targets \in [Event -> SUBSET Endpoint] /\ \A d : InBatch(d)' = InBatch(d)
    BY <1>1 DEF IInv, TypeOK, InBatch
  <2>4. Once'
    BY <1>1, <2>1, <2>3 DEF IInv, Once
  <2> QED
    BY <1>1, <2>2, <2>4, QuietInv
<1> QED
  BY <1>3, <1>4, <1>5

\* The rows of an endpoint go, also those the loop holds: its requests and the
\* UPDATEs that find no row go on.
LEMMA DeleteRowsInv ==
  ASSUME IInv, NEW w \in Endpoint, DeleteRows(w)
  PROVE  IInv'
<1> USE DEF endpoints, emission, rows, loop, traffic
<1>1. /\ status' = [d \in Delivery |-> IF d \in To(w) THEN "none" ELSE status[d]]
      /\ queue' = Without(To(w))
      /\ deleter' = [deleter EXCEPT ![w] = "endpoint"]
      /\ UNCHANGED <<endpoint, emission, attempts, loop, traffic, faults, restarts>>
  BY DEF DeleteRows
<1>2. TypeOK'
  BY <1>1 DEF IInv, TypeOK, Without
<1>3. /\ \A d : InFlight(d)' = InFlight(d) /\ InBatch(d)' = InBatch(d)
      /\ Due' = {d \in Due : d \notin To(w)}
      /\ \A d \in Delivery : status'[d] \in {status[d], "none"}
      /\ \A d \in Delivery : status'[d] # "none" => d \notin To(w) /\ status'[d] = status[d]
  BY <1>1 DEF InFlight, InBatch, Due, Without
<1>4. \A d \in Due : status'[d] = IF d \in To(w) THEN "none" ELSE status[d]
  BY <1>1 DEF Due
<1>5. Once'
  BY <1>1, <1>3 DEF IInv, Once, Delivery
<1>6. Waiting'
  BY <1>1, <1>3, <1>4 DEF IInv, Waiting, TypeOK
<1>7. Batched'
  BY <1>1, <1>3 DEF IInv, Batched, TypeOK
<1>8. Counted' /\ Attempted' /\ TruthfulOutcome'
  BY <1>1, <1>3 DEF IInv, Counted, Attempted, TruthfulOutcome
<1> QED
  BY <1>2, <1>5, <1>6, <1>7, <1>8 DEF IInv

\* A new row: it was never one before.
LEMMA InsertInv ==
  ASSUME IInv, NEW e \in Event, NEW w \in Endpoint, InsertDelivery(e, w)
  PROVE  IInv'
<1> USE DEF endpoints, emission, rows, loop, traffic
<1> DEFINE new == <<e, w>>
<1>1. /\ targets' = [targets EXCEPT ![e] = @ \ {w}]
      /\ status' = [status EXCEPT ![new] = "pending"]
      /\ queue' = With(new)
      /\ w \in targets[e]
      /\ UNCHANGED <<endpoints, emitter, matched, attempts, loop, traffic, faults, restarts>>
  BY DEF InsertDelivery
<1>2. /\ new \in Delivery /\ status[new] = "none" /\ posts[new] = 0 /\ attempts[new] = 0
      /\ ~InBatch(new) /\ new \notin Due /\ ~InFlight(new) /\ emitter[e] = "insert"
  BY <1>1, NotYetARow DEF IInv, Once, Delivery
<1>3. /\ Due' = Due \cup {new}
      /\ \A d : InFlight(d)' = InFlight(d) /\ InBatch(d)' = InBatch(d)
  BY <1>1, <1>2 DEF Due, With, InFlight, InBatch
<1>4. TypeOK'
  <2>1. targets' \in [Event -> SUBSET Endpoint] /\ status' \in [Delivery -> {"none", "pending", "delivered", "failed"}]
    BY <1>1 DEF IInv, TypeOK
  <2>2. queue' \subseteq Delivery \X Delivery
    BY <1>1, <1>2, WithType DEF IInv, TypeOK
  <2> QED
    BY <1>1, <2>1, <2>2 DEF IInv, TypeOK
<1>5. \A f \in Event, x \in Endpoint : <<f, x>> = new <=> f = e /\ x = w
  OBVIOUS
<1> HIDE DEF new
<1>6. Once'
  <2>1. ASSUME NEW f \in Event, NEW x \in Endpoint
        PROVE  /\ x \in targets'[f] => x \in targets[f] /\ <<f, x>> # new
               /\ <<f, x>> # new => status'[<<f, x>>] = status[<<f, x>>]
               /\ emitter[f] \in {"idle", "select"} => <<f, x>> # new
    BY <1>1, <1>2, <1>5 DEF IInv, TypeOK, Delivery
  <2>2. ASSUME NEW f \in Event, NEW x \in Endpoint
        PROVE  /\ attempts' = attempts /\ posts' = posts /\ emitter' = emitter
               /\ InBatch(<<f, x>>)' = InBatch(<<f, x>>)
    BY <1>1, <1>3
  <2> SUFFICES ASSUME NEW f \in Event, NEW x \in Endpoint
               PROVE  /\ x \in targets'[f] => emitter'[f] = "insert"
                      /\ emitter'[f] \in {"idle", "select"} \/ x \in targets'[f] =>
                           /\ status'[<<f, x>>] = "none" /\ posts'[<<f, x>>] = 0
                           /\ attempts'[<<f, x>>] = 0 /\ ~InBatch(<<f, x>>)'
    BY DEF Once
  <2>3. x \in targets'[f] => emitter'[f] = "insert"
    BY <2>1, <2>2 DEF IInv, Once
  <2>4. ASSUME emitter'[f] \in {"idle", "select"} \/ x \in targets'[f]
        PROVE  /\ status[<<f, x>>] = "none" /\ posts[<<f, x>>] = 0
               /\ attempts[<<f, x>>] = 0 /\ ~InBatch(<<f, x>>)
               /\ <<f, x>> # new
    BY <2>1, <2>2, <2>4 DEF IInv, Once
  <2> QED
    BY <2>1, <2>2, <2>3, <2>4
<1>7. Waiting'
  BY <1>1, <1>2, <1>3, Bounds DEF IInv, TypeOK, Waiting, Due
<1>8. Batched'
  <2>1. \A i \in 1 .. Len(batch) : batch[i] # new /\ batch[i] \in Delivery
    BY <1>2 DEF InBatch, IInv, TypeOK
  <2> QED
    BY <1>1, <1>2, <1>3, <2>1 DEF IInv, TypeOK, Batched
<1>9. Counted' /\ Attempted' /\ TruthfulOutcome'
  BY <1>1, <1>2, <1>3, Bounds DEF IInv, TypeOK, Counted, Attempted, TruthfulOutcome
<1> QED
  BY <1>4, <1>6, <1>7, <1>8, <1>9 DEF IInv

LEMMA BecomesDueInv ==
  ASSUME IInv, NEW d \in Delivery, BecomesDue(d)
  PROVE  IInv'
<1> USE DEF endpoints, emission, rows, loop, traffic
<1>1. /\ status[d] = "pending" /\ queue' = With(d)
      /\ UNCHANGED <<endpoints, emission, status, attempts, loop, traffic, faults, restarts>>
  BY DEF BecomesDue
<1>2. /\ Due' = Due \cup {d}
      /\ \A x : InFlight(x)' = InFlight(x) /\ InBatch(x)' = InBatch(x)
  BY <1>1 DEF Due, With, InFlight, InBatch
<1>3. TypeOK'
  BY <1>1, WithType DEF IInv, TypeOK
<1>4. Once' /\ Waiting' /\ Batched'
  BY <1>1, <1>2 DEF IInv, Once, Waiting, Batched
<1>5. Counted' /\ Attempted' /\ TruthfulOutcome'
  BY <1>1, <1>2 DEF IInv, Counted, Attempted, TruthfulOutcome
<1> QED
  BY <1>3, <1>4, <1>5 DEF IInv

\* The loop selects rows that are due, each once.
LEMMA SelectInv ==
  ASSUME IInv, SelectDue
  PROVE  IInv'
<1> USE DEF endpoints, emission, rows, loop, traffic
<1>1. /\ pc = "idle" /\ pc' = "next"
      /\ UNCHANGED <<endpoints, emission, rows, traffic, faults, restarts>>
  BY DEF SelectDue
<1>2. PICK n \in 1 .. Batch : \E b \in [1 .. n -> Due] : FirstDue(b, n) /\ batch' = b
  BY DEF SelectDue
<1>3. PICK b \in [1 .. n -> Due] : FirstDue(b, n) /\ batch' = b
  BY <1>2
<1>4. /\ n \in Nat /\ batch' \in Seq(Delivery) /\ Len(batch') = n
      /\ \A i \in 1 .. n : batch'[i] \in Due /\ batch'[i] \in Delivery
  <2>1. n \in Nat /\ b \in Seq(Due)
    BY <1>3, Bounds
  <2>2. Due \subseteq Delivery
    BY DEF Due
  <2> QED
    BY <1>3, <2>1, <2>2
<1>5. \A i, j \in 1 .. n : batch'[i] = batch'[j] => i = j
  <2>1. \A i, j \in 1 .. n : i < j => batch'[i] # batch'[j]
    BY <1>3 DEF FirstDue
  <2>2. \A i, j \in 1 .. n : i < j \/ j < i \/ i = j
    BY <1>4
  <2> QED
    BY <2>1, <2>2
<1>6. TypeOK'
  BY <1>1, <1>4 DEF IInv, TypeOK
<1>7. \A d : ~InFlight(d) /\ ~InFlight(d)'
  BY <1>1 DEF InFlight
<1>8. /\ Due' = Due
      /\ \A d : InBatch(d)' => d \in Due
  BY <1>1, <1>4 DEF Due, InBatch
<1>9. Once'
  BY <1>1, <1>8, NotYetARow DEF IInv, Once
<1>10. Waiting'
  BY <1>1, <1>8 DEF IInv, Waiting
<1>11. Batched'
  BY <1>1, <1>4, <1>5 DEF IInv, Waiting, Batched
<1>12. Counted'
  BY <1>1, <1>7, <1>8 DEF IInv, Waiting, Counted
<1>13. Attempted' /\ TruthfulOutcome'
  BY <1>1, <1>7 DEF IInv, Attempted, TruthfulOutcome
<1> QED
  BY <1>6, <1>9, <1>10, <1>11, <1>12, <1>13 DEF IInv

\* A request: the attempt is not counted yet.
LEMMA PostInv ==
  ASSUME IInv, Post
  PROVE  IInv'
<1> USE DEF endpoints, emission, rows, loop, traffic
<1> DEFINE d == Head(batch)
<1>1. /\ pc = "next" /\ batch # <<>> /\ d[2] \notin Unsafe
      /\ posts' = [posts EXCEPT ![d] = @ + 1]
      /\ pc' \in {"ok", "error"}
      /\ accepted' \in {accepted, accepted \cup {d}}
      /\ pc' = "ok" => d \in accepted'
      /\ UNCHANGED <<endpoints, emission, rows, batch, faults, restarts>>
  BY DEF Post
<1>2. /\ d \in Delivery /\ d = batch[1] /\ Len(batch) \in Nat \ {0}
  BY <1>1, TheRest DEF IInv
<1>3. /\ Due' = Due
      /\ \A x : ~InFlight(x) /\ (InFlight(x)' <=> x = d) /\ InBatch(x)' = InBatch(x)
      /\ InBatch(d) /\ status[d] \in {"pending", "none"} /\ attempts[d] < MAX_ATTEMPTS
  BY <1>1, <1>2 DEF Due, InFlight, InBatch, IInv, Batched
<1> HIDE DEF d
<1>4. posts' \in [Delivery -> Nat] /\ posts'[d] = posts[d] + 1
      /\ \A x \in Delivery : x # d => posts'[x] = posts[x]
  BY <1>1, <1>2 DEF IInv, TypeOK
<1>5. TypeOK'
  <2>1. accepted' \subseteq Delivery /\ pc' \in {"idle", "next", "ok", "error"}
    BY <1>1, <1>2 DEF IInv, TypeOK
  <2> QED
    BY <1>1, <1>4, <2>1 DEF IInv, TypeOK
<1>6. Once'
  <2>1. ASSUME NEW e \in Event, NEW w \in Endpoint,
               emitter[e] \in {"idle", "select"} \/ w \in targets[e]
        PROVE  posts'[<<e, w>>] = posts[<<e, w>>] /\ ~InBatch(<<e, w>>)'
    <3>1. ~InBatch(<<e, w>>) /\ <<e, w>> \in Delivery
      BY <2>1 DEF IInv, Once, Delivery
    <3> QED
      BY <1>3, <1>4, <3>1
  <2> QED
    BY <1>1, <2>1, OnceKept DEF IInv
<1>7. Waiting'
  BY <1>1, <1>3 DEF IInv, Waiting
<1>8. Batched'
  <2>1. /\ pc' # "idle" /\ batch' # <<>> /\ Head(batch') = d /\ d[2] \notin Unsafe
        /\ pc' = "ok" => d \in accepted'
    BY <1>1 DEF d
  <2>2. batch' = batch /\ status' = status /\ attempts' = attempts
    BY <1>1
  <2> QED
    BY <2>1, <2>2 DEF IInv, Batched
<1>9. Counted'
  <2>1. posts[d] <= attempts[d] + restarts
    BY <1>2, <1>3 DEF IInv, Counted
  <2>2. posts'[d] <= attempts[d] + restarts + 1 /\ posts'[d] <= MAX_ATTEMPTS + restarts
    BY <1>2, <1>3, <1>4, <2>1, Bounds DEF IInv, TypeOK
  <2> QED
    BY <1>1, <1>3, <1>4, <2>2 DEF IInv, Counted
<1>10. Attempted'
  BY <1>1, <1>2, <1>3, <1>4 DEF IInv, TypeOK, Attempted
<1>11. TruthfulOutcome'
  <2>1. \A x \in Delivery : posts[x] \in Nat /\ posts'[x] \in {posts[x], posts[x] + 1}
    BY <1>4 DEF IInv, TypeOK
  <2>2. \A x \in Delivery : posts[x] >= MAX_ATTEMPTS => posts'[x] >= MAX_ATTEMPTS
    <3>1. MAX_ATTEMPTS \in Nat
      BY Bounds
    <3> QED
      BY <2>1, <3>1
  <2>3. status' = status /\ \A x \in accepted : x \in accepted'
    BY <1>1
  <2> QED
    BY <2>2, <2>3 DEF IInv, TruthfulOutcome
<1> QED
  BY <1>5, <1>6, <1>7, <1>8, <1>9, <1>10, <1>11 DEF IInv

\* The loop writes what became of a row and counts the attempt.
LEMMA RecordInv ==
  ASSUME IInv, batch # <<>>, NEW st \in {"delivered", "failed", "pending"},
         Record(Head(batch), st),
         UNCHANGED <<endpoints, emission, traffic, faults, restarts>>,
         InFlight(Head(batch)) \/ Head(batch)[2] \in Unsafe,
         st = "delivered" => Head(batch) \in accepted,
         st = "failed" => Head(batch)[2] \in Unsafe \/ posts[Head(batch)] >= MAX_ATTEMPTS,
         st = "pending" => attempts[Head(batch)] + 1 < MAX_ATTEMPTS
  PROVE  IInv'
<1> USE DEF endpoints, emission, rows, loop, traffic
<1> DEFINE d == Head(batch)
<1>1. /\ status' = [status EXCEPT ![d] = IF @ = "none" THEN @ ELSE st]
      /\ attempts' = [attempts EXCEPT ![d] = IF status[d] = "none" THEN @ ELSE @ + 1]
      /\ queue' = Without({d}) /\ batch' = Tail(batch) /\ pc' = "next"
  BY DEF Record
<1>2. /\ d \in Delivery /\ d = batch[1] /\ Len(batch) \in Nat \ {0}
      /\ batch' \in Seq(Delivery) /\ Len(batch') = Len(batch) - 1
      /\ \A i \in 1 .. Len(batch) - 1 : batch'[i] = batch[i + 1]
  BY <1>1, TheRest DEF IInv
<1>3. /\ InBatch(d) /\ status[d] \in {"pending", "none"} /\ attempts[d] < MAX_ATTEMPTS
      /\ \A x : ~InFlight(x)' /\ (InFlight(x) => x = d)
  BY <1>1, <1>2 DEF InFlight, InBatch, IInv, Batched
<1>4. \A i \in 1 .. Len(batch') : batch'[i] # d /\ batch'[i] = batch[i + 1] /\ i + 1 \in 1 .. Len(batch)
  BY <1>2 DEF IInv, Batched
<1>5. \A x : InBatch(x)' => InBatch(x) /\ x # d
  BY <1>4 DEF InBatch
<1>6. Due' = Due \ {d}
  BY <1>1 DEF Due, Without
<1> HIDE DEF d
<1>7. /\ \A x \in Delivery : x # d => status'[x] = status[x] /\ attempts'[x] = attempts[x]
      /\ status[d] = "none" => status'[d] = "none" /\ attempts'[d] = attempts[d]
      /\ status[d] = "pending" => status'[d] = st /\ attempts'[d] = attempts[d] + 1
      /\ attempts[d] \in Nat /\ MAX_ATTEMPTS \in Nat
  BY <1>1, <1>2, Bounds DEF IInv, TypeOK
<1>8. TypeOK'
  <2>1. status' \in [Delivery -> {"none", "pending", "delivered", "failed"}]
    BY <1>1, <1>2 DEF IInv, TypeOK
  <2>2. attempts' \in [Delivery -> 0 .. MAX_ATTEMPTS]
    <3>1. attempts[d] + 1 \in 0 .. MAX_ATTEMPTS
      BY <1>3, <1>7
    <3> QED
      BY <1>1, <1>2, <3>1 DEF IInv, TypeOK
  <2>3. queue' \subseteq Delivery \X Delivery
    BY <1>1 DEF IInv, TypeOK, Without
  <2> QED
    BY <1>1, <1>2, <2>1, <2>2, <2>3 DEF IInv, TypeOK
<1>9. Once'
  <2>1. ASSUME NEW e \in Event, NEW w \in Endpoint,
               emitter[e] \in {"idle", "select"} \/ w \in targets[e]
        PROVE  /\ status'[<<e, w>>] = status[<<e, w>>] /\ ~InBatch(<<e, w>>)'
               /\ attempts'[<<e, w>>] = attempts[<<e, w>>]
    <3>1. ~InBatch(<<e, w>>) /\ <<e, w>> \in Delivery
      BY <2>1 DEF IInv, Once, Delivery
    <3> QED
      BY <1>3, <1>5, <1>7, <3>1
  <2> QED
    BY <2>1, OnceKept DEF IInv
<1>10. Waiting'
  <2>1. \A x \in Due' : status'[x] = "pending"
    BY <1>6, <1>7 DEF IInv, Waiting, Due
  <2>2. \A x \in Delivery : status'[x] = "pending" => attempts'[x] < MAX_ATTEMPTS
    BY <1>3, <1>7 DEF IInv, Waiting, d
  <2> QED
    BY <2>1, <2>2 DEF Waiting
<1>11. Batched'
  <2>1. \A i, j \in 1 .. Len(batch') : batch'[i] = batch'[j] => i = j
    <3> SUFFICES ASSUME NEW i \in 1 .. Len(batch'), NEW j \in 1 .. Len(batch'), batch'[i] = batch'[j]
                 PROVE  i = j
      OBVIOUS
    <3>1. i + 1 = j + 1
      BY <1>4 DEF IInv, Batched
    <3> QED
      BY <1>2, <3>1
  <2>2. ASSUME NEW i \in 1 .. Len(batch')
        PROVE  status'[batch'[i]] \in {"pending", "none"} /\ attempts'[batch'[i]] < MAX_ATTEMPTS
    <3>1. batch'[i] \in Delivery /\ batch'[i] # d /\ batch'[i] = batch[i + 1] /\ i + 1 \in 1 .. Len(batch)
      BY <1>2, <1>4
    <3> QED
      BY <1>7, <3>1 DEF IInv, Batched
  <2> QED
    BY <1>1, <2>1, <2>2 DEF Batched
<1>12. Counted'
  <2>1. ASSUME NEW x \in Delivery, x # d
        PROVE  /\ status'[x] # "none" \/ InBatch(x)' => posts[x] <= attempts'[x] + restarts
               /\ posts[x] <= MAX_ATTEMPTS + restarts
    BY <1>3, <1>5, <1>7, <2>1 DEF IInv, Counted
  <2>2. posts[d] <= MAX_ATTEMPTS + restarts
    BY <1>2 DEF IInv, Counted
  <2>3. status[d] # "none" => posts[d] <= attempts'[d] + restarts
    <3>1. posts[d] <= attempts[d] + restarts + 1
      BY <1>2, <1>3 DEF IInv, TypeOK, Counted
    <3> QED
      BY <1>2, <1>3, <1>7, <3>1 DEF IInv, TypeOK
  <2> QED
    BY <1>3, <1>5, <1>7, <2>1, <2>2, <2>3 DEF Counted
<1>13. Attempted'
  <2>1. ASSUME NEW x \in Delivery, x # d, x[2] \notin Unsafe
        PROVE  posts[x] >= attempts'[x]
    <3>1. ~InFlight(x)
      BY <1>3, <2>1
    <3>2. posts[x] >= attempts[x] + 0
      BY <2>1, <3>1 DEF IInv, Attempted
    <3> QED
      BY <1>7, <2>1, <3>2 DEF IInv, TypeOK
  <2>2. d[2] \notin Unsafe => posts[d] >= attempts'[d]
    <3>1. d[2] \notin Unsafe => InFlight(d)
      BY DEF d
    <3>2. d[2] \notin Unsafe => posts[d] >= attempts[d] + 1
      BY <1>2, <3>1 DEF IInv, Attempted
    <3> QED
      BY <1>2, <1>3, <1>7, <3>2 DEF IInv, TypeOK
  <2>3. \A x \in Delivery : x[2] \notin Unsafe => posts[x] >= attempts'[x]
    BY <2>1, <2>2
  <2>4. \A x \in Delivery : x[2] \notin Unsafe => posts'[x] >= attempts'[x] + 0
    BY <1>8, <2>3 DEF TypeOK
  <2> QED
    BY <1>3, <2>4 DEF Attempted
<1>14. TruthfulOutcome'
  <2>1. ASSUME NEW x \in Delivery, x # d
        PROVE  /\ status'[x] = "delivered" => x \in accepted
               /\ status'[x] = "failed" => posts[x] >= MAX_ATTEMPTS \/ x[2] \in Unsafe
    BY <1>7, <2>1 DEF IInv, TruthfulOutcome
  <2>2. /\ status'[d] = "delivered" => d \in accepted
        /\ status'[d] = "failed" => posts[d] >= MAX_ATTEMPTS \/ d[2] \in Unsafe
    BY <1>3, <1>7 DEF d
  <2> QED
    BY <2>1, <2>2 DEF TruthfulOutcome
<1> QED
  BY <1>8, <1>9, <1>10, <1>11, <1>12, <1>13, <1>14 DEF IInv

\* The three ways an attempt ends, and the refusal.
LEMMA OutcomeInv ==
  ASSUME IInv, RecordPost \/ Refuse
  PROVE  IInv'
<1> DEFINE d == Head(batch)
<1>1. CASE Refuse
  BY <1>1, RecordInv DEF Refuse
<1>2. CASE RecordPost
  <2>1. batch # <<>> /\ InFlight(d) /\ pc \in {"ok", "error"}
    BY <1>2 DEF RecordPost, InFlight, IInv, Batched
  <2>2. d \in Delivery /\ d[2] \notin Unsafe /\ (pc = "ok" => d \in accepted)
    BY <2>1, TheRest DEF IInv, Batched
  <2>3. posts[d] >= attempts[d] + 1 /\ attempts[d] \in Nat /\ posts[d] \in Nat /\ MAX_ATTEMPTS \in Nat
    BY <2>1, <2>2, Bounds DEF IInv, Attempted, TypeOK
  <2> HIDE DEF d
  <2>4. UNCHANGED <<endpoints, emission, traffic, faults, restarts>>
    BY <1>2 DEF RecordPost
  <2>5. CASE pc = "ok"
    <3>1. Record(Head(batch), "delivered")
      BY <1>2, <2>5 DEF RecordPost
    <3> QED
      BY <2>1, <2>2, <2>4, <2>5, <3>1, RecordInv DEF d
  <2>6. CASE pc = "error" /\ attempts[d] + 1 >= MAX_ATTEMPTS
    <3>1. Record(Head(batch), "failed")
      BY <1>2, <2>6 DEF RecordPost, d
    <3>2. posts[d] >= MAX_ATTEMPTS
      BY <2>3, <2>6
    <3> QED
      BY <2>1, <2>4, <3>1, <3>2, RecordInv DEF d
  <2>7. CASE pc = "error" /\ ~ (attempts[d] + 1 >= MAX_ATTEMPTS)
    <3>1. Record(Head(batch), "pending")
      BY <1>2, <2>7 DEF RecordPost, d
    <3>2. attempts[d] + 1 < MAX_ATTEMPTS
      BY <2>3, <2>7
    <3> QED
      BY <2>1, <2>4, <3>1, <3>2, RecordInv DEF d
  <2> QED
    BY <2>1, <2>5, <2>6, <2>7
<1> QED
  BY <1>1, <1>2

\* The loop is done, or a statement of it throws: the rows stay as they are.
LEMMA LoopEndsInv ==
  ASSUME IInv, TypeOK', batch' = <<>>, pc' = "idle",
         UNCHANGED <<emission, rows, traffic>>, restarts' = restarts + 1 \/ batch = <<>>,
         restarts' \in {restarts, restarts + 1}
  PROVE  IInv'
<1> USE DEF emission, rows, traffic
<1>1. \A d : ~InFlight(d)' /\ ~InBatch(d)'
  BY DEF InFlight, InBatch
<1>2. Due' = Due
  BY DEF Due
<1>3. Once'
  BY <1>1, OnceKept DEF IInv
<1>4. Waiting' /\ Batched'
  BY <1>2 DEF IInv, Waiting, Batched
<1>5. Counted'
  <2>1. restarts \in Nat /\ MAX_ATTEMPTS \in Nat
    BY Bounds DEF IInv, TypeOK
  <2>2. ASSUME NEW d \in Delivery
        PROVE  /\ status[d] # "none" => posts[d] <= attempts[d] + restarts'
               /\ posts[d] <= MAX_ATTEMPTS + restarts'
    <3>1. posts[d] \in Nat /\ attempts[d] \in Nat
      BY Bounds DEF IInv, TypeOK
    <3>2. CASE restarts' = restarts + 1
      BY <2>1, <3>1, <3>2 DEF IInv, Counted
    <3>3. CASE batch = <<>> /\ restarts' = restarts
      <4>1. ~InFlight(d)
        BY <3>3 DEF IInv, Batched, InFlight
      <4> QED
        BY <2>1, <3>1, <3>3, <4>1 DEF IInv, Counted
    <3> QED
      BY <3>2, <3>3
  <2> QED
    BY <1>1, <2>2 DEF Counted
<1>6. Attempted'
  <2>1. ASSUME NEW d \in Delivery, d[2] \notin Unsafe
        PROVE  posts'[d] >= attempts'[d] + 0
    <3>1. posts[d] \in Nat /\ attempts[d] \in Nat
      BY Bounds DEF IInv, TypeOK
    <3> QED
      BY <2>1, <3>1 DEF IInv, Attempted
  <2> QED
    BY <1>1, <2>1 DEF Attempted
<1>7. TruthfulOutcome'
  BY DEF IInv, TruthfulOutcome
<1> QED
  BY <1>3, <1>4, <1>5, <1>6, <1>7 DEF IInv

LEMMA DrainEndsInv ==
  ASSUME IInv, DrainEnds
  PROVE  IInv'
<1> USE DEF endpoints, emission, rows, loop, traffic
<1>1. TypeOK'
  BY DEF IInv, TypeOK, DrainEnds
<1> QED
  BY <1>1, LoopEndsInv DEF DrainEnds

LEMMA DrainFailsInv ==
  ASSUME IInv, DrainFails
  PROVE  IInv'
<1> USE DEF endpoints, emission, rows, loop, traffic
<1>1. TypeOK'
  BY Bounds DEF IInv, TypeOK, DrainFails
<1> QED
  BY <1>1, LoopEndsInv DEF DrainFails

\* The process dies: emitters and the loop forget what they were at.
LEMMA RestartInv ==
  ASSUME IInv, Restart, faults' \in 0 .. MaxFaults
  PROVE  IInv'
<1> USE DEF endpoints, emission, rows, loop, traffic
<1>1. /\ emitter' = [e \in Event |-> IF emitter[e] \in {"select", "insert"} THEN "lost" ELSE emitter[e]]
      /\ targets' = [e \in Event |-> {}]
      /\ deleter' = [w \in Endpoint |-> IF deleter[w] = "idle" THEN "idle" ELSE "done"]
      /\ pc' = "idle" /\ batch' = <<>> /\ restarts' = restarts + 1
      /\ UNCHANGED <<endpoint, matched, rows, traffic>>
  BY DEF Restart
<1>2. TypeOK'
  BY <1>1 DEF IInv, TypeOK
<1>3. \A d : ~InFlight(d)' /\ ~InBatch(d)'
  BY <1>1 DEF InFlight, InBatch
<1>4. Due' = Due
  BY <1>1 DEF Due
<1>5. Once'
  <2>1. \A e \in Event : targets'[e] = {} /\ (emitter'[e] \in {"idle", "select"} => emitter[e] = "idle")
    BY <1>1
  <2> QED
    BY <1>1, <1>3, <2>1 DEF IInv, Once
<1>6. Waiting' /\ Batched'
  BY <1>1, <1>4 DEF IInv, Waiting, Batched
<1>7. Counted'
  <2>1. ASSUME NEW d \in Delivery
        PROVE  /\ status[d] # "none" => posts[d] <= attempts[d] + restarts'
               /\ posts[d] <= MAX_ATTEMPTS + restarts'
    <3>1. posts[d] \in Nat /\ attempts[d] \in Nat /\ restarts \in Nat /\ MAX_ATTEMPTS \in Nat
      BY Bounds DEF IInv, TypeOK
    <3> QED
      BY <1>1, <3>1 DEF IInv, Counted
  <2> QED
    BY <1>1, <1>3, <2>1 DEF Counted
<1>8. Attempted'
  <2>1. ASSUME NEW d \in Delivery, d[2] \notin Unsafe
        PROVE  posts'[d] >= attempts'[d] + 0
    <3>1. posts[d] \in Nat /\ attempts[d] \in Nat
      BY Bounds DEF IInv, TypeOK
    <3> QED
      BY <1>1, <2>1, <3>1 DEF IInv, Attempted
  <2> QED
    BY <1>3, <2>1 DEF Attempted
<1>9. TruthfulOutcome'
  BY <1>1 DEF IInv, TruthfulOutcome
<1> QED
  BY <1>2, <1>5, <1>6, <1>7, <1>8, <1>9 DEF IInv

LEMMA CrashInv ==
  ASSUME IInv, Crash \/ \E e \in Event : InsertRefused(e)
  PROVE  IInv'
<1>1. Restart /\ faults' \in 0 .. MaxFaults
  BY Bounds DEF Crash, InsertRefused, IInv, TypeOK
<1> QED
  BY <1>1, RestartInv

\* The invariant is inductive.
LEMMA NextInv == IInv /\ [Next]_vars => IInv'
<1> SUFFICES ASSUME IInv, [Next]_vars PROVE IInv'
  OBVIOUS
<1>1. CASE \E w \in Endpoint : Customer(w) \/ Delete(w)
  BY <1>1, EndpointInv, DeleteRowsInv DEF Customer, Delete
<1>2. CASE \E e \in Event : Happens(e) \/ Emit(e)
  BY <1>2, EmitterInv, InsertInv, CrashInv DEF Emit
<1>3. CASE \E d \in Delivery : BecomesDue(d)
  BY <1>3, BecomesDueInv
<1>4. CASE Drain
  BY <1>4, SelectInv, PostInv, OutcomeInv, DrainEndsInv DEF Drain
<1>5. CASE DrainFails \/ Crash
  BY <1>5, DrainFailsInv, CrashInv
<1>6. CASE UNCHANGED vars
  <2>1. TypeOK'
    BY <1>6 DEF vars, endpoints, emission, rows, loop, traffic, IInv, TypeOK
  <2>2. Once'
    BY <1>6 DEF vars, endpoints, emission, rows, loop, traffic, IInv, Once, InBatch
  <2> QED
    BY <1>6, <2>1, <2>2, QuietInv DEF vars
<1> QED
  BY <1>1, <1>2, <1>3, <1>4, <1>5, <1>6 DEF Next

-----------------------------------------------------------------------------
(* Theorems *)

\* What the process, its drain loop and its emitters keep true of the tables and
\* of each other at any time (processPendingDeliveries, emitEvent).
THEOREM Invariance == Spec => []IInv
<1> QED
  BY InitInv, NextInv, PTL DEF Spec

\* The state has the types of the table's columns and of the loop's local variables.
THEOREM TypeCorrect == Spec => []TypeOK
<1>1. IInv => TypeOK
  BY DEF IInv
<1> QED
  BY <1>1, Invariance, PTL

\* A consumer gets at most MAX_ATTEMPTS requests of a delivery, and one more for each
\* interruption, whatever fails and whoever deletes endpoints meanwhile.
THEOREM PostsBounded == Spec => []BoundedPosts
<1>1. IInv => BoundedPosts
  BY DEF IInv, Counted, BoundedPosts
<1> QED
  BY <1>1, Invariance, PTL

\* delivered means that the consumer took it, failed that it had all its attempts
\* or that its URL is refused.
THEOREM OutcomeTrue == Spec => []TruthfulOutcome
<1>1. IInv => TruthfulOutcome
  BY DEF IInv
<1> QED
  BY <1>1, Invariance, PTL

\* A settled delivery is never posted again.
THEOREM QuietOnceSettled == Spec => SettledStaysQuiet
<1> DEFINE Quiet == \A d \in Delivery : posts'[d] > posts[d] => status[d] \in {"pending", "none"}
<1>1. IInv /\ [Next]_vars => [Quiet]_vars
  <2> SUFFICES ASSUME IInv, Next, NEW d \in Delivery, posts'[d] > posts[d]
               PROVE  status[d] \in {"pending", "none"}
    OBVIOUS
  <2>1. CASE Post
    <3>1. batch # <<>> /\ posts' = [posts EXCEPT ![Head(batch)] = @ + 1]
      BY <2>1 DEF Post
    <3>2. Head(batch) = batch[1] /\ 1 \in 1 .. Len(batch)
      BY <3>1, TheRest DEF IInv
    <3>3. posts \in [Delivery -> Nat]
      BY DEF IInv, TypeOK
    <3>4. d = batch[1]
      BY <3>1, <3>2, <3>3
    <3> QED
      BY <3>2, <3>4 DEF IInv, Batched
  <2>2. CASE posts' = posts
    <3>1. posts[d] \in Nat
      BY DEF IInv, TypeOK
    <3> QED
      BY <2>2, <3>1
  <2>3. Post \/ posts' = posts
    BY DEF Next, Customer, Delete, Emit, Drain, Register, DeleteRead, DeleteRows, DeleteEndpoint,
           Happens, SelectEndpoints, InsertDelivery, EmitEnds, InsertRefused, BecomesDue,
           SelectDue, Refuse, RecordPost, DrainEnds, DrainFails, Crash, Restart, traffic
  <2> QED
    BY <2>1, <2>2, <2>3
<1> QED
  BY <1>1, Invariance, PTL DEF Spec, SettledStaysQuiet
=============================================================================
