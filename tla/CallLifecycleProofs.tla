------------------------- MODULE CallLifecycleProofs -------------------------
(***************************************************************************)
(* Proofs about CallLifecycle, for every set of calls, jobs, limits and   *)
(* ticks: any number of ticks of one interval may overlap, as setInterval  *)
(* lets them.  A row that two of them had at the same time is in contested *)
(* and the parts about dialing say nothing of it any more; every other row *)
(* is held by one thread at a time, and that is what is proved of it.      *)
(***************************************************************************)
EXTENDS CallLifecycle, TLAPS

-----------------------------------------------------------------------------
(* The inductive invariant.  Its heart: a row that is not contested is held *)
(* by at most one thread, and held before its flip to 'dialing' it is       *)
(* untouched: it has no leg and no job.                                     *)

Working == {"insert", "insert_parked", "park", "unpark",
            "dispatch", "flip", "agent", "sip", "fail"}
PreFlip == {"park", "unpark", "dispatch", "flip"}
Unborn  == {"idle", "insert", "insert_parked"}

\* Thread t will still do something to row c; it has not flipped it yet.
Holds(t, c)   == c \in todo[t] \/ (cur[t] = c /\ pc[t] \in Working)
Pending(t, c) == c \in todo[t] \/ (cur[t] = c /\ pc[t] \in PreFlip)

\* Nobody has given call c an agent or dialed its number.
Untouched(c) == legs[c] = 0 /\ \A j \in Job : job[j].call # c

\* Which thread runs which code, on which rows.
Shape ==
  /\ \A c \in Call :
       /\ cur[c] = c /\ todo[c] = {}
       /\ pc[c] \in Unborn \cup {"done", "dispatch", "flip", "agent", "sip", "fail"}
       /\ pc[c] \in {"insert_parked", "dispatch", "flip", "agent", "sip", "fail"} => c \in Immediate
       /\ pc[c] = "insert" => c \notin Later
  /\ \A t \in SchedTick : pc[t] \in {"idle", "fire", "park", "dispatch", "flip", "agent", "sip", "fail"}
  /\ \A t \in DrainTick : pc[t] \in {"idle", "expire", "drain", "unpark", "dispatch", "flip", "agent", "sip", "fail"}
  /\ \A t \in Tick :
       /\ pc[t] = "idle" => todo[t] = {}
       /\ todo[t] \subseteq Outbound
       /\ pc[t] \in Working => cur[t] \in Outbound

\* A job that is not free, a cancellation under way and a mark on a row belong to a row.
Owned ==
  /\ \A j \in Job :
       IF job[j].call = NoCall THEN job[j] = FreeJob ELSE status[job[j].call] # "none"
  /\ \A c \in Call : canceler[c] # "idle" => status[c] # "none"
  /\ \A c \in parked \cup expired \cup contested : c \in Outbound /\ status[c] # "none"

\* No two threads hold the same row, unless it is contested.
Alone ==
  /\ \A t, u \in Thread : \A c \in Call \ contested : Holds(t, c) /\ Holds(u, c) => t = u
  /\ \A t \in Thread : pc[t] \in Working => cur[t] \notin todo[t]

\* What the holder of a row knows of its status, whatever happened since it read it.
StatusOfHeld ==
  /\ \A c \in Call : pc[c] \in Unborn => status[c] = "none"
  /\ \A t \in Thread, c \in Call :
       Pending(t, c) \/ (cur[t] = c /\ pc[t] \in {"agent", "sip", "fail"}) => status[c] # "none"
  /\ \A t \in Thread, c \in Call \ contested :
       /\ Pending(t, c) => /\ status[c] \in {"queued", "scheduled", "canceled"}
                           /\ t \in SchedTick => status[c] # "queued"
                           /\ t \notin SchedTick => status[c] # "scheduled"
                           /\ t \in Call => c \notin parked
       /\ cur[t] = c /\ pc[t] \in {"agent", "sip", "fail"}
            => status[c] \notin {"none", "queued", "scheduled"}

Fresh ==
  /\ \A c \in Outbound \ contested : status[c] \in {"none", "queued", "scheduled"} => Untouched(c)
  /\ \A t \in Thread, c \in Outbound \ contested :
       /\ Pending(t, c) \/ (cur[t] = c /\ pc[t] = "agent") => Untouched(c)
       /\ cur[t] = c /\ pc[t] = "sip" => legs[c] = 0

Expiry ==
  \A c \in expired \ contested :
    /\ status[c] = "canceled" /\ Untouched(c)
    /\ \A t \in Thread : ~ Holds(t, c)

Ripe ==
  /\ parked \cap Later \subseteq due
  /\ \A t \in Thread, c \in Later : Holds(t, c) => c \in due

IInv ==
  /\ TypeOK /\ Shape /\ Owned /\ Alone /\ StatusOfHeld /\ Fresh /\ Expiry /\ Ripe
  /\ AtMostOnceDialed /\ NotDialedEarly

-----------------------------------------------------------------------------
(* Steps that need the same argument. *)

LEMMA PendingIsFresh ==
  ASSUME IInv, NEW t \in Thread, NEW c, Pending(t, c)
  PROVE  c \in Outbound /\ Holds(t, c) /\ (c \notin contested => Untouched(c))
<1>1. PreFlip \subseteq Working
  BY DEF PreFlip, Working
<1>2. CASE t \in Call
  BY <1>1, <1>2 DEF IInv, Shape, Fresh, Pending, Holds, Outbound, PreFlip, Unborn
<1>3. CASE t \in Tick
  BY <1>1, <1>3 DEF IInv, Shape, Fresh, Pending, Holds
<1> QED BY <1>2, <1>3 DEF Thread

\* A step that only advances jobs or cancellations: every job keeps its call.
LEMMA JobsAdvance ==
  ASSUME IInv, TypeOK', Owned', UNCHANGED <<db, clock, gw, legs>>,
         \A j \in Job : job'[j].call = job[j].call
  PROVE  IInv'
<1> USE DEF db, clock, gw
<1>1. Shape' /\ Alone' /\ Ripe'
  BY DEF IInv, Shape, Alone, Ripe, Holds
<1>2. \A c \in Call : Untouched(c) => Untouched(c)'
  BY DEF Untouched
<1>3. StatusOfHeld' /\ Fresh'
  BY <1>2, Zenon DEF IInv, StatusOfHeld, Fresh, Pending, Outbound, Call
<1>4. Expiry'
  BY <1>2 DEF IInv, Expiry, Holds, TypeOK
<1>5. AtMostOnceDialed' /\ NotDialedEarly'
  BY DEF IInv, AtMostOnceDialed, NotDialedEarly
<1> QED BY <1>1, <1>3, <1>4, <1>5 DEF IInv

\* A step that changes threads only, and leaves no thread with a row that it did
\* not hold: the thread reads, gives up, or goes from its list to one row of it.
LEMMA NothingTaken ==
  ASSUME IInv, TypeOK', Shape', Owned', UNCHANGED <<db, clock, contested, legs, job>>,
         \A t \in Thread, c \in Call :
           /\ Holds(t, c)' => Holds(t, c)
           /\ Pending(t, c)' => Pending(t, c)
           /\ cur'[t] = c /\ pc'[t] \in {"agent", "sip", "fail"} => cur[t] = c /\ pc'[t] = pc[t],
         \A t \in Thread : pc'[t] \in Working => cur'[t] \notin todo'[t],
         \A c \in Call : pc'[c] \in Unborn => pc[c] \in Unborn
  PROVE  IInv'
<1> USE DEF db, clock
<1>1. Alone'
  BY DEF IInv, Alone
<1>2. StatusOfHeld'
  BY DEF IInv, StatusOfHeld
<1>3. Fresh'
  BY DEF IInv, Fresh, Untouched, Call, Outbound
<1>4. Expiry'
  BY DEF IInv, Expiry, TypeOK, Untouched
<1>5. Ripe'
  BY DEF IInv, Ripe, Call, Outbound
<1>6. AtMostOnceDialed' /\ NotDialedEarly'
  BY DEF IInv, AtMostOnceDialed, NotDialedEarly
<1> QED BY <1>1, <1>2, <1>3, <1>4, <1>5, <1>6 DEF IInv

\* A tick that holds nothing reads a list of rows that nobody holds, except for
\* those that become contested.
LEMMA RowsSelected ==
  ASSUME IInv, NEW t \in Tick, NEW S \in SUBSET Outbound, TypeOK', Shape',
         UNCHANGED <<db, clock, canceler, legs, job, cur>>,
         contested \subseteq contested', contested' \subseteq contested \cup S,
         todo' = [todo EXCEPT ![t] = S],
         pc'[t] \in {"fire", "expire", "drain", "idle"},
         \A u \in Thread \ {t} : pc'[u] = pc[u],
         \A c \in S :
           /\ status[c] = (IF t \in SchedTick THEN "scheduled" ELSE "queued")
           /\ c \in Later => c \in due
           /\ c \notin contested' => \A u \in Thread \ {t} : ~ Holds(u, c)
  PROVE  IInv'
<1> USE DEF db, clock
<1>0. t \in Thread /\ t \notin Call
  BY Kinds DEF Tick, Thread
<1>1. \A c \in Call : (Holds(t, c)' <=> c \in S) /\ (Pending(t, c)' <=> c \in S)
  BY <1>0 DEF Holds, Pending, Working, PreFlip, IInv, TypeOK
<1>2. \A u \in Thread \ {t}, c \in Call :
        (Holds(u, c)' <=> Holds(u, c)) /\ (Pending(u, c)' <=> Pending(u, c))
  BY DEF Holds, Pending, IInv, TypeOK
<1>3. Owned'
  BY DEF IInv, Owned
<1>4. Alone'
  <2>1. \A u, v \in Thread : \A c \in Call \ contested' : Holds(u, c)' /\ Holds(v, c)' => u = v
    BY <1>1, <1>2 DEF IInv, Alone
  <2>2. \A u \in Thread : (pc[u] \in Working => cur[u] \notin todo[u])'
    BY <1>0 DEF IInv, Alone, TypeOK, Working
  <2> QED BY <2>1, <2>2 DEF Alone
<1>5. StatusOfHeld'
  <2>1. \A c \in Call : (pc[c] \in Unborn => status[c] = "none")'
    BY <1>0 DEF IInv, StatusOfHeld, Thread
  <2> QED BY <1>0, <1>1, <1>2, <2>1 DEF IInv, StatusOfHeld
<1>6. Fresh'
  BY <1>0, <1>1, <1>2 DEF IInv, Fresh, Untouched, Call, Outbound
<1>7. Expiry'
  BY <1>1, <1>2 DEF IInv, Expiry, TypeOK, Untouched
<1>8. Ripe'
  BY <1>1, <1>2 DEF IInv, Ripe, Call, Outbound
<1>9. AtMostOnceDialed' /\ NotDialedEarly'
  BY DEF IInv, AtMostOnceDialed, NotDialedEarly
<1> QED BY <1>3, <1>4, <1>5, <1>6, <1>7, <1>8, <1>9 DEF IInv

-----------------------------------------------------------------------------
(* Every step keeps the invariant. *)

LEMMA InitInv == Init => IInv
<1> SUFFICES ASSUME Init PROVE IInv
  OBVIOUS
<1>1. TypeOK
  BY Kinds, Limits DEF Init, TypeOK, FreeJob, NewJob, JobRecord, PC, Status, Thread
<1>2. Shape /\ Alone
  BY <1>1, Kinds DEF Init, Shape, Alone, Holds, Working, Unborn, Thread, Tick, Call, Outbound
<1>3. Owned /\ Expiry
  BY Kinds DEF Init, Owned, Expiry, FreeJob, NewJob
<1>4. StatusOfHeld /\ Fresh /\ Ripe
  BY Kinds DEF Init, StatusOfHeld, Fresh, Ripe, Holds, Pending, Untouched, FreeJob, NewJob,
               PreFlip, Working, Thread, Call, Outbound
<1>5. AtMostOnceDialed /\ NotDialedEarly
  BY Kinds DEF Init, AtMostOnceDialed, NotDialedEarly, FreeJob, NewJob, Call, Outbound
<1> QED BY <1>1, <1>2, <1>3, <1>4, <1>5 DEF IInv

\* Jobs and cancellations, except for what their reports write.
LEMMA JobStepInv ==
  ASSUME IInv, NEW j \in Job, GoLive(j) \/ Finish(j) \/ Disconnected(j) \/ WorkerDies(j) \/ ReportLost(j)
  PROVE  IInv'
<1>1. job \in [Job -> JobRecord] /\ job[j] \in JobRecord
  BY DEF IInv, TypeOK
<1>2. job[j].call # NoCall
  BY DEF IInv, Owned, FreeJob, NewJob, GoLive, Finish, Disconnected, WorkerDies, ReportLost
<1>3. job' \in [Job -> JobRecord] /\ \A k \in Job : job'[k].call = job[k].call
  <2>1. CASE GoLive(j)
    <3>1. job' = [job EXCEPT ![j] = [job[j] EXCEPT !.at = "live", !.started = "flying"]]
      BY <1>1, <2>1 DEF GoLive, JobRecord
    <3> QED BY <1>1, <3>1 DEF JobRecord
  <2>2. CASE Finish(j)
    <3>1. Evict(job[j].call) \in [Job -> JobRecord]
          /\ \A k \in Job : Evict(job[j].call)[k].call = job[k].call
      BY <1>1 DEF Evict, JobRecord
    <3>2. job' = [Evict(job[j].call) EXCEPT ![j] = [job[j] EXCEPT !.at = "over", !.result = "flying"]]
      BY <2>2 DEF Finish
    <3> HIDE DEF Evict
    <3> QED BY <1>1, <3>1, <3>2 DEF JobRecord
  <2>3. CASE Disconnected(j)
    <3>1. PICK r \in {"flying", "unsent"} :
            job' = [job EXCEPT ![j] = [job[j] EXCEPT !.at = "over", !.result = r]]
      BY <1>1, <2>3 DEF Disconnected, JobRecord
    <3> QED BY <1>1, <3>1 DEF JobRecord
  <2>4. CASE WorkerDies(j)
    BY <1>1, <2>4 DEF WorkerDies, JobRecord
  <2>5. CASE ReportLost(j)
    BY <1>1, <2>5 DEF ReportLost, JobRecord
  <2> QED BY <2>1, <2>2, <2>3, <2>4, <2>5
<1>4. UNCHANGED <<db, clock, gw, canceler, legs>> /\ faults' \in 0 .. MaxFaults
  BY Limits DEF GoLive, Finish, Disconnected, WorkerDies, ReportLost, Fault, IInv, TypeOK
<1>5. TypeOK'
  BY <1>3, <1>4 DEF IInv, TypeOK, db, clock, gw
<1>6. Owned'
  <2>1. \A k \in Job : job[k].call = NoCall => job'[k] = job[k]
    BY <1>1, <1>2 DEF GoLive, Finish, Disconnected, WorkerDies, ReportLost, Evict
  <2> QED BY <1>3, <1>4, <2>1 DEF IInv, Owned, db, gw
<1> QED BY <1>3, <1>4, <1>5, <1>6, JobsAdvance

LEMMA CancelInv ==
  ASSUME IInv, NEW c \in Call, Cancel(c)
  PROVE  IInv'
<1>1. CASE CancelRead(c)
  <2>1. TypeOK' /\ Owned'
    BY <1>1 DEF CancelRead, Cancelable, IInv, TypeOK, Owned, LiveStatus, db, clock, gw
  <2> QED BY <1>1, <2>1, JobsAdvance DEF CancelRead
<1>2. CASE CancelRoom(c)
  <2>1. job' \in [Job -> JobRecord] /\ \A k \in Job : job'[k].call = job[k].call
    BY <1>2 DEF CancelRoom, Evict, IInv, TypeOK, JobRecord
  <2>2. TypeOK' /\ Owned'
    <3>1. \A k \in Job : job[k].call = NoCall => job'[k] = job[k]
      BY <1>2, Kinds DEF CancelRoom, Evict
    <3> QED BY <1>2, <2>1, <3>1 DEF CancelRoom, IInv, TypeOK, Owned, db, clock, gw
  <2> QED BY <1>2, <2>1, <2>2, JobsAdvance DEF CancelRoom
<1>4. CASE CancelRoomFails(c)
  <2>1. TypeOK' /\ Owned'
    BY <1>4, Limits DEF CancelRoomFails, Fault, IInv, TypeOK, Owned, db, clock, gw
  <2> QED BY <1>4, <2>1, JobsAdvance DEF CancelRoomFails
<1>3. CASE CancelWrite(c)
  <2> USE <1>3 DEF CancelWrite, clock, gw
  <2>1. TypeOK'
    BY DEF IInv, TypeOK, Status
  <2>2. Shape' /\ Alone' /\ Ripe'
    BY DEF IInv, Shape, Alone, Ripe, Holds
  <2>3. Owned'
    BY DEF IInv, Owned, TypeOK
  <2>4. StatusOfHeld'
    BY DEF IInv, StatusOfHeld, Owned, TypeOK, Pending
  <2>5. Fresh'
    BY DEF IInv, Fresh, TypeOK, Pending, Untouched, Call, Outbound
  <2>6. Expiry'
    BY DEF IInv, Expiry, TypeOK, Holds, Untouched
  <2>7. AtMostOnceDialed' /\ NotDialedEarly'
    BY DEF IInv, AtMostOnceDialed, NotDialedEarly
  <2> QED BY <2>1, <2>2, <2>3, <2>4, <2>5, <2>6, <2>7 DEF IInv
<1> QED BY <1>1, <1>2, <1>3, <1>4 DEF Cancel

\* A report only reaches a row that has a job, so no thread waits to dial it.
LEMMA ReportInv ==
  ASSUME IInv, NEW j \in Job, Report(j)
  PROVE  IInv'
<1> DEFINE c == job[j].call
<1>1. c \in Call /\ job \in [Job -> JobRecord] /\ status[c] # "none"
  BY DEF Report, ReceiveStarted, ReceiveComplete, IInv, TypeOK, Owned, JobRecord, FreeJob, NewJob
<1>2. PICK st \in {"active", "ended"} : status' = [status EXCEPT ![c] = st]
  BY DEF Report, ReceiveStarted, ReceiveComplete
<1>3. expired' \subseteq expired /\ UNCHANGED <<parked, older, clock, gw, canceler, legs, faults>>
  BY DEF Report, ReceiveStarted, ReceiveComplete
<1>4. /\ job' \in [Job -> JobRecord]
      /\ \A k \in Job : job'[k].call = job[k].call /\ (job[k].call = NoCall => job'[k] = job[k])
  BY <1>1, Kinds DEF Report, ReceiveStarted, ReceiveComplete, JobRecord
<1> USE DEF clock, gw
<1>5. TypeOK'
  BY <1>2, <1>3, <1>4 DEF IInv, TypeOK, Status, DailyCounted, LiveStatus
<1>6. Shape' /\ Alone' /\ Ripe'
  BY <1>3 DEF IInv, Shape, Alone, Ripe, Holds
<1>7. Owned'
  BY <1>1, <1>2, <1>3, <1>4 DEF IInv, Owned, TypeOK
<1>8. \A d \in Call : Untouched(d) => d # c
  BY DEF Untouched
<1>9. \A d \in Call : Untouched(d) => Untouched(d)'
  BY <1>3, <1>4 DEF Untouched
<1>10. c \in contested \/ \A t \in Thread : ~ Pending(t, c)
  BY <1>1, <1>8, PendingIsFresh
<1>11. StatusOfHeld'
  BY <1>1, <1>2, <1>3, <1>10 DEF IInv, StatusOfHeld, TypeOK, Pending
<1>12. Fresh'
  BY <1>1, <1>2, <1>3, <1>8, <1>9 DEF IInv, Fresh, TypeOK, Pending, Call, Outbound
<1>13. Expiry'
  BY <1>2, <1>3, <1>8, <1>9 DEF IInv, Expiry, TypeOK, Holds
<1>14. AtMostOnceDialed' /\ NotDialedEarly'
  BY <1>3, <1>4 DEF IInv, AtMostOnceDialed, NotDialedEarly
<1> QED BY <1>5, <1>6, <1>7, <1>11, <1>12, <1>13, <1>14 DEF IInv

\* A call whose handler has not inserted it yet is nobody's.
LEMMA UnbornIsNobodys ==
  ASSUME IInv, NEW c \in Call, pc[c] \in Unborn
  PROVE  /\ status[c] = "none" /\ c \notin expired \cup parked /\ canceler[c] = "idle"
         /\ \A t \in Thread : ~ Pending(t, c)
         /\ \A t \in Thread \ {c} : ~ Holds(t, c)
         /\ \A j \in Job : job[j].call # c
         /\ c \notin contested
<1>1. status[c] = "none"
  BY DEF IInv, StatusOfHeld
<1>2. c \notin expired \cup parked \cup contested /\ canceler[c] = "idle"
  BY <1>1 DEF IInv, Owned
<1>3. \A t \in Thread : ~ Pending(t, c)
  BY <1>1 DEF IInv, StatusOfHeld
<1>4. \A t \in Thread \ {c} : ~ Holds(t, c)
  <2> SUFFICES ASSUME NEW t \in Thread \ {c}, Holds(t, c) PROVE FALSE
    OBVIOUS
  <2>1. cur[t] = c /\ pc[t] \in {"insert", "insert_parked", "agent", "sip", "fail"}
    BY <1>3 DEF Holds, Pending, Working, PreFlip
  <2>2. CASE t \in Call
    BY <2>1, <2>2 DEF IInv, Shape
  <2>3. CASE t \in Tick
    BY <1>1, <2>1, <2>3 DEF IInv, Shape, StatusOfHeld, Tick
  <2> QED BY <2>2, <2>3 DEF Thread
<1>5. \A j \in Job : job[j].call # c
  BY <1>1, Kinds DEF IInv, Owned
<1> QED BY <1>1, <1>2, <1>3, <1>4, <1>5

\* The INSERT of a row, whatever its status.
LEMMA Inserted ==
  ASSUME IInv, NEW c \in Call, pc[c] \in Unborn,
         NEW st \in {"scheduled", "queued", "active"}, NEW l \in {"done", "dispatch"},
         Insert(c, st), Goto(c, l),
         st = "active" => c \in Inbound,
         l = "dispatch" => st = "queued" /\ c \in Immediate /\ c \notin parked',
         parked' = parked \/ (c \in Immediate /\ parked' = parked \cup {c}),
         UNCHANGED <<clock, todo, contested, canceler, legs, faults>>,
         job' = job \/ (c \in Inbound /\ \E j \in Job :
           /\ job[j].call = NoCall
           /\ job' = [job EXCEPT ![j] = NewJob(c, "live")])
  PROVE  IInv'
<1> USE DEF Insert, Goto, clock
<1>1. /\ status[c] = "none" /\ c \notin expired /\ canceler[c] = "idle"
      /\ \A t \in Thread : ~ Pending(t, c)
      /\ \A t \in Thread \ {c} : ~ Holds(t, c)
      /\ \A j \in Job : job[j].call # c
      /\ c \notin contested
  BY UnbornIsNobodys
<1>2. c \in Thread /\ c \notin Tick
  BY Kinds DEF Thread
<1>3. /\ job' \in [Job -> JobRecord]
      /\ \A j \in Job : \/ job'[j] = job[j]
                        \/ c \in Inbound /\ job[j].call = NoCall /\ job'[j].call = c
  BY DEF IInv, TypeOK, NewJob, JobRecord
<1>4. TypeOK'
  BY <1>2, <1>3 DEF IInv, TypeOK, Rows, PC, Status, DailyCounted, LiveStatus, Outbound, Call
<1>5. Shape'
  BY <1>2, Kinds DEF IInv, TypeOK, Shape, Unborn, Tick, Outbound
<1>6. \A t \in Thread, d \in Call : t # c =>
        (Holds(t, d)' <=> Holds(t, d)) /\ (Pending(t, d)' <=> Pending(t, d)) /\ pc'[t] = pc[t]
  BY DEF IInv, TypeOK, Holds, Pending
<1>7. \A d \in Call : (Holds(c, d)' => d = c /\ l = "dispatch") /\ (Pending(c, d)' => d = c /\ l = "dispatch")
  BY <1>2 DEF IInv, TypeOK, Shape, Holds, Pending, Working, PreFlip
<1>8. Owned'
  BY <1>1, <1>3, Kinds DEF IInv, Owned, TypeOK, Outbound
<1>9. Alone'
  <2>1. \A t, u \in Thread : \A d \in Call \ contested' : Holds(t, d)' /\ Holds(u, d)' => t = u
    BY <1>1, <1>6, <1>7 DEF IInv, Alone
  <2>2. \A t \in Thread : (pc[t] \in Working => cur[t] \notin todo[t])'
    BY <1>2, <1>6 DEF IInv, Alone, Shape
  <2> QED BY <2>1, <2>2 DEF Alone
<1>10. StatusOfHeld'
  <2>1. \A d \in Call : (pc[d] \in Unborn => status[d] = "none")'
    BY <1>2 DEF IInv, StatusOfHeld, TypeOK, Unborn, Thread
  <2>2. ASSUME NEW t \in Thread, NEW d \in Call \ contested', Pending(t, d)'
        PROVE  (/\ status[d] \in {"queued", "scheduled", "canceled"}
                /\ t \in SchedTick => status[d] # "queued"
                /\ t \notin SchedTick => status[d] # "scheduled"
                /\ t \in Call => d \notin parked)'
    <3>1. CASE t = c
      BY <1>2, <1>7, <2>2, <3>1 DEF IInv, TypeOK, Tick
    <3>2. CASE t # c
      BY <1>1, <1>6, <2>2, <3>2 DEF IInv, TypeOK, StatusOfHeld
    <3> QED BY <3>1, <3>2
  <2>3. \A t \in Thread, d \in Call \ contested' :
          (cur[t] = d /\ pc[t] \in {"agent", "sip", "fail"}
             => status[d] \notin {"none", "queued", "scheduled"})'
    BY <1>1, <1>2, <1>6 DEF IInv, TypeOK, StatusOfHeld, Holds, Working
  <2>4. \A t \in Thread, d \in Call :
          (Pending(t, d) \/ (cur[t] = d /\ pc[t] \in {"agent", "sip", "fail"}) => status[d] # "none")'
    BY <1>1, <1>2, <1>6, <1>7 DEF IInv, TypeOK, StatusOfHeld
  <2> QED BY <2>1, <2>2, <2>3, <2>4 DEF StatusOfHeld
<1>11. Fresh'
  <2>1. \A d \in Outbound : Untouched(d) => Untouched(d)'
    BY <1>3, Kinds DEF Untouched, Call, Outbound
  <2>2. c \in Outbound => Untouched(c)
    BY <1>1 DEF IInv, Fresh
  <2>3. \A d \in Outbound \ contested' : (status[d] \in {"none", "queued", "scheduled"} => Untouched(d))'
    BY <2>1, <2>2 DEF IInv, Fresh, TypeOK, Call
  <2>4. \A t \in Thread, d \in Outbound \ contested' :
          (/\ Pending(t, d) \/ (cur[t] = d /\ pc[t] = "agent") => Untouched(d)
           /\ cur[t] = d /\ pc[t] = "sip" => legs[d] = 0)'
    BY <1>2, <1>6, <1>7, <2>1, <2>2 DEF IInv, Fresh, TypeOK, Call
  <2> QED BY <2>3, <2>4 DEF Fresh
<1>12. Expiry'
  BY <1>1, <1>3, <1>6, <1>7, Kinds DEF IInv, Expiry, TypeOK, Untouched, Outbound
<1>13. Ripe'
  BY <1>6, <1>7, Kinds DEF IInv, Ripe, Call, Outbound
<1>14. AtMostOnceDialed' /\ NotDialedEarly'
  BY <1>3, Kinds DEF IInv, AtMostOnceDialed, NotDialedEarly, Outbound
<1> QED BY <1>4, <1>5, <1>8, <1>9, <1>10, <1>11, <1>12, <1>13, <1>14 DEF IInv

LEMMA BirthInv ==
  ASSUME IInv, NEW c \in Call, Birth(c)
  PROVE  IInv'
<1>1. CASE PostScheduled(c)
  BY <1>1, Inserted, Kinds DEF PostScheduled, Unborn
<1>2. CASE InsertOutbound(c)
  <2>1. c \notin parked
    BY <1>2, UnbornIsNobodys DEF InsertOutbound, Unborn
  <2> QED BY <1>2, <2>1, Inserted DEF InsertOutbound, Unborn
<1>3. CASE InsertWeb(c)
  BY <1>3, Inserted DEF InsertWeb, Unborn
<1>4. CASE InsertInbound(c)
  BY <1>4, Inserted DEF InsertInbound, Unborn
<1>5. CASE CheckBirth(c) \/ TestSession(c)
  <2>1. PICK l \in {"insert", "insert_parked", "done"} :
          /\ Goto(c, l) /\ c \notin Later /\ (l = "insert_parked" => c \in Immediate)
    BY <1>5, Kinds DEF CheckBirth, TestSession, Call, Outbound
  <2>2. pc[c] = "idle" /\ UNCHANGED <<db, clock, todo, contested, canceler, legs, job, faults>>
    BY <1>5 DEF CheckBirth, TestSession
  <2> USE DEF Goto, db, clock
  <2>3. c \in Thread /\ c \notin Tick
    BY Kinds DEF Thread
  <2>4. /\ status[c] = "none" /\ \A t \in Thread \ {c} : ~ Holds(t, c)
    BY <2>2, UnbornIsNobodys DEF Unborn
  <2>5. TypeOK' /\ Owned'
    BY <2>1, <2>2, <2>3 DEF IInv, TypeOK, Owned, PC
  <2>6. Shape'
    BY <2>1, <2>2, <2>3, Kinds DEF IInv, TypeOK, Shape, Unborn, Tick
  <2>7. \A t \in Thread \ {c}, d \in Call :
          (Holds(t, d)' <=> Holds(t, d)) /\ pc'[t] = pc[t]
    BY <2>1, <2>2 DEF IInv, TypeOK, Holds
  <2>8. \A d \in Call : Holds(c, d)' => d = c
    BY <2>1, <2>2 DEF IInv, Shape, Holds
  <2>9. \A t \in Thread, d \in Call : Pending(t, d)' => Pending(t, d)
    BY <2>1, <2>2 DEF IInv, TypeOK, Pending, PreFlip
  <2>10. Alone'
    BY <2>1, <2>2, <2>4, <2>7, <2>8 DEF IInv, Alone, Shape
  <2>11. StatusOfHeld'
    BY <2>1, <2>2, <2>3, <2>4, <2>9 DEF IInv, StatusOfHeld, TypeOK, Unborn
  <2>12. Fresh'
    BY <2>1, <2>2, <2>3, <2>9 DEF IInv, Fresh, TypeOK, Untouched, Call
  <2>13. Expiry'
    BY <2>2, <2>4, <2>7, <2>8, UnbornIsNobodys DEF IInv, Expiry, TypeOK, Untouched, Unborn
  <2>14. Ripe' /\ AtMostOnceDialed' /\ NotDialedEarly'
    BY <2>1, <2>2, <2>7, <2>8 DEF IInv, Ripe, AtMostOnceDialed, NotDialedEarly, Call, Outbound
  <2> QED BY <2>5, <2>6, <2>10, <2>11, <2>12, <2>13, <2>14 DEF IInv
<1> QED BY <1>1, <1>2, <1>3, <1>4, <1>5 DEF Birth

\* A browser's room, and time.
LEMMA EnvironmentInv ==
  ASSUME IInv, NEW c \in Call, BrowserJoins(c) \/ BecomesDue(c) \/ GrowsStale(c)
  PROVE  IInv'
<1> USE DEF db, clock, gw
<1>1. CASE BrowserJoins(c)
  <2>1. /\ c \in Web /\ status[c] # "none"
        /\ UNCHANGED <<db, clock, gw, canceler, legs, faults>>
    BY <1>1 DEF BrowserJoins
  <2>2. /\ job' \in [Job -> JobRecord]
        /\ \A j \in Job : job'[j] = job[j] \/ job'[j].call = c
    BY <1>1 DEF BrowserJoins, StartJob, NewJob, IInv, TypeOK, JobRecord
  <2>3. TypeOK' /\ Shape' /\ Alone' /\ StatusOfHeld' /\ Ripe'
    BY <2>1, <2>2 DEF IInv, TypeOK, Shape, Alone, StatusOfHeld, Ripe, Holds, Pending
  <2>4. Owned'
    BY <2>1, <2>2, Kinds DEF IInv, Owned, Call
  <2>5. \A d \in Outbound : Untouched(d) => Untouched(d)'
    BY <2>1, <2>2, Kinds DEF Untouched
  <2>6. Fresh' /\ Expiry'
    BY <2>1, <2>5 DEF IInv, Fresh, Expiry, Owned, Holds, Pending
  <2>7. AtMostOnceDialed' /\ NotDialedEarly'
    BY <2>1, <2>2, Kinds DEF IInv, AtMostOnceDialed, NotDialedEarly
  <2> QED BY <2>3, <2>4, <2>6, <2>7 DEF IInv
<1>2. CASE BecomesDue(c) \/ GrowsStale(c)
  <2>1. /\ due \subseteq due' /\ due' \subseteq Later /\ stale' \subseteq Outbound
        /\ UNCHANGED <<db, gw, canceler, legs, job, faults>>
    BY <1>2 DEF BecomesDue, GrowsStale, IInv, TypeOK
  <2>2. TypeOK' /\ Shape' /\ Owned' /\ Alone' /\ StatusOfHeld'
    BY <2>1 DEF IInv, TypeOK, Shape, Owned, Alone, StatusOfHeld, Holds, Pending
  <2>3. Fresh' /\ Expiry' /\ Ripe'
    BY <2>1 DEF IInv, Fresh, Expiry, Ripe, Holds, Pending, Untouched
  <2>4. AtMostOnceDialed' /\ NotDialedEarly'
    BY <2>1 DEF IInv, AtMostOnceDialed, NotDialedEarly
  <2> QED BY <2>2, <2>3, <2>4 DEF IInv
<1> QED BY <1>1, <1>2

LEMMA FaultInv ==
  ASSUME IInv, GatewayCrash \/ (\E t \in Thread : StatementFails(t))
  PROVE  IInv'
<1> USE DEF db, clock
<1>1. CASE GatewayCrash
  <2> USE <1>1 DEF GatewayCrash, Gone, Fault
  <2>1. TypeOK' /\ Shape' /\ Owned'
    BY Limits, Kinds DEF IInv, TypeOK, Shape, Owned, PC, Unborn, Working, Thread, Tick, Call, Outbound
  <2>2. \A t \in Thread : todo'[t] = {} /\ pc'[t] \notin Working
    BY DEF Working
  <2>3. \A c \in Call : pc'[c] \in Unborn => pc[c] \in Unborn
    BY Kinds DEF Unborn, Thread
  <2>4. \A t \in Thread, c \in Call : ~ Holds(t, c)' /\ ~ Pending(t, c)'
    BY <2>2 DEF Holds, Pending, Working, PreFlip
  <2> QED BY <2>1, <2>2, <2>3, <2>4, NothingTaken DEF Working
<1>2. ASSUME NEW t \in Thread, StatementFails(t) PROVE IInv'
  <2> USE <1>2 DEF StatementFails, Gone, Fault, Take
  <2>1. TypeOK' /\ Shape' /\ Owned'
    BY Limits, Kinds DEF IInv, TypeOK, Shape, Owned, PC, Unborn, Working, Thread, Tick, Call, Outbound
  <2>2. \A u \in Thread : pc'[u] = pc[u] \/ (u = t /\ pc'[u] \in {"idle", "done"})
    BY DEF IInv, TypeOK
  <2>3. \A c \in Call : pc'[c] \in Unborn => pc[c] \in Unborn
    BY Kinds DEF Unborn, Thread, IInv, TypeOK
  <2>4. \A u \in Thread : u # t => pc'[u] = pc[u] /\ cur'[u] = cur[u] /\ todo'[u] = todo[u]
    BY DEF IInv, TypeOK
  <2>5. todo'[t] = {} /\ pc'[t] \notin Working
    BY DEF IInv, TypeOK, Working
  <2>6. \A u \in Thread, c \in Call :
          /\ Holds(u, c)' => Holds(u, c)
          /\ Pending(u, c)' => Pending(u, c)
          /\ cur'[u] = c /\ pc'[u] \in {"agent", "sip", "fail"} => cur[u] = c /\ pc'[u] = pc[u]
    BY <2>4, <2>5 DEF Holds, Pending, Working, PreFlip
  <2>7. \A u \in Thread : pc'[u] \in Working => cur'[u] \notin todo'[u]
    BY <2>4, <2>5 DEF IInv, Alone
  <2> QED BY <2>1, <2>3, <2>6, <2>7, NothingTaken
<1> QED BY <1>1, <1>2

\* dispatchOutbound: whoever runs it is the only holder of the row, unless it is contested.
LEMMA DispatchInv ==
  ASSUME IInv, NEW t \in Thread, Dispatch(t)
  PROVE  IInv'
<1> DEFINE c == cur[t]
<1> USE DEF db, clock, gw
<1>1. /\ c \in Outbound /\ c \in Call /\ Holds(t, c) /\ c \notin todo[t]
      /\ pc[t] \in {"dispatch", "flip", "agent", "sip", "fail"}
  <2>1. pc[t] \in {"dispatch", "flip", "agent", "sip", "fail"}
    BY DEF Dispatch, DispatchRead, FlipToDialing, CreateDispatch, PlaceLeg, MarkFailed
  <2>2. c \in Outbound
    <3>1. CASE t \in Call
      BY <2>1, <3>1 DEF IInv, Shape, Outbound
    <3>2. CASE t \in Tick
      BY <2>1, <3>2 DEF IInv, Shape, Working
    <3> QED BY <3>1, <3>2 DEF Thread
  <2> QED BY <2>1, <2>2 DEF IInv, Alone, Holds, Working, Call
<1>2. c \notin contested => \A u \in Thread \ {t} : ~ Holds(u, c)
  BY <1>1 DEF IInv, Alone
<1>3. c \notin contested => c \notin expired
  BY <1>1 DEF IInv, Expiry
\* Where the thread goes: on with the row, or back with nothing.
<1>4. ASSUME NEW l \in {"flip", "agent", "sip", "fail"}, Goto(t, l), UNCHANGED <<todo, contested>>
      PROVE  /\ Shape' /\ Alone' /\ pc'[t] = l /\ cur'[t] = c
             /\ \A u \in Thread \ {t} : pc'[u] = pc[u] /\ cur'[u] = cur[u]
             /\ \A u \in Thread, d \in Call : Holds(u, d)' <=> Holds(u, d)
             /\ \A u \in Thread, d \in Call : Pending(u, d)' =>
                  Pending(u, d) \/ (u = t /\ d = c /\ l = "flip")
             /\ pc' \in [Thread -> PC] /\ cur' \in [Thread -> Call \cup {NoCall}]
  <2> USE <1>4 DEF Goto
  <2>1. pc'[t] = l /\ cur'[t] = c /\ \A u \in Thread \ {t} : pc'[u] = pc[u] /\ cur'[u] = cur[u]
    BY DEF IInv, TypeOK
  <2>2. \A u \in Thread, d \in Call : Holds(u, d)' <=> Holds(u, d)
    BY <1>1, <2>1 DEF Holds, Working
  <2>3. Shape'
    BY <1>1, <2>1, Kinds DEF IInv, Shape, Thread, Tick, Working, Unborn
  <2>4. Alone'
    BY <1>1, <2>1, <2>2 DEF IInv, Alone
  <2>5. \A u \in Thread, d \in Call : Pending(u, d)' => Pending(u, d) \/ (u = t /\ d = c /\ l = "flip")
    BY <2>1 DEF Pending, PreFlip
  <2> QED BY <2>1, <2>2, <2>3, <2>4, <2>5 DEF IInv, TypeOK, PC
<1>5. ASSUME Return(t), UNCHANGED <<todo, contested>>
      PROVE  /\ Shape' /\ Alone' /\ pc'[t] \in {"fire", "drain", "idle", "done"}
             /\ pc'[t] = "idle" => t \notin Call
             /\ \A u \in Thread \ {t} : pc'[u] = pc[u] /\ cur'[u] = cur[u]
             /\ \A u \in Thread, d \in Call : Holds(u, d)' => Holds(u, d) /\ ~ (u = t /\ d = c)
             /\ \A u \in Thread, d \in Call : Pending(u, d)' => Pending(u, d)
             /\ pc' \in [Thread -> PC] /\ cur' \in [Thread -> Call \cup {NoCall}]
  <2> USE <1>5 DEF Return, After, Loop, Take
  <2>7. pc'[t] = "idle" => t \notin Call
    BY Kinds DEF IInv, TypeOK, Tick
  <2>1. pc'[t] \in {"fire", "drain", "idle", "done"} /\ \A u \in Thread \ {t} : pc'[u] = pc[u] /\ cur'[u] = cur[u]
    BY DEF IInv, TypeOK
  <2>2. \A u \in Thread, d \in Call : Holds(u, d)' => Holds(u, d) /\ ~ (u = t /\ d = c)
    BY <1>1, <2>1 DEF Holds, Working
  <2>3. Shape'
    BY <1>1, Kinds DEF IInv, TypeOK, Shape, Thread, Tick, Working, Unborn
  <2>4. Alone'
    BY <2>1, <2>2 DEF IInv, Alone, Working
  <2>5. \A u \in Thread, d \in Call : Pending(u, d)' => Pending(u, d)
    BY <2>1 DEF Pending, PreFlip
  <2>6. pc' \in [Thread -> PC] /\ cur' \in [Thread -> Call \cup {NoCall}]
    BY DEF IInv, TypeOK, PC, Thread
  <2> QED BY <2>1, <2>2, <2>3, <2>4, <2>5, <2>6, <2>7
<1>6. CASE DispatchRead(t)
  <2> USE <1>6 DEF DispatchRead
  <2>1. Owned' /\ \A d \in Call : pc'[d] \in Unborn => pc[d] \in Unborn
    BY <1>4, <1>5 DEF IInv, Owned, Unborn, Thread
  <2>2. CASE Goto(t, "flip")
    <3>1. Pending(t, c)
      BY DEF Pending, PreFlip
    <3>2. TypeOK' /\ Shape' /\ Alone'
      BY <1>4, <2>2 DEF IInv, TypeOK
    <3> QED BY <1>4, <2>1, <2>2, <3>1, <3>2, NothingTaken DEF Alone
  <2>3. CASE Return(t)
    <3>1. TypeOK' /\ Shape' /\ Alone'
      BY <1>5, <2>3 DEF IInv, TypeOK
    <3> QED BY <1>5, <2>1, <2>3, <3>1, NothingTaken DEF Alone
  <2> QED BY <2>2, <2>3
<1>7. CASE FlipToDialing(t)
  <2> USE <1>7 DEF FlipToDialing
  <2>1. Pending(t, c) /\ (c \notin contested => Untouched(c)) /\ status[c] # "none"
    BY <1>1, PendingIsFresh DEF Pending, PreFlip, IInv, StatusOfHeld
  <2>2. TypeOK'
    BY <1>4 DEF IInv, TypeOK, Status, DailyCounted, LiveStatus
  <2>3. Shape' /\ Alone'
    BY <1>4
  <2>4. Owned'
    BY <1>1 DEF IInv, Owned, TypeOK
  <2>5. c \notin contested => \A u \in Thread : ~ Pending(u, c)'
    BY <1>1, <1>2, <1>4 DEF Holds, Pending, PreFlip, Working
  <2>6. StatusOfHeld'
    <3>1. \A d \in Call : (pc[d] \in Unborn => status[d] = "none")'
      BY <1>4, <2>1 DEF IInv, StatusOfHeld, TypeOK, Unborn, Thread
    <3>2. \A u \in Thread, d \in Call \ contested :
            (Pending(u, d) => /\ status[d] \in {"queued", "scheduled", "canceled"}
                              /\ u \in SchedTick => status[d] # "queued"
                              /\ u \notin SchedTick => status[d] # "scheduled"
                              /\ u \in Call => d \notin parked)'
      BY <1>4, <2>5 DEF IInv, StatusOfHeld, TypeOK
    <3>3. \A u \in Thread, d \in Call \ contested :
            (cur[u] = d /\ pc[u] \in {"agent", "sip", "fail"} => status[d] \notin {"none", "queued", "scheduled"})'
      BY <1>1, <1>4 DEF IInv, StatusOfHeld, TypeOK
    <3>4. \A u \in Thread, d \in Call :
            (Pending(u, d) \/ (cur[u] = d /\ pc[u] \in {"agent", "sip", "fail"}) => status[d] # "none")'
      BY <1>1, <1>4, <2>1 DEF IInv, StatusOfHeld, TypeOK
    <3> QED BY <3>1, <3>2, <3>3, <3>4 DEF StatusOfHeld
  <2>7. Fresh'
    BY <1>1, <1>4, <2>1 DEF IInv, Fresh, TypeOK, Untouched, Call
  <2>8. Expiry'
    BY <1>3, <1>4 DEF IInv, Expiry, TypeOK, Untouched
  <2>9. Ripe' /\ AtMostOnceDialed' /\ NotDialedEarly'
    BY <1>4 DEF IInv, Ripe, AtMostOnceDialed, NotDialedEarly, Call, Outbound
  <2> QED BY <2>2, <2>3, <2>4, <2>6, <2>7, <2>8, <2>9 DEF IInv
<1>8. CASE CreateDispatch(t)
  <2> USE <1>8 DEF CreateDispatch
  <2>1. /\ c \notin contested => Untouched(c) /\ status[c] \notin {"queued", "scheduled"}
        /\ status[c] # "none"
    BY <1>1 DEF IInv, Fresh, StatusOfHeld
  <2>2. PICK l \in {"sip", "fail"} : Goto(t, l)
    OBVIOUS
  <2>3. /\ job' \in [Job -> JobRecord]
        /\ \A j \in Job : job'[j] = job[j] \/ job'[j].call = c
        /\ c \notin contested => \A j, k \in Job : job'[j].call = c /\ job'[k].call = c => j = k
    BY <1>1, <2>1 DEF StartJob, NewJob, Untouched, IInv, TypeOK, JobRecord
  <2>4. TypeOK' /\ Shape' /\ Alone'
    BY <1>4, <2>2, <2>3 DEF IInv, TypeOK
  <2>5. Owned'
    BY <1>1, <2>1, <2>3, Kinds DEF IInv, Owned
  <2>6. \A u \in Thread, d \in Call : Pending(u, d)' => Pending(u, d) /\ (d \notin contested => d # c)
    BY <1>1, <1>2, <1>4, <2>2 DEF Holds, Pending, PreFlip, Working
  <2>7. StatusOfHeld'
    BY <1>1, <1>4, <2>1, <2>2, <2>6 DEF IInv, StatusOfHeld, Unborn, Thread
  <2>8. \A d \in Call : d # c /\ Untouched(d) => Untouched(d)'
    BY <2>3 DEF Untouched
  <2>9. Fresh'
    <3>1. \A d \in Outbound \ contested : (status[d] \in {"none", "queued", "scheduled"} => Untouched(d))'
      BY <2>1, <2>8 DEF IInv, Fresh, Call
    <3>2. \A u \in Thread, d \in Outbound \ contested :
            (/\ Pending(u, d) \/ (cur[u] = d /\ pc[u] = "agent") => Untouched(d)
             /\ cur[u] = d /\ pc[u] = "sip" => legs[d] = 0)'
      BY <1>1, <1>2, <1>4, <2>1, <2>2, <2>6, <2>8 DEF IInv, Fresh, Untouched, Holds, Working, Call
    <3> QED BY <3>1, <3>2 DEF Fresh
  <2>10. Expiry'
    BY <1>3, <1>4, <2>2, <2>8 DEF IInv, Expiry, TypeOK
  <2>11. Ripe' /\ NotDialedEarly'
    BY <1>4, <2>2 DEF IInv, Ripe, NotDialedEarly, Call, Outbound
  <2>12. AtMostOnceDialed'
    BY <2>3 DEF IInv, AtMostOnceDialed
  <2> QED BY <2>4, <2>5, <2>7, <2>9, <2>10, <2>11, <2>12 DEF IInv
<1>9. CASE PlaceLeg(t)
  <2> USE <1>9 DEF PlaceLeg
  <2>1. /\ c \notin contested => legs[c] = 0 /\ status[c] \notin {"queued", "scheduled"}
        /\ status[c] # "none"
    BY <1>1 DEF IInv, Fresh, StatusOfHeld
  <2>2. /\ legs' \in [Call -> Nat] /\ (c \notin contested => legs'[c] \in {0, 1})
        /\ \A d \in Call \ {c} : legs'[d] = legs[d]
    BY <1>1, <2>1 DEF IInv, TypeOK
  <2>3. Return(t) \/ Goto(t, "fail")
    OBVIOUS
  <2>4. /\ Shape' /\ Alone'
        /\ pc'[t] \in {"fire", "drain", "idle", "done", "fail"}
        /\ pc'[t] = "idle" => t \notin Call
        /\ \A u \in Thread \ {t} : pc'[u] = pc[u] /\ cur'[u] = cur[u]
        /\ \A u \in Thread, d \in Call : Holds(u, d)' => Holds(u, d)
        /\ \A u \in Thread, d \in Call : Pending(u, d)' => Pending(u, d)
        /\ pc' \in [Thread -> PC] /\ cur' \in [Thread -> Call \cup {NoCall}]
        /\ pc'[t] = "fail" => cur'[t] = c
    BY <1>4, <1>5, <2>3
  <2>5. TypeOK' /\ Owned'
    BY <2>2, <2>4 DEF IInv, TypeOK, Owned
  <2>6. c \notin contested => \A u \in Thread : ~ Pending(u, c)
    BY <1>1, <1>2 DEF Holds, Pending, PreFlip, Working
  <2>7. StatusOfHeld'
    BY <1>1, <2>1, <2>4 DEF IInv, StatusOfHeld, Unborn, Thread
  <2>8. Fresh'
    <3>1. \A d \in Call : d # c /\ Untouched(d) => Untouched(d)'
      BY <2>2 DEF Untouched
    <3>2. c \notin contested => \A u \in Thread \ {t} : ~ (cur[u] = c /\ pc[u] \in {"agent", "sip"})
      BY <1>2 DEF Holds, Working
    <3> QED BY <1>1, <2>1, <2>2, <2>4, <2>6, <3>1, <3>2 DEF IInv, Fresh, Call
  <2>9. Expiry'
    BY <1>3, <2>2, <2>4 DEF IInv, Expiry, TypeOK, Untouched
  <2>10. Ripe'
    BY <2>4 DEF IInv, Ripe, Call, Outbound
  <2>11. AtMostOnceDialed'
    BY <2>2 DEF IInv, AtMostOnceDialed, Call
  <2>12. NotDialedEarly'
    BY <1>1, <2>2 DEF IInv, NotDialedEarly, Ripe, Outbound
  <2> QED BY <2>4, <2>5, <2>7, <2>8, <2>9, <2>10, <2>11, <2>12 DEF IInv
<1>10. CASE MarkFailed(t)
  <2> USE <1>10 DEF MarkFailed
  <2>1. c \notin contested => \A u \in Thread : ~ Pending(u, c)
    BY <1>1, <1>2 DEF Holds, Pending, PreFlip, Working
  <2>2. /\ Shape' /\ Alone'
        /\ pc'[t] \in {"fire", "drain", "idle", "done"}
        /\ pc'[t] = "idle" => t \notin Call
        /\ \A u \in Thread \ {t} : pc'[u] = pc[u] /\ cur'[u] = cur[u]
        /\ \A u \in Thread, d \in Call : Holds(u, d)' => Holds(u, d)
        /\ \A u \in Thread, d \in Call : Pending(u, d)' => Pending(u, d)
        /\ pc' \in [Thread -> PC] /\ cur' \in [Thread -> Call \cup {NoCall}]
    BY <1>5
  <2>3. TypeOK'
    BY <1>1, <2>2 DEF IInv, TypeOK, Status, DailyCounted
  <2>8. Owned'
    BY <1>1 DEF IInv, Owned, TypeOK
  <2>4. StatusOfHeld'
    <3>1. status[c] # "none" /\ status' = [status EXCEPT ![c] = "ended"] /\ parked' = parked
      BY <1>1 DEF IInv, StatusOfHeld
    <3>2. \A d \in Call : (pc[d] \in Unborn => status[d] = "none")'
      BY <2>2, <3>1 DEF IInv, StatusOfHeld, TypeOK, Unborn, Thread
    <3>3. \A u \in Thread, d \in Call : Pending(u, d)' => Pending(u, d) /\ (d \notin contested => d # c)
      BY <2>1, <2>2
    <3>4. \A u \in Thread, d \in Call \ contested :
            (cur[u] = d /\ pc[u] \in {"agent", "sip", "fail"} => status[d] \notin {"none", "queued", "scheduled"})'
      BY <2>2, <3>1 DEF IInv, StatusOfHeld, TypeOK
    <3>5. \A u \in Thread, d \in Call :
            (Pending(u, d) \/ (cur[u] = d /\ pc[u] \in {"agent", "sip", "fail"}) => status[d] # "none")'
      BY <2>2, <3>1 DEF IInv, StatusOfHeld, TypeOK
    <3> QED BY <3>1, <3>2, <3>3, <3>4, <3>5 DEF IInv, StatusOfHeld, TypeOK
  <2>5. Fresh'
    BY <1>1, <2>1, <2>2 DEF IInv, Fresh, TypeOK, Untouched, Call
  <2>6. Expiry'
    BY <1>3, <2>2 DEF IInv, Expiry, TypeOK, Untouched
  <2>7. Ripe' /\ AtMostOnceDialed' /\ NotDialedEarly'
    BY <2>2 DEF IInv, Ripe, AtMostOnceDialed, NotDialedEarly, Call, Outbound
  <2> QED BY <2>2, <2>3, <2>4, <2>5, <2>6, <2>7, <2>8 DEF IInv
<1> QED BY <1>6, <1>7, <1>8, <1>9, <1>10 DEF Dispatch

\* The scheduler and the drainer.  A row that a tick selects is nobody else's but
\* a twin's, and a row that a twin has becomes contested.
LEMMA SelectInv ==
  ASSUME IInv, NEW t \in Tick, SchedSelect(t) \/ ExpireSelect(t) \/ DrainSelect(t)
  PROVE  IInv'
<1> USE DEF db, clock
<1>1. t \in Thread /\ t \notin Call /\ todo[t] = {} /\ pc[t] \notin Working
  BY Kinds DEF SchedSelect, ExpireSelect, DrainSelect, Thread, IInv, Shape, Working
<1>2. ASSUME NEW S \in SUBSET Outbound, NEW l \in {"fire", "expire", "drain", "idle"},
             l = "fire" <=> t \in SchedTick, l = "idle" => S = {},
             Receive(t, S), Goto(t, l),
             UNCHANGED <<db, clock, canceler, legs, job, faults>>,
             \A c \in S : /\ status[c] = (IF t \in SchedTick THEN "scheduled" ELSE "queued")
                          /\ t \in SchedTick => c \in due
                          /\ t \in DrainTick => c \in parked
      PROVE  IInv'
  <2> USE <1>2 DEF Goto, Receive
  <2>1. TypeOK'
    BY DEF IInv, TypeOK, PC, Outbound, Call
  <2>2. Shape'
    BY <1>1, Kinds DEF IInv, TypeOK, Shape, Tick, Working
  <2>3. ASSUME NEW c \in S, c \notin contested', NEW u \in Thread \ {t} PROVE ~ Holds(u, c)
    <3>1. c \in Call \ contested /\ status[c] \in {"scheduled", "queued"}
      BY <2>3 DEF Outbound, Call
    <3>2. u \in Twins(t) => ~ (c \in todo[u] \/ cur[u] = c)
      BY <2>3
    <3>3. ~ Pending(u, c)
      <4>1. CASE t \in SchedTick
        <5>1. u \in SchedTick => u \in Twins(t)
          BY <4>1 DEF Twins
        <5>2. status[c] = "scheduled"
          BY <4>1
        <5> QED BY <3>1, <3>2, <5>1, <5>2 DEF IInv, StatusOfHeld, Pending
      <4>2. CASE t \in DrainTick
        <5>1. u \in DrainTick => u \in Twins(t)
          BY <4>2, Kinds DEF Twins
        <5>2. status[c] = "queued" /\ c \in parked
          BY <4>2, Kinds
        <5> QED BY <3>1, <3>2, <5>1, <5>2 DEF IInv, StatusOfHeld, Pending, Thread, Tick
      <4> QED BY <4>1, <4>2 DEF Tick
    <3>4. ~ (cur[u] = c /\ pc[u] \in {"agent", "sip", "fail"})
      BY <3>1 DEF IInv, StatusOfHeld
    <3>5. ~ (cur[u] = c /\ pc[u] \in {"insert", "insert_parked"})
      <4>1. CASE u \in Call
        BY <3>1, <4>1 DEF IInv, Shape, StatusOfHeld, Unborn
      <4>2. CASE u \in Tick
        BY <4>2, Kinds DEF IInv, Shape, Tick
      <4> QED BY <4>1, <4>2 DEF Thread
    <3> QED BY <3>3, <3>4, <3>5 DEF Holds, Pending, Working, PreFlip
  <2>4. \A c \in S : c \in Later => c \in due
    BY Kinds DEF IInv, Ripe, Tick
  <2>5. \A u \in Thread \ {t} : pc'[u] = pc[u]
    BY DEF IInv, TypeOK
  <2>6. pc'[t] = l
    BY <1>1 DEF IInv, TypeOK
  <2>7. contested \subseteq contested' /\ contested' \subseteq contested \cup S
    OBVIOUS
  <2>8. \A c \in S : status[c] = (IF t \in SchedTick THEN "scheduled" ELSE "queued")
    OBVIOUS
  <2>9. todo' = [todo EXCEPT ![t] = S] /\ UNCHANGED <<db, clock, canceler, legs, job, cur>>
    OBVIOUS
  <2>10. pc'[t] \in {"fire", "expire", "drain", "idle"}
    BY <2>6
  <2>11. \A c \in S :
           /\ status[c] = (IF t \in SchedTick THEN "scheduled" ELSE "queued")
           /\ c \in Later => c \in due
           /\ c \notin contested' => \A u \in Thread \ {t} : ~ Holds(u, c)
    BY <2>3, <2>4, <2>8
  <2>12. S \in SUBSET Outbound
    OBVIOUS
  <2> QED BY ONLY IInv, t \in Tick, <2>1, <2>2, <2>5, <2>7, <2>9, <2>10, <2>11, <2>12, RowsSelected
<1>3. CASE SchedSelect(t)
  <2>1. DueRows \subseteq Outbound /\ \A c \in DueRows : c \in due /\ status[c] = "scheduled"
    BY DEF DueRows, IInv, TypeOK, Outbound
  <2> QED BY <1>2, <1>3, <2>1, Kinds DEF SchedSelect
<1>4. ParkedRows \subseteq Outbound /\ \A c \in ParkedRows : c \in parked /\ status[c] = "queued"
  BY DEF ParkedRows, IInv, Owned
<1>5. CASE ExpireSelect(t)
  <2>1. t \in DrainTick /\ t \notin SchedTick
    BY <1>5, Kinds DEF ExpireSelect
  <2>2. ParkedRows \cap stale \in SUBSET Outbound
    BY <1>4
  <2> QED BY <1>2, <1>4, <1>5, <2>1, <2>2 DEF ExpireSelect
<1>6. CASE DrainSelect(t)
  <2> DEFINE S == Oldest(ParkedRows, DrainBatch)
  <2>1. t \in DrainTick /\ t \notin SchedTick
    BY <1>1, <1>6, Kinds DEF DrainSelect, IInv, Shape, Tick
  <2>2. S \subseteq ParkedRows
    BY DEF Oldest
  <2>3. /\ Receive(t, S) /\ Goto(t, Loop(t, S))
        /\ UNCHANGED <<db, clock, canceler, legs, job, faults>>
    BY <1>6 DEF DrainSelect
  <2>4. Loop(t, S) \in {"drain", "idle"} /\ (Loop(t, S) = "idle" => S = {})
    BY <2>1 DEF Loop
  <2> HIDE DEF S
  <2>5. /\ S \in SUBSET Outbound
        /\ \A c \in S : /\ status[c] = (IF t \in SchedTick THEN "scheduled" ELSE "queued")
                        /\ t \in SchedTick => c \in due
                        /\ t \in DrainTick => c \in parked
    BY <1>4, <2>1, <2>2
  <2> QED BY <1>2, <2>1, <2>3, <2>4, <2>5
<1> QED BY <1>3, <1>5, <1>6

LEMMA TickInv ==
  ASSUME IInv, NEW t \in Tick, TickStep(t)
  PROVE  IInv'
<1> USE DEF db, clock, gw
<1>1. t \in Thread /\ t \notin Call
  BY Kinds DEF Thread
<1>2. CASE SchedSelect(t) \/ ExpireSelect(t) \/ DrainSelect(t)
  BY <1>2, SelectInv
\* A row moves from the list to the hand, or out of it.
<1>3. CASE SchedCheck(t) \/ DrainCheck(t)
  <2>1. PICK l \in {"park", "dispatch", "unpark", "drain", "idle"} :
          /\ pc' = [pc EXCEPT ![t] = l]
          /\ l \in {"park", "dispatch", "unpark"} =>
               /\ \E c \in todo[t] : /\ cur' = [cur EXCEPT ![t] = c]
                                     /\ todo' = [todo EXCEPT ![t] = @ \ {c}]
               /\ l = "unpark" <=> t \in DrainTick
          /\ l \in {"drain", "idle"} => /\ UNCHANGED cur
                                        /\ \E T \in SUBSET todo[t] : todo' = [todo EXCEPT ![t] = T]
          /\ l = "drain" => t \in DrainTick
          /\ l = "idle" => todo'[t] = {}
    <3>1. CASE SchedCheck(t)
      <4>1. t \notin DrainTick
        BY <1>1, <3>1, Kinds DEF SchedCheck, IInv, Shape, Tick
      <4> QED BY <3>1, <4>1 DEF SchedCheck, Take
    <3>2. CASE DrainCheck(t)
      <4>1. t \in DrainTick
        BY <1>1, <3>2, Kinds DEF DrainCheck, IInv, Shape, Tick
      <4>2. PICK c \in First(todo[t]) :
              /\ todo' = [todo EXCEPT ![t] = @ \ {c}]
              /\ IF Full(c) THEN Goto(t, Loop(t, todo[t] \ {c})) ELSE Take(t, c, "unpark")
        BY <3>2 DEF DrainCheck
      <4>3. c \in todo[t] /\ todo'[t] = todo[t] \ {c}
        BY <1>1, <4>2 DEF First, IInv, TypeOK
      <4>4. Loop(t, todo[t] \ {c}) \in {"drain", "idle"} /\ (Loop(t, todo[t] \ {c}) = "idle" => todo'[t] = {})
        BY <4>1, <4>3, Kinds DEF Loop
      <4> QED BY <4>1, <4>2, <4>3, <4>4 DEF Take, Goto
    <3> QED BY <1>3, <3>1, <3>2
  <2>2. UNCHANGED <<db, clock, contested, canceler, legs, job, faults>> /\ pc[t] \notin Working
    BY <1>3 DEF SchedCheck, DrainCheck, Working
  <2>3. TypeOK' /\ Owned'
    BY <1>1, <2>1, <2>2 DEF IInv, TypeOK, Owned, PC
  <2>4. Shape'
    <3>1. \A u \in Thread \ {t} : pc'[u] = pc[u] /\ cur'[u] = cur[u] /\ todo'[u] = todo[u]
      BY <2>1, <2>2 DEF IInv, TypeOK
    <3>2. /\ pc'[t] \in {"park", "dispatch", "unpark", "drain", "idle"}
          /\ t \in SchedTick => pc'[t] \in {"park", "dispatch", "idle"}
          /\ t \in DrainTick => pc'[t] \in {"unpark", "drain", "idle"}
      BY <1>1, <2>1, Kinds DEF IInv, TypeOK
    <3>3. /\ todo'[t] \subseteq todo[t]
          /\ pc'[t] \in Working => cur'[t] \in todo[t]
          /\ pc'[t] = "idle" => todo'[t] = {}
      BY <1>1, <2>1 DEF IInv, TypeOK, Working
    <3> QED BY <1>1, <3>1, <3>2, <3>3 DEF IInv, Shape, Tick, Thread
  <2>5. \A u \in Thread \ {t} : pc'[u] = pc[u] /\ cur'[u] = cur[u] /\ todo'[u] = todo[u]
    BY <2>1, <2>2 DEF IInv, TypeOK
  <2>6. /\ pc'[t] \in {"park", "dispatch", "unpark", "drain", "idle"}
        /\ todo'[t] \subseteq todo[t]
        /\ pc'[t] \in Working => cur'[t] \in todo[t] /\ cur'[t] \notin todo'[t]
    BY <1>1, <2>1 DEF IInv, TypeOK, Working
  <2>7. \A u \in Thread, c \in Call :
          /\ Holds(u, c)' => Holds(u, c)
          /\ Pending(u, c)' => Pending(u, c)
          /\ cur'[u] = c /\ pc'[u] \in {"agent", "sip", "fail"} => cur[u] = c /\ pc'[u] = pc[u]
    BY <2>5, <2>6 DEF Holds, Pending, Working, PreFlip
  <2>8. \A u \in Thread : pc'[u] \in Working => cur'[u] \notin todo'[u]
    BY <2>5, <2>6 DEF IInv, Alone
  <2>9. \A c \in Call : pc'[c] \in Unborn => pc[c] \in Unborn
    BY <1>1, <2>5 DEF Thread
  <2> QED BY <2>2, <2>3, <2>4, <2>7, <2>8, <2>9, NothingTaken
<1>4. CASE ParkForCapacity(t) \/ Unpark(t)
  <2> DEFINE c == cur[t]
  <2>1. /\ Pending(t, c) /\ c \in Outbound /\ c \in Call
        /\ status[c] # "none" /\ c \notin todo[t]
        /\ c \notin contested =>
             Untouched(c) /\ c \notin expired /\ \A u \in Thread \ {t} : ~ Holds(u, c)
    <3>1. Pending(t, c)
      BY <1>4 DEF ParkForCapacity, Unpark, Pending, PreFlip
    <3>2. c \in Outbound /\ c \in Call /\ (c \notin contested => Untouched(c)) /\ Holds(t, c)
      BY <1>1, <3>1, PendingIsFresh DEF Call
    <3>3. status[c] # "none"
      BY <1>1, <3>1, <3>2 DEF IInv, StatusOfHeld
    <3>4. c \notin todo[t]
      BY <1>1, <1>4 DEF IInv, Alone, ParkForCapacity, Unpark, Working
    <3> QED BY <1>1, <3>1, <3>2, <3>3, <3>4 DEF IInv, Alone, Expiry
  <2>2. CASE ParkForCapacity(t)
    <3> USE <2>2 DEF ParkForCapacity, Return, After, Loop, Take
    <3>1. t \in SchedTick
      BY <1>1 DEF IInv, Shape, Tick
    <3>2. PICK l \in {"fire", "idle"} :
            /\ pc' = [pc EXCEPT ![t] = l] /\ cur' = [cur EXCEPT ![t] = NoCall]
            /\ l = "idle" => todo[t] = {}
      BY <1>1, <3>1, Kinds
    <3>3. /\ \A u \in Thread \ {t} : pc'[u] = pc[u] /\ cur'[u] = cur[u]
          /\ pc'[t] \in {"fire", "idle"} /\ cur'[t] = NoCall
      BY <1>1, <3>2 DEF IInv, TypeOK
    <3>4. TypeOK'
      BY <2>1, <3>2 DEF IInv, TypeOK, PC, Status
    <3>5. Shape'
      BY <1>1, <3>1, <3>2, Kinds DEF IInv, TypeOK, Shape, Tick, Working, Unborn
    <3>6. Owned'
      BY <2>1 DEF IInv, Owned, TypeOK
    <3>7. \A u \in Thread, d \in Call :
            /\ Holds(u, d)' => Holds(u, d) /\ (d \notin contested => d # c)
            /\ Pending(u, d)' => Pending(u, d) /\ (d \notin contested => d # c)
      BY <2>1, <3>3 DEF Holds, Pending, Working, PreFlip
    <3>8. Alone'
      BY <3>3, <3>7 DEF IInv, Alone, Working
    <3>9. StatusOfHeld'
      <4>1. \A d \in Call : (pc[d] \in Unborn => status[d] = "none")'
        BY <1>1, <2>1, <3>3 DEF IInv, TypeOK, StatusOfHeld, Thread
      <4>2. \A u \in Thread, d \in Call \ contested :
              (cur[u] = d /\ pc[u] \in {"agent", "sip", "fail"} => status[d] \notin {"none", "queued", "scheduled"})'
        BY <2>1, <3>3 DEF IInv, TypeOK, StatusOfHeld, Holds, Working
      <4>3. \A u \in Thread, d \in Call :
              (Pending(u, d) \/ (cur[u] = d /\ pc[u] \in {"agent", "sip", "fail"}) => status[d] # "none")'
        BY <2>1, <3>3, <3>7 DEF IInv, TypeOK, StatusOfHeld
      <4> QED BY <3>7, <4>1, <4>2, <4>3 DEF IInv, TypeOK, StatusOfHeld
    <3>10. Fresh'
      BY <2>1, <3>3, <3>7 DEF IInv, TypeOK, Fresh, Untouched, Call
    <3>11. Expiry'
      BY <2>1, <3>7 DEF IInv, TypeOK, Expiry, Untouched
    <3>12. Ripe'
      BY <1>1, <2>1, <3>7 DEF IInv, Ripe, Pending, Holds, Working, PreFlip, Call, Outbound
    <3>13. AtMostOnceDialed' /\ NotDialedEarly'
      BY DEF IInv, AtMostOnceDialed, NotDialedEarly
    <3> QED BY <3>4, <3>5, <3>6, <3>8, <3>9, <3>10, <3>11, <3>12, <3>13 DEF IInv
  <2>3. CASE Unpark(t)
    <3> USE <2>3 DEF Unpark, Goto
    <3>1. t \in DrainTick
      BY <1>1 DEF IInv, Shape, Tick
    <3>2. /\ \A u \in Thread \ {t} : pc'[u] = pc[u]
          /\ pc'[t] = "dispatch"
      BY <1>1 DEF IInv, TypeOK
    <3>3. TypeOK' /\ Owned'
      BY DEF IInv, TypeOK, Owned, PC
    <3>4. Shape'
      BY <1>1, <3>1, Kinds DEF IInv, TypeOK, Shape, Tick, Working, Unborn
    <3>5. \A u \in Thread, d \in Call :
            (Holds(u, d)' <=> Holds(u, d)) /\ (Pending(u, d)' <=> Pending(u, d))
      BY <3>2 DEF Holds, Pending, Working, PreFlip
    <3>6. Alone'
      BY <2>1, <3>2, <3>5 DEF IInv, Alone
    <3>7. StatusOfHeld'
      <4>1. \A d \in Call : (pc[d] \in Unborn => status[d] = "none")'
        BY <1>1, <3>2 DEF IInv, StatusOfHeld, Thread
      <4> QED BY <3>2, <3>5, <4>1 DEF IInv, StatusOfHeld
    <3>8. Fresh' /\ Expiry'
      BY <3>2, <3>5 DEF IInv, Fresh, Expiry, Untouched, TypeOK, Call, Outbound
    <3>9. Ripe' /\ AtMostOnceDialed' /\ NotDialedEarly'
      BY <3>5 DEF IInv, Ripe, AtMostOnceDialed, NotDialedEarly, Call, Outbound
    <3> QED BY <3>3, <3>4, <3>6, <3>7, <3>8, <3>9 DEF IInv
  <2> QED BY <1>4, <2>2, <2>3
<1>5. CASE ExpireOne(t)
  <2>1. PICK c \in todo[t] :
          /\ status' = [status EXCEPT ![c] = "canceled"]
          /\ parked' = parked \ {c}
          /\ expired' = expired \cup {c}
          /\ todo' = [todo EXCEPT ![t] = @ \ {c}]
    BY <1>5 DEF ExpireOne, First
  <2>2. pc[t] \notin Working /\ UNCHANGED <<older, clock, pc, cur, contested, canceler, legs, job, faults>>
    BY <1>5 DEF ExpireOne, Working
  <2>3. /\ c \in Outbound /\ c \in Call /\ status[c] # "none"
        /\ c \notin contested => Untouched(c) /\ \A u \in Thread \ {t} : ~ Holds(u, c)
    <3>1. Pending(t, c) /\ c \in Outbound /\ (c \notin contested => Untouched(c)) /\ Holds(t, c)
      BY <1>1, <2>1, PendingIsFresh DEF Pending
    <3> QED BY <1>1, <3>1 DEF IInv, StatusOfHeld, Alone, Call
  <2>4. TypeOK'
    BY <1>1, <2>1, <2>2, <2>3 DEF IInv, TypeOK, Status
  <2>5. Shape'
    BY <1>1, <2>1, <2>2 DEF IInv, TypeOK, Shape, Tick, Thread
  <2>6. Owned'
    BY <2>1, <2>2, <2>3 DEF IInv, Owned, TypeOK
  <2>7. \A u \in Thread, d \in Call :
          /\ Holds(u, d)' => Holds(u, d) /\ (d \notin contested => d # c)
          /\ Pending(u, d)' => Pending(u, d) /\ (d \notin contested => d # c)
    BY <1>1, <2>1, <2>2, <2>3 DEF IInv, TypeOK, Holds, Pending, Working, PreFlip
  <2>8. Alone'
    BY <1>1, <2>1, <2>2, <2>7 DEF IInv, TypeOK, Alone
  <2>9. StatusOfHeld'
    BY <2>1, <2>2, <2>3, <2>7 DEF IInv, TypeOK, StatusOfHeld
  <2>10. Fresh'
    BY <2>1, <2>2, <2>3, <2>7 DEF IInv, TypeOK, Fresh, Untouched, Call
  <2>11. Expiry'
    BY <2>1, <2>2, <2>3, <2>7 DEF IInv, TypeOK, Expiry, Untouched
  <2>12. Ripe' /\ AtMostOnceDialed' /\ NotDialedEarly'
    BY <2>1, <2>2, <2>7 DEF IInv, Ripe, AtMostOnceDialed, NotDialedEarly, Call, Outbound
  <2> QED BY <2>4, <2>5, <2>6, <2>8, <2>9, <2>10, <2>11, <2>12 DEF IInv
<1> QED BY <1>2, <1>3, <1>4, <1>5 DEF TickStep

THEOREM StepInv ==
  ASSUME IInv, [Next]_vars PROVE IInv'
<1>1. CASE Next
  <2>1. ASSUME NEW c \in Call, Birth(c) \/ Cancel(c) \/ BrowserJoins(c) \/ BecomesDue(c) \/ GrowsStale(c)
        PROVE  IInv'
    BY <2>1, BirthInv, CancelInv, EnvironmentInv
  <2>2. ASSUME NEW t \in Thread, Dispatch(t) \/ StatementFails(t)
        PROVE  IInv'
    BY <2>2, DispatchInv, FaultInv
  <2>3. ASSUME NEW t \in Tick, TickStep(t)
        PROVE  IInv'
    BY <2>3, TickInv
  <2>4. ASSUME NEW j \in Job, JobStep(j) \/ Report(j) \/ WorkerDies(j) \/ ReportLost(j)
        PROVE  IInv'
    BY <2>4, JobStepInv, ReportInv DEF JobStep
  <2>5. CASE GatewayCrash
    BY <2>5, FaultInv
  <2> QED BY <1>1, <2>1, <2>2, <2>3, <2>4, <2>5 DEF Next
<1>2. CASE UNCHANGED vars
  BY <1>2 DEF vars, db, clock, gw, IInv, TypeOK, Shape, Owned, Alone, StatusOfHeld, Fresh, Expiry, Ripe,
              AtMostOnceDialed, NotDialedEarly, Holds, Pending, Untouched
<1> QED BY <1>1, <1>2

-----------------------------------------------------------------------------
(* The theorems. *)

THEOREM Invariance == Spec => []IInv
<1>1. Init => IInv
  BY InitInv
<1>2. IInv /\ [Next]_vars => IInv'
  BY StepInv
<1> QED BY <1>1, <1>2, PTL DEF Spec

\* Every variable keeps its type.
THEOREM TypeCorrect == Spec => []TypeOK
<1>1. IInv => TypeOK
  BY DEF IInv
<1> QED BY <1>1, Invariance, PTL

\* No outbound call gets two agents or is dialed twice, unless two ticks of one
\* interval had its row at once: any other row waiting to be dialed has one holder,
\* and that one is the first to touch it.  Overlapping ticks are thus the only way,
\* among all interleavings of handlers, ticks, cancellations and crashes.
THEOREM DialedAtMostOnce == Spec => []AtMostOnceDialed
<1>1. IInv => AtMostOnceDialed
  BY DEF IInv
<1> QED BY <1>1, Invariance, PTL

\* queue_expired is only written to a row that has not been dialed, unless two
\* ticks of one interval had that row at once.
THEOREM ExpiryIsSafe == Spec => []ExpiredNeverDialed
<1>1. IInv => ExpiredNeverDialed
  BY DEF IInv, Expiry, Untouched, ExpiredNeverDialed
<1> QED BY <1>1, Invariance, PTL

\* No phone rings before the call's scheduled_at, and only outbound calls ring,
\* however many ticks overlap.
THEOREM DialedOnTime == Spec => []NotDialedEarly
<1>1. IInv => NotDialedEarly
  BY DEF IInv
<1> QED BY <1>1, Invariance, PTL

\* What the gateway puts back in the queue or on the line has not ended: the row
\* a thread still has to flip or park is at worst canceled.
LEMMA RequeueStep ==
  ASSUME IInv, Next, NEW c \in Outbound \ contested, status[c] = "ended"
  PROVE  status'[c] \notin {"queued", "scheduled", "dialing"}
<1>1. c \in Call /\ status \in [Call -> Status]
  BY DEF Call, IInv, TypeOK
<1>2. \A d \in Call : pc[d] \in Unborn => d # c
  BY DEF IInv, StatusOfHeld
<1>3. \A t \in Thread : pc[t] \in PreFlip => cur[t] # c
  BY <1>1 DEF IInv, StatusOfHeld, Pending
<1>4. ASSUME NEW d \in Call, Birth(d) \/ Cancel(d) \/ BrowserJoins(d) \/ BecomesDue(d) \/ GrowsStale(d)
      PROVE  status'[c] \notin {"queued", "scheduled", "dialing"}
  BY <1>1, <1>2, <1>4 DEF Birth, PostScheduled, CheckBirth, TestSession, InsertOutbound, InsertWeb,
       InsertInbound, Insert, Unborn, Cancel, CancelRead, CancelRoom, CancelRoomFails, CancelWrite, BrowserJoins,
       BecomesDue, GrowsStale, db
<1>5. ASSUME NEW t \in Thread, Dispatch(t) \/ StatementFails(t)
      PROVE  status'[c] \notin {"queued", "scheduled", "dialing"}
  BY <1>1, <1>3, <1>5 DEF Dispatch, DispatchRead, FlipToDialing, CreateDispatch, PlaceLeg, MarkFailed,
       StatementFails, PreFlip, db
<1>6. ASSUME NEW t \in Tick, TickStep(t)
      PROVE  status'[c] \notin {"queued", "scheduled", "dialing"}
  <2>1. t \in Thread
    BY DEF Thread
  <2> QED BY <1>1, <1>3, <1>6, <2>1 DEF TickStep, SchedSelect, SchedCheck, ParkForCapacity, ExpireSelect,
       ExpireOne, DrainSelect, DrainCheck, Unpark, PreFlip, db
<1>7. ASSUME NEW j \in Job, JobStep(j) \/ Report(j) \/ WorkerDies(j) \/ ReportLost(j)
      PROVE  status'[c] \notin {"queued", "scheduled", "dialing"}
  BY <1>1, <1>7 DEF JobStep, GoLive, Finish, Disconnected, Report, ReceiveStarted, ReceiveComplete,
       WorkerDies, ReportLost, db
<1>8. CASE GatewayCrash
  BY <1>8 DEF GatewayCrash, db
<1> QED BY <1>4, <1>5, <1>6, <1>7, <1>8 DEF Next

\* An outbound call that has ended is never queued, scheduled or dialed again,
\* unless two ticks of one interval had its row at once.
THEOREM EndedStaysOffTheLine == Spec => NeverRequeued
<1>1. IInv /\ [Next]_vars =>
        [\A c \in Outbound \ contested : status[c] = "ended" => status'[c] \notin {"queued", "scheduled", "dialing"}]_vars
  BY RequeueStep
<1> QED BY <1>1, Invariance, PTL DEF Spec, NeverRequeued
=============================================================================
