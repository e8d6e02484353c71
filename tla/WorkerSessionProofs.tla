------------------------- MODULE WorkerSessionProofs -------------------------
(***************************************************************************)
(* Theorems of WorkerSession, for any number of calls of state.hangUp and  *)
(* any number of failures.                                                 *)
(***************************************************************************)
EXTENDS WorkerSession, TLAPS

\* The flag and the reports agree: whoever finds state.completed unset is the
\* first, and nobody else ever sends.  Before that nobody has flushed.
Counting ==
  \/ completed = TRUE /\ reports = 1
  \/ completed = FALSE /\ reports = 0 /\ flush = "none" /\ flusher = "nobody"

IInv == TypeOK /\ Counting

LEMMA InitInv == Init => IInv
<1> SUFFICES ASSUME Init PROVE IInv
  OBVIOUS
<1>1. 0 \in 0 .. MaxFaults
  BY Bounds
<1>2. hang \in [Hangups -> {"idle", "flush", "close", "closing", "delete", "retry", "done"}]
  BY DEF Init
<1>3. flusher \in Flusher
  BY DEF Init, Flusher
<1>4. TypeOK
  BY <1>1, <1>2, <1>3 DEF Init, TypeOK
<1>5. Counting
  BY DEF Init, Counting
<1> QED BY <1>4, <1>5 DEF IInv

\* complete() keeps the type invariant and the count, whoever calls it.
LEMMA CompleteInv ==
  ASSUME NEW x \in Flusher, IInv, Complete(x)
  PROVE  /\ completed' \in BOOLEAN /\ reports' \in Nat
         /\ flush' \in {"none", "flying", "received", "failed", "killed"}
         /\ flusher' \in Flusher
         /\ Counting'
<1>1. CASE completed
  BY <1>1 DEF IInv, TypeOK, Counting, Complete, flushing
<1>2. CASE ~ completed
  <2>1. completed' = TRUE /\ reports' = reports + 1 /\ flush' = "flying" /\ flusher' = x
    BY <1>2 DEF Complete
  <2>2. reports = 0
    BY <1>2 DEF IInv, Counting
  <2> QED BY <2>1, <2>2 DEF Counting
<1> QED BY <1>1, <1>2

\* The steps of one call of state.hangUp.
LEMMA HangUpInv ==
  ASSUME NEW h \in Hangups, IInv,
         FlowHangsUp(h) \/ TimerFires(h) \/ HangUp(h) \/ DeleteFails(h)
  PROVE  IInv'
<1> USE DEF IInv, TypeOK, Hangups, flushing, Alive, Fault, Awaits
<1>1. CASE FlowHangsUp(h) \/ TimerFires(h)
  <2>1. h \in Flusher
    BY DEF Flusher
  <2>2. Complete(h) /\ hang' \in [Hangups -> {"idle", "flush", "close", "closing", "delete", "retry", "done"}]
    BY <1>1 DEF FlowHangsUp, TimerFires, Begin
  <2>3. Counting' /\ completed' \in BOOLEAN /\ reports' \in Nat /\ flusher' \in Flusher
        /\ flush' \in {"none", "flying", "received", "failed", "killed"}
    BY <2>1, <2>2, CompleteInv
  <2>4. UNCHANGED <<run, session, erred, room, caller, merged, job, faults>>
    BY <1>1 DEF FlowHangsUp, TimerFires
  <2>5. timers' \subseteq timers
    BY <1>1 DEF FlowHangsUp, TimerFires
  <2> QED BY <2>2, <2>3, <2>4, <2>5
<1>2. CASE HangFlushed(h)
  BY <1>2 DEF HangFlushed, Counting
<1>3. CASE HangClose(h)
  BY <1>3 DEF HangClose, Counting
<1>4. CASE HangClosed(h)
  BY <1>4 DEF HangClosed, Counting
<1>5. CASE HangDelete(h)
  BY <1>5 DEF HangDelete, Vacate, Counting
<1>6. CASE DeleteFails(h)
  BY <1>6, Bounds DEF DeleteFails, Counting
<1> QED BY <1>1, <1>2, <1>3, <1>4, <1>5, <1>6 DEF HangUp

\* The steps in which somebody else calls complete().
LEMMA FlushInv ==
  ASSUME IInv, NotLive \/ Closed \/ JobShutsDown
  PROVE  IInv'
<1> USE DEF IInv, TypeOK, Hangups
<1>1. PICK x \in Flusher : Complete(x)
  BY DEF Flusher, NotLive, Closed, JobShutsDown
<1>2. Counting' /\ completed' \in BOOLEAN /\ reports' \in Nat /\ flusher' \in Flusher
      /\ flush' \in {"none", "flying", "received", "failed", "killed"}
  BY <1>1, CompleteInv
<1>3. CASE NotLive
  BY <1>2, <1>3 DEF NotLive
<1>4. CASE Closed
  BY <1>2, <1>4 DEF Closed
<1>5. CASE JobShutsDown
  BY <1>2, <1>5 DEF JobShutsDown
<1> QED BY <1>3, <1>4, <1>5

\* All other steps leave the count alone.
LEMMA OtherInv ==
  ASSUME IInv,
         \/ StartOk \/ StartFails \/ Answered \/ NotLiveFlushed \/ TimersReset \/ CallsMerge
         \/ FlushAnswered \/ FlushFails \/ SessionErrs
         \/ CallerRings \/ CallerLeaves \/ RoomCanceled \/ RoomEmpties \/ JobExits
  PROVE  IInv'
<1> USE Bounds DEF IInv, TypeOK, Counting, Hangups, flushing, Alive, Fault, Awaits
<1>1. CASE StartOk
  BY <1>1 DEF StartOk
<1>2. CASE StartFails
  BY <1>2 DEF StartFails
<1>3. CASE Answered
  BY <1>3 DEF Answered
<1>4. CASE NotLiveFlushed
  BY <1>4 DEF NotLiveFlushed
<1>5. CASE TimersReset
  BY <1>5 DEF TimersReset
<1>6. CASE CallsMerge
  BY <1>6 DEF CallsMerge
<1>7. CASE FlushAnswered
  BY <1>7 DEF FlushAnswered
<1>8. CASE FlushFails
  BY <1>8 DEF FlushFails
<1>9. CASE SessionErrs
  BY <1>9 DEF SessionErrs
<1>10. CASE CallerRings
  BY <1>10 DEF CallerRings
<1>11. CASE CallerLeaves
  BY <1>11 DEF CallerLeaves
<1>12. CASE RoomCanceled
  BY <1>12 DEF RoomCanceled, Vacate
<1>13. CASE RoomEmpties
  BY <1>13 DEF RoomEmpties, Vacate
<1>14. CASE JobExits
  BY <1>14 DEF JobExits
<1> QED BY <1>1, <1>2, <1>3, <1>4, <1>5, <1>6, <1>7, <1>8, <1>9, <1>10, <1>11, <1>12, <1>13, <1>14

LEMMA StepInv == IInv /\ [Next]_vars => IInv'
<1> SUFFICES ASSUME IInv, [Next]_vars PROVE IInv'
  OBVIOUS
<1>1. CASE UNCHANGED vars
  BY <1>1 DEF vars, flushing, IInv, TypeOK, Counting
<1>2. CASE Next
  BY <1>2, HangUpInv, FlushInv, OtherInv DEF Next, Start
<1> QED BY <1>1, <1>2

\* Every variable keeps its type.
THEOREM TypeCorrect == Spec => []TypeOK
<1>1. Spec => []IInv
  BY InitInv, StepInv, PTL DEF Spec
<1>2. IInv => TypeOK
  BY DEF IInv
<1> QED BY <1>1, <1>2, PTL

\* However many calls of state.hangUp, Close handlers and shutdown callbacks race,
\* the worker sends at most one completion report.
THEOREM ReportedOnce == Spec => []ReportedAtMostOnce
<1>1. Spec => []IInv
  BY InitInv, StepInv, PTL DEF Spec
<1>2. IInv => ReportedAtMostOnce
  BY DEF IInv, Counting, ReportedAtMostOnce
<1> QED BY <1>1, <1>2, PTL
=============================================================================
