------------------------------ MODULE Objectives ------------------------------
(***************************************************************************)
(* The objectives tracker of one flow (worker/src/flow/objectives.ts): a   *)
(* judge pass after every caller turn, field writes nobody waits for, and  *)
(* the transition the engine takes once a node's required objectives are   *)
(* settled.  A node's runtime object outlives the node: the passes, writes *)
(* and transitions of an entry go on while a later entry is active.        *)
(***************************************************************************)
EXTENDS Naturals, SequencesExt

CONSTANTS
  Node,          \* the flow's nodes; those with no objectives disarm the tracker
  Start,         \* the entry node
  ObjectivesOf,  \* ObjectivesOf[n]: the keys of n's objectives, in order
  Key,
  Parts,         \* Parts[k]: aggregateOf, <<>> for an objective of its own
  Required, SkipIfKnown,        \* sets of keys
  Field, NoField, FieldOf,      \* FieldOf[k]: the field k is written to
  HasWriter,     \* whether the config has a field-write tool
  MaxAttempts,
  Heard, Filed,  \* words a caller may say; words of the CRM's own
  NA,            \* the answer N/A
  OnFile,        \* values the CRM may hold for a field at dispatch; <<>> is none
  MaxChecks, MaxEntries, MaxTurns, MaxFaults

ASSUME Shape ==
  /\ Start \in Node
  /\ ObjectivesOf \in [Node -> Seq(Key)]
  /\ Parts \in [Key -> Seq(Key)]
  /\ FieldOf \in [Key -> Field \cup {NoField}] /\ NoField \notin Field
  /\ HasWriter \in BOOLEAN
  /\ MaxAttempts \in Nat \ {0}
  /\ NA \notin Heard /\ OnFile \subseteq Seq(Heard \cup Filed \cup {NA})
  /\ {MaxChecks, MaxEntries, MaxTurns, MaxFaults} \subseteq Nat

\* What the schema asks of a node's list (agent-config.ts:622-655): keys are unique,
\* and the parts of an aggregate are objectives of the same list, none an aggregate.
ASSUME Lists ==
  \A n \in Node :
    /\ IsInjective(ObjectivesOf[n])
    /\ \A k \in ToSet(ObjectivesOf[n]) : \A p \in ToSet(Parts[k]) :
         p \in ToSet(ObjectivesOf[n]) /\ Parts[p] = <<>>

Answer == {<<>>, <<NA>>} \cup {<<w>> : w \in Heard}   \* what a judge extracts

VARIABLES
  entries,    \* the runtime object of each entry of a node, oldest first
  active,     \* activeObjectives, as an index of entries; 0 is null
  known,      \* contactState
  captured,   \* state.capturedFields
  writes,     \* field writes in flight
  landed,     \* field writes the CRM has taken
  pending,    \* state.transitionPending
  complete,   \* state.currentNodeObjectivesComplete
  agent,      \* the node of session.currentAgent
  entering,   \* nodes swapped in whose onEnter has not run
  completed,  \* state.completed
  turns, faults

store   == <<known, captured, writes>>
session == <<agent, entering, completed>>
vars    == <<entries, active, store, landed, pending, complete, session, turns, faults>>

\* given: known before the node was entered.  follows, for the properties: an
\* aggregate was made of its parts, or a part of it was corrected, and none has had
\* its first answer since.
Fresh == [met |-> FALSE, answer |-> <<>>, given |-> FALSE, attempts |-> 0,
          skipped |-> FALSE, failed |-> FALSE, retried |-> FALSE, follows |-> FALSE]

List(e)        == ObjectivesOf[entries[e].node]
IsAggregate(k) == Parts[k] # <<>>
Settled(p)     == p.met \/ p.skipped

Init ==
  /\ entries = <<>> /\ active = 0
  /\ known \in [Field -> OnFile] /\ captured = {} /\ writes = {} /\ landed = {}
  /\ pending = FALSE /\ complete = FALSE
  /\ agent = Start /\ entering = <<Start>> /\ completed = FALSE
  /\ turns = 0 /\ faults = 0

-----------------------------------------------------------------------------
(* What a pass does to a runtime object: functions of s, a record of its    *)
(* progress with the contact state and the writes.                          *)

\* Of the keys K, the one that comes last in the list.
LastOf(list, K) == list[Max({i \in DOMAIN list : list[i] \in K})]

\* Mutant: captures are kept by objective instead of by field.
WriteM(s, e, list, K, ans) ==
  LET sent  == {k \in K : HasWriter /\ FieldOf[k] # NoField /\ ans[k] # <<>>}
      to(f) == {k \in sent : FieldOf[k] = f}
  IN [s EXCEPT !.known = [f \in Field |->
                            IF to(f) = {} THEN @[f] ELSE ans[LastOf(list, to(f))]],
               !.captured = @ \cup sent,
               !.writes = @ \cup {[entry |-> e, key |-> k, answer |-> ans[k]] : k \in sent}]

\* writeObjectiveField for the keys K of entry e, in the order of its list: the
\* value is known at once, the CRM is told later; without the tool nothing is.
Write(s, e, list, K, ans) ==
  LET sent  == {k \in K : HasWriter /\ FieldOf[k] # NoField /\ ans[k] # <<>>}
      to(f) == {k \in sent : FieldOf[k] = f}
  IN [s EXCEPT !.known = [f \in Field |->
                            IF to(f) = {} THEN @[f] ELSE ans[LastOf(list, to(f))]],
               !.captured = @ \cup {FieldOf[k] : k \in sent},
               !.writes = @ \cup {[entry |-> e, key |-> k, answer |-> ans[k]] : k \in sent}]

\* The progress of the keys K once they are met with the answers ans.
Met(prog, K, ans) ==
  [k \in DOMAIN prog |->
     IF k \in K THEN [prog[k] EXCEPT !.met = TRUE, !.answer = ans[k], !.given = FALSE]
     ELSE prog[k]]

\* Mutant: only a first answer is written, a correction stays in the call.
RecordM(s, e, list, K, ans) ==
  Write([s EXCEPT !.prog = Met(@, K, ans)], e, list,
        {k \in K : ans[k] # <<NA>> /\ ~s.prog[k].met}, ans)

\* Answers are recorded; N/A settles the objective with nothing to write.
Record(s, e, list, K, ans) ==
  Write([s EXCEPT !.prog = Met(@, K, ans)], e, list, {k \in K : ans[k] # <<NA>>}, ans)

\* The answers of k's parts, joined in order without N/A.
Joined(prog, k) ==
  FlattenSeq([i \in DOMAIN Parts[k] |->
                LET a == prog[Parts[k][i]].answer IN IF a = <<NA>> THEN <<>> ELSE a])

\* Whether the aggregates K follow their parts from now on.
Heed(prog, K, b) ==
  [k \in DOMAIN prog |-> IF k \in K THEN [prog[k] EXCEPT !.follows = b] ELSE prog[k]]

\* An aggregate has no aggregate among its parts, so those that are due are
\* completed, or recomposed, independently of each other.
CompleteAggregates(s, e, list) ==
  LET due == {k \in ToSet(list) : /\ IsAggregate(k) /\ ~Settled(s.prog[k])
                                  /\ \A p \in ToSet(Parts[k]) : s.prog[p].met}
  IN Record([s EXCEPT !.prog = Heed(@, due, TRUE)], e, list, due,
            [k \in due |-> Joined(s.prog, k)])

\* Mutant: a correction does not reach the aggregates.
RecomposeAggregatesM(s, e, list, changed) == s

RecomposeAggregates(s, e, list, changed) ==
  LET stale == {k \in ToSet(list) : /\ changed \in ToSet(Parts[k]) /\ s.prog[k].met
                                    /\ Joined(s.prog, k) # s.prog[k].answer}
  IN Record(s, e, list, stale, [k \in stale |-> Joined(s.prog, k)])

\* The objectives that are still asked, as positions in the list.
Live(prog, list) == {i \in DOMAIN list : ~IsAggregate(list[i]) /\ ~Settled(prog[list[i]])}

\* The first live objective loses an attempt, and is skipped after its last.
BurnAttempt(s, list) ==
  LET focus == list[Min(Live(s.prog, list))]
      n     == s.prog[focus].attempts + 1
  IN IF Live(s.prog, list) = {} THEN s
     ELSE [s EXCEPT !.prog[focus].attempts = n, !.prog[focus].skipped = (n >= MaxAttempts)]

\* One confident check of a verdict: a first completion, of an aggregate even, or a
\* correction.
ApplyCheck(s, e, list, c) ==
  LET p     == s.prog[c.key]
      above == {k \in ToSet(list) : c.key \in ToSet(Parts[k]) /\ s.prog[k].met}
      t     == Record([s EXCEPT !.prog = Heed(@, above, p.met)], e, list, {c.key},
                      [k \in {c.key} |-> c.answer])
  IN IF ~p.met THEN t
     ELSE IF IsAggregate(c.key) \/ c.answer \in {<<>>, p.answer} THEN s
     ELSE RecomposeAggregates(t, e, list, c.key)

\* The checks of a verdict are applied in the order the judge lists them.
ApplyChecks(s, e, list, checks) ==
  LET after[i \in 0 .. Len(checks)] ==
        IF i = 0 THEN s ELSE ApplyCheck(after[i - 1], e, list, checks[i])
  IN after[Len(checks)]

ApplyVerdict(s, e, list, checks) ==
  CompleteAggregates(BurnAttempt(ApplyChecks(s, e, list, checks), list), e, list)

\* What the judge is asked about: open questions and answers it may correct.
Asked(prog, list) == {k \in ToSet(list) : ~IsAggregate(k) /\ (prog[k].met \/ ~prog[k].skipped)}

\* The judge's replies that parse: at most one check per objective and MaxChecks in all,
\* in some order; no one checks that they are what the judge was asked about.
Verdicts(list) ==
  UNION {{[i \in DOMAIN order |-> [key |-> order[i], answer |-> answers[order[i]]]] :
            order \in SetToSeqs(keys), answers \in [keys -> Answer]} :
         keys \in {K \in SUBSET ToSet(list) : Cardinality(K) <= MaxChecks}}

\* The writes that failed and were not retried yet are sent once more.
RetryWrites(s, e, list) ==
  LET resent == {k \in ToSet(list) : LET p == s.prog[k]
                                     IN p.failed /\ ~p.retried /\ p.answer # <<>>}
      prog  == [k \in DOMAIN s.prog |->
                  IF k \in resent THEN [s.prog[k] EXCEPT !.retried = TRUE] ELSE s.prog[k]]
  IN Write([s EXCEPT !.prog = prog], e, list, resent, [k \in resent |-> s.prog[k].answer])

AllSettled(prog, list) == \A k \in ToSet(list) \cap Required : Settled(prog[k])

-----------------------------------------------------------------------------
(* Steps.  rt is the runtime object of entry e, and s the state, that a step *)
(* has reached.                                                              *)

Put(e, rt, s) ==
  /\ entries' = [i \in DOMAIN entries \cup {e} |->
                   IF i = e THEN [rt EXCEPT !.prog = s.prog] ELSE entries[i]]
  /\ known' = s.known /\ captured' = s.captured /\ writes' = s.writes

State(e) == [prog |-> entries[e].prog, known |-> known, captured |-> captured, writes |-> writes]

\* Mutant: optional objectives hold the exit back as well.
MaybeCompleteM(e, rt, s, act, p, c) ==
  LET list   == ObjectivesOf[rt.node]
      commit == rt.exit = "no" /\ act = e /\ \A k \in ToSet(list) : Settled(s.prog[k])
  IN /\ IF commit THEN Put(e, [rt EXCEPT !.exit = "waiting"], RetryWrites(s, e, list))
                  ELSE Put(e, rt, s)
     /\ pending' = (p \/ commit)
     /\ complete' = (c \/ commit)

\* maybeCompleteObjectives: the commit, before the wait for the agent to be idle.
\* act is activeObjectives, p and c the two flags, when it is called.
MaybeComplete(e, rt, s, act, p, c) ==
  LET list   == ObjectivesOf[rt.node]
      commit == rt.exit = "no" /\ act = e /\ AllSettled(s.prog, list)
  IN /\ IF commit THEN Put(e, [rt EXCEPT !.exit = "waiting"], RetryWrites(s, e, list))
                  ELSE Put(e, rt, s)
     /\ pending' = (p \/ commit)
     /\ complete' = (c \/ commit)

\* One turn of onUserTurn's loop: a pass over everything heard so far; with
\* nothing to ask it is over at once.
Pass(e, rt, s) ==
  LET begun(n) == [rt EXCEPT !.rerun = FALSE, !.judged = rt.heard, !.pass = n]
  IN IF Asked(s.prog, ObjectivesOf[rt.node]) # {}
     THEN Put(e, begun(1), s) /\ UNCHANGED <<pending, complete>>
     ELSE MaybeComplete(e, begun(0), s, active, pending, complete)

\* Mutant: a turn that came during the pass is forgotten.
PassOverM(e, s) ==
  /\ MaybeComplete(e, [entries[e] EXCEPT !.pass = 0], s, active, pending, complete)
  /\ UNCHANGED <<active, landed, session, turns>>

\* The end of a pass: once more for a turn that came meanwhile, or on to the commit.
PassOver(e, s) ==
  /\ IF entries[e].rerun /\ active = e /\ entries[e].exit = "no"
     THEN Pass(e, entries[e], s)
     ELSE MaybeComplete(e, [entries[e] EXCEPT !.pass = 0], s, active, pending, complete)
  /\ UNCHANGED <<active, landed, session, turns>>

\* The progress of a node that is entered: what is known from the CRM (skipIfKnown)
\* or was captured in this call is met already.
Armed(list) ==
  LET inCall(k) == ~IsAggregate(k) /\ FieldOf[k] \in captured
      given(k)  == /\ FieldOf[k] # NoField /\ known[FieldOf[k]] # <<>>
                   /\ k \in SkipIfKnown \/ inCall(k)
  IN [k \in ToSet(list) |->
        IF given(k) THEN [Fresh EXCEPT !.met = TRUE, !.given = TRUE, !.answer = known[FieldOf[k]]]
        ELSE Fresh]

\* arm(): a new runtime object for a node with objectives.
Arm(n) ==
  LET e    == Len(entries) + 1
      list == ObjectivesOf[n]
      rt   == [node |-> n, prog |-> Armed(list), pass |-> 0, rerun |-> FALSE, exit |-> "no",
               heard |-> 0, judged |-> 0]
      s    == [prog |-> Armed(list), known |-> known, captured |-> captured, writes |-> writes]
  IN IF list = <<>>
     THEN /\ active' = 0 /\ pending' = FALSE /\ complete' = FALSE
          /\ UNCHANGED <<entries, store>>
     ELSE /\ active' = e
          /\ MaybeComplete(e, rt, CompleteAggregates(s, e, list), e, FALSE, FALSE)

\* onEnter of a node's agent: both flags are reset, then the tracker is armed.
Enter ==
  /\ entering # <<>> /\ ~completed
  /\ Arm(Head(entering))
  /\ entering' = Tail(entering)
  /\ UNCHANGED <<landed, agent, completed, turns, faults>>

\* onUserTurn, after a caller's turn was recorded.
UserTurn ==
  /\ turns < MaxTurns /\ ~completed
  /\ turns' = turns + 1
  /\ IF active = 0 THEN UNCHANGED <<entries, store, pending, complete>>
     ELSE IF entries[active].exit # "no"
     THEN UNCHANGED <<entries, store, pending, complete>>
     ELSE IF entries[active].pass # 0
     THEN /\ entries' = [entries EXCEPT ![active].heard = @ + 1, ![active].rerun = TRUE]
          /\ UNCHANGED <<store, pending, complete>>
     ELSE Pass(active, [entries[active] EXCEPT !.heard = @ + 1], State(active))
  /\ UNCHANGED <<active, landed, session, faults>>

\* The judge's reply parses.
JudgeAnswers(e) ==
  /\ entries[e].pass # 0
  /\ \E checks \in Verdicts(List(e)) :
        PassOver(e, ApplyVerdict(State(e), e, List(e), checks))
  /\ UNCHANGED faults

\* It does not: asked once more, then flow.judge_error and an attempt is gone.
JudgeGarbles(e) ==
  /\ entries[e].pass # 0 /\ faults < MaxFaults
  /\ faults' = faults + 1
  /\ IF entries[e].pass = 1
     THEN /\ entries' = [entries EXCEPT ![e].pass = 2]
          /\ UNCHANGED <<active, store, landed, pending, complete, session, turns>>
     ELSE PassOver(e, BurnAttempt(State(e), List(e)))

\* The request itself fails: onUserTurn's catch, which burns nothing.
JudgeThrows(e) ==
  /\ entries[e].pass # 0 /\ faults < MaxFaults
  /\ faults' = faults + 1
  /\ PassOver(e, State(e))

\* The agent has stopped speaking, or 15 seconds are over.
Resume(e) ==
  /\ entries[e].exit = "waiting"
  /\ IF completed \/ active # e \/ agent # entries[e].node
     THEN /\ entries' = [entries EXCEPT ![e].exit = "dropped"]
          /\ pending' = FALSE /\ UNCHANGED active
     ELSE /\ entries' = [entries EXCEPT ![e].exit = "resolving"]
          /\ active' = 0 /\ UNCHANGED pending
  /\ UNCHANGED <<store, landed, complete, session, turns, faults>>

\* session.updateAgent: current at once, its onEnter runs later.
Swap(n) ==
  /\ Len(entries) + Len(entering) < MaxEntries
  /\ agent' = n /\ entering' = Append(entering, n) /\ UNCHANGED completed

\* resolveTarget has answered: the next node, a hangup, or a transfer, a handoff
\* or a terminal statement that takes over from here (or it has thrown).
Resolve(e) ==
  /\ entries[e].exit = "resolving"
  /\ \/ \E n \in Node : Swap(n)
     \/ completed' = TRUE /\ UNCHANGED <<agent, entering>>
     \/ UNCHANGED session
  /\ entries' = [entries EXCEPT ![e].exit = "left"]
  /\ UNCHANGED <<active, store, landed, pending, complete, turns, faults>>

\* Any other way on: an exit tool, a scenario, auto-advance, a transfer's switch.
MoveOn(n) ==
  /\ ~completed
  /\ Swap(n) /\ pending' = TRUE
  /\ UNCHANGED <<entries, active, store, landed, complete, turns, faults>>

HangUp ==
  /\ ~completed /\ completed' = TRUE
  /\ UNCHANGED <<entries, active, store, landed, pending, complete, agent, entering, turns, faults>>

WriteLands(w) ==
  /\ w \in writes
  /\ writes' = writes \ {w} /\ landed' = landed \cup {w}
  /\ UNCHANGED <<entries, active, known, captured, pending, complete, session, turns, faults>>

\* The catch of writeObjectiveField.
WriteFails(w) ==
  /\ w \in writes /\ faults < MaxFaults
  /\ faults' = faults + 1
  /\ writes' = writes \ {w}
  /\ entries' = [entries EXCEPT ![w.entry].prog[w.key].failed = TRUE]
  /\ UNCHANGED <<active, known, captured, landed, pending, complete, session, turns>>

Next ==
  \/ Enter \/ UserTurn \/ HangUp
  \/ \E n \in Node : MoveOn(n)
  \/ \E e \in DOMAIN entries :
       JudgeAnswers(e) \/ JudgeGarbles(e) \/ JudgeThrows(e) \/ Resume(e) \/ Resolve(e)
  \/ \E w \in writes : WriteLands(w) \/ WriteFails(w)

Spec == Init /\ [][Next]_vars

-----------------------------------------------------------------------------
(* Properties *)

Progress ==
  [met : BOOLEAN, answer : Seq(Heard \cup Filed \cup {NA}), given : BOOLEAN,
   attempts : 0 .. MaxAttempts, skipped : BOOLEAN, failed : BOOLEAN, retried : BOOLEAN, follows : BOOLEAN]

TypeOK ==
  /\ \A e \in DOMAIN entries :
       /\ entries[e].node \in Node /\ entries[e].pass \in 0 .. 2
       /\ entries[e].exit \in {"no", "waiting", "resolving", "left", "dropped"}
       /\ \A k \in ToSet(List(e)) : entries[e].prog[k] \in Progress
  /\ active \in 0 .. Len(entries)
  /\ captured \subseteq Field
  /\ pending \in BOOLEAN /\ complete \in BOOLEAN /\ completed \in BOOLEAN
  /\ agent \in Node

Open(e) == active = e /\ entries[e].exit = "no" /\ entries[e].pass = 0

\* No turn goes unjudged: when no pass is running for the node that listens, the
\* last one began after the last turn it heard (rerun, objectives.ts:927-943).
TurnsJudged == \A e \in DOMAIN entries : Open(e) => entries[e].judged = entries[e].heard

\* A listening node is left as soon as its required objectives are settled, and
\* for no other reason: neither a garbled pass nor a turn during a pass makes the
\* tracker miss the moment.
LeavesWhenSettled ==
  \A e \in DOMAIN entries :
    /\ Open(e) => ~AllSettled(entries[e].prog, List(e))
    /\ entries[e].exit # "no" => AllSettled(entries[e].prog, List(e))

\* An answer the judge took from the caller reaches the CRM, is on its way, or is
\* marked as failed: completion, correction, aggregates and retry lose none.
NoSilentLoss ==
  \A e \in DOMAIN entries : \A k \in ToSet(List(e)) :
    LET p == entries[e].prog[k]
        w == [entry |-> e, key |-> k, answer |-> p.answer]
    IN p.met /\ ~p.given /\ p.answer \notin {<<>>, <<NA>>} /\ FieldOf[k] # NoField /\ HasWriter
         => w \in writes \cup landed \/ p.failed

\* A completed aggregate says what its parts say, corrections included: from the pass
\* that made it of its parts, or in which a part was corrected if it was met as a whole,
\* for as long as no other part gets its first answer.
AggregateFresh ==
  \A e \in DOMAIN entries : \A k \in ToSet(List(e)) :
    LET p == entries[e].prog[k]
    IN IsAggregate(k) /\ p.met /\ p.follows => p.answer = Joined(entries[e].prog, k)

\* What is not so: the last clause is needed, completeAggregates leaves a met one alone.
AggregateSaysParts ==
  \A e \in DOMAIN entries : \A k \in ToSet(List(e)) :
    LET p == entries[e].prog[k]
    IN /\ IsAggregate(k) /\ p.met /\ ~p.given
       /\ \A q \in ToSet(Parts[k]) : entries[e].prog[q].met
       => p.answer = Joined(entries[e].prog, k)

\* Skipping an objective "stops the objective gating the exit, so the node can
\* advance" (objectives.ts:519).
SkippedGatesNothing ==
  \A e \in DOMAIN entries :
    Open(e) => \E k \in ToSet(List(e)) : ~IsAggregate(k) /\ ~Settled(entries[e].prog[k])

\* transitionPending is "True from the moment an exit to a REAL next node is
\* COMMITTED [...] until that next node actually enters" (flow/context.ts:284).
PendingCoversCommit ==
  \A e \in DOMAIN entries :
    entries[e].exit = "resolving" \/ (entries[e].exit = "waiting" /\ active = e /\ agent = entries[e].node)
      => pending
=============================================================================
