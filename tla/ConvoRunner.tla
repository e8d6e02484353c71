------------------------------ MODULE ConvoRunner ------------------------------
(***************************************************************************)
(* A text conversation (src/lib/convo-runner, routes/conversations.ts):    *)
(* one row, and requests that read it, run a turn of the flow in memory    *)
(* (judge, exits, handoff, reply) and write everything back in one         *)
(* transaction.  Nothing keeps two requests of one conversation apart, nor *)
(* from edits of the agents it runs.                                       *)
(***************************************************************************)
EXTENDS FlowConfig, FiniteSetsExt

CONSTANTS
  Agent, Config,
  First,         \* the agent a client opens the conversation with
  FlowOf,        \* FlowOf[c]: the flow of config c, or None.  Its exits carry the tag
                 \* rules must and cant, its objectives field, required, ifKnown and
                 \* attempts (0: no limit), its nodes writes (the fields a set_field whose
                 \* tool exists sets), adds, removes and to (the agent of a handoff)
  Edits,         \* the configs that are published while it runs
  Continues,     \* configs with continueConversation
  Initially,     \* the history of every agent at the start
  Field, Tag, OnFile,   \* OnFile: sets of fields known at the start
  Interval, Window,     \* memory.intervalTurns, memory.windowTurns
  Request,              \* the requests that can be under way at once
  Idle, MaxArrivals, MaxVersions

\* The fields of a node that only the text runner reads here.
TextShape(n) ==
  /\ {"writes", "adds", "removes", "to"} \subseteq DOMAIN n
  /\ n.writes \subseteq Field /\ n.adds \subseteq Tag
  /\ n.kind = "handoff" => n.to \in Agent
  /\ \A i \in DOMAIN n.objectives :
       /\ n.objectives[i].required \in BOOLEAN /\ n.objectives[i].ifKnown \in BOOLEAN
       /\ n.objectives[i].field \in Field \cup {None} /\ n.objectives[i].attempts \in Nat

ASSUME Shape ==
  /\ Initially \in [Agent -> Seq(Config)] /\ First \in Agent /\ Initially[First] # <<>>
  /\ Edits \subseteq Config
  /\ \A c \in Config : FlowOf[c] # None =>
       Valid(FlowOf[c]) /\ \A i \in DOMAIN FlowOf[c].nodes : TextShape(FlowOf[c].nodes[i])
  /\ None \notin Field /\ OnFile \subseteq SUBSET Field
  /\ {Interval, Window} \subseteq Nat \ {0} /\ {MaxArrivals, MaxVersions} \subseteq Nat

VARIABLES
  history, deleted,   \* the agents, see AgentCatalog
  row,                \* the conversation's row, Idle before it exists; here, for the
                      \* properties, counts the turns since its agent has taken over
  messages,           \* how many rows conversation_messages has
  turn,               \* what a request holds, Idle when there is none
  arrivals            \* requests so far, bounded

vars == <<history, deleted, row, messages, turn, arrivals>>

Instead(p, c) == p    \* a published config stands for itself
Catalog == INSTANCE AgentCatalog WITH Patch <- Edits, Merge <- Instead

\* textFlowConfig, of a config with a flow; stop_responding is an agent node to the
\* text runner.
HasFlow(c)  == FlowOf[c] # None
TextFlow(c) == Prune(FlowOf[c], "text")
Pinned(r)   == history[r.agent][r.version]
EntryOf(c)  == IF HasFlow(c) THEN TextFlow(c).entry ELSE None

Init ==
  /\ history = Initially /\ deleted = {} /\ row = Idle /\ messages = 0
  /\ turn = [t \in Request |-> Idle] /\ arrivals = 0

\* createConversation: pinned to the current version, at the entry of its flow.
Open ==
  /\ row = Idle /\ First \notin deleted
  /\ \E known \in OnFile :
       LET v == Len(history[First]) IN
       row' = [status |-> "active", agent |-> First, version |-> v,
               node |-> EntryOf(history[First][v]), armed |-> None, progress |-> <<>>,
               known |-> known, tags |-> {}, turns |-> 0, here |-> 0, condensed |-> 0]
  /\ UNCHANGED <<history, deleted, messages, turn, arrivals>>

-----------------------------------------------------------------------------
(* What a turn does to its copy r of the row *)

Allowed(x, tags) == x.must \subseteq tags /\ x.cant \cap tags = {}

\* primaryExitTarget: the first exit the tags allow.
ExitOf(n, tags) ==
  LET open == {i \in DOMAIN n.exits : Allowed(n.exits[i], tags)}
  IN IF open = {} THEN None ELSE n.exits[Min(open)].to

\* armObjectives: what the contact's record knows is met, aggregates never gate.
Arm(r, n) ==
  [r EXCEPT !.armed = n.id,
            !.progress = [i \in DOMAIN n.objectives |->
               LET o == n.objectives[i]
               IN [met |-> o.parts = <<>> /\ o.ifKnown /\ o.field \in r.known,
                   attempts |-> 0, skipped |-> o.parts # <<>>]]]

Settled(p) == p.met \/ p.skipped

\* allRequiredMet
Done(r, n) == \A i \in DOMAIN n.objectives : n.objectives[i].required => Settled(r.progress[i])

LiveGoals(r, n) == {i \in DOMAIN n.objectives : ~Settled(r.progress[i])}

\* Mutant: a pass that completes nothing burns nothing.
JudgedM(r, n, got) ==
  [r EXCEPT !.progress = [i \in DOMAIN r.progress |->
     IF i \in DOMAIN got THEN [r.progress[i] EXCEPT !.met = TRUE] ELSE r.progress[i]],
     !.known = @ \cup {n.objectives[i].field : i \in {j \in DOMAIN got : got[j]}}]

\* judgeObjectives: got maps the objectives the judge found met to whether there is a
\* value to write (N/A has none); the first that stays open loses an attempt.
Judged(r, n, got) ==
  LET left  == LiveGoals(r, n) \ DOMAIN got
      focus == {i \in left : n.objectives[i].attempts > 0 /\ \A j \in left : i <= j}
  IN [r EXCEPT
        !.progress = [i \in DOMAIN r.progress |->
           IF i \in DOMAIN got THEN [r.progress[i] EXCEPT !.met = TRUE]
           ELSE IF i \in focus
           THEN [r.progress[i] EXCEPT !.attempts = @ + 1,
                                      !.skipped = r.progress[i].attempts + 1 >= n.objectives[i].attempts]
           ELSE r.progress[i]],
        !.known = @ \cup ({n.objectives[i].field : i \in {j \in DOMAIN got : got[j]}} \ {None})]

\* One turn of resolveTarget's loop, with h - 1 hops behind: the ways on from a way x
\* that has come as far as node x.at.  A router may take each of its exits.
Hop(f, x, h) ==
  LET n       == NodeAt(f, x.at)
      to(t)   == [x EXCEPT !.at = t]
      next    == to(IF n.exits = <<>> THEN None ELSE n.exits[1].to)
      stop(k) == {[x EXCEPT !.kind = k]}
      open    == {i \in DOMAIN n.exits : Allowed(n.exits[i], x.r.tags)}
  IN IF x.kind # "on" THEN {x}
     ELSE IF x.at = None THEN stop("end")
     ELSE IF n.kind \in {"agent", "stop_responding"} THEN stop("agent")
     ELSE IF h = 6 THEN stop("end")
     ELSE IF n.kind = "handoff" THEN stop("handoff")
     ELSE IF n.kind = "transfer" THEN stop("unsupported")
     ELSE IF n.kind = "set_field" THEN {[next EXCEPT !.r.known = @ \cup n.writes]}
     ELSE IF n.kind = "modify_tags"
     THEN {[next EXCEPT !.r.tags = (@ \cup n.adds) \ n.removes]}
     ELSE IF n.kind = "statement" THEN {[next EXCEPT !.said = TRUE]}
     ELSE {to(n.exits[i].to) : i \in IF open = {} THEN DOMAIN n.exits ELSE open}   \* router

Hops(f, X, h) == UNION {Hop(f, x, h) : x \in X}

\* resolveTarget: the loop is over after its sixth turn.
Resolve(f, to, r) ==
  LET start == [kind |-> "on", at |-> to, r |-> r, said |-> FALSE]
  IN Hops(f, Hops(f, Hops(f, Hops(f, Hops(f, Hops(f, {start}, 1), 2), 3), 4), 5), 6)

\* One turn of advance's loop: on from an agent node that has nothing left to ask.
Onward(f, x) ==
  IF x.kind # "agent" THEN {x}
  ELSE LET n == NodeAt(f, x.at)
           s == Arm(x.r, n)
       IN IF n.objectives = <<>> \/ ~Done(s, n) THEN {[x EXCEPT !.r = s]}
          ELSE {[z EXCEPT !.said = @ \/ x.said] : z \in Resolve(f, ExitOf(n, s.tags), s)}

Onwards(f, X) == UNION {Onward(f, x) : x \in X}

\* advance from node n: at most five turns of it.
Advance(f, n, r) ==
  Onwards(f, Onwards(f, Onwards(f, Onwards(f, Onwards(f, Resolve(f, ExitOf(n, r.tags), r))))))

\* A turn's result: the row it writes, and whether the contact hears something: lines
\* said on the way or in a handoff, or a reply from the model (asked).
Result(r, said, asked) == [row |-> r, said |-> said, asked |-> asked]

\* Mutant: the row keeps the agent it had.
SwitchM(r, n) ==
  LET to == n.to IN
  IF to \in deleted \/ history[to] = <<>>
  THEN Result([r EXCEPT !.node = n.id, !.status = "ended"], FALSE, FALSE)
  ELSE Result([r EXCEPT !.node = EntryOf(history[to][Len(history[to])]),
                        !.armed = None, !.progress = <<>>, !.here = 0], FALSE, TRUE)

\* performHandoff: to the current version of the other agent, or the end.
Switch(r, n) ==
  LET to == n.to
      v  == Len(history[to])
  IN IF to \in deleted \/ v = 0
     THEN Result([r EXCEPT !.node = n.id, !.status = "ended"], FALSE, FALSE)
     ELSE Result([r EXCEPT !.agent = to, !.version = v, !.node = EntryOf(history[to][v]),
                           !.armed = None, !.progress = <<>>, !.here = 0], FALSE, TRUE)

\* Mutant: an end of the conversation never has a reply.
LeaveM(c, x, bye) ==
  LET out == [x.r EXCEPT !.node = x.at]
      end == [x.r EXCEPT !.status = "ended"]
  IN CASE x.kind = "agent" -> Result(out, x.said, TRUE)
       [] x.kind = "end" /\ c \in Continues ->
            Result([x.r EXCEPT !.node = None, !.status = IF bye THEN "ended" ELSE @], x.said, FALSE)
       [] x.kind = "end" /\ c \notin Continues -> Result([end EXCEPT !.node = None], x.said, FALSE)
       [] x.kind = "handoff" -> [Switch(x.r, NodeAt(TextFlow(c), x.at)) EXCEPT !.said = x.said]
       [] x.kind = "unsupported" -> Result([end EXCEPT !.node = x.at], x.said, FALSE)

\* Where x, a way out of a node of config c, leaves the conversation.
Leave(c, x, bye) ==
  LET out == [x.r EXCEPT !.node = x.at]
      end == [x.r EXCEPT !.status = "ended"]
  IN CASE x.kind = "agent" -> Result(out, x.said, TRUE)
       [] x.kind = "end" /\ c \in Continues ->
            Result([x.r EXCEPT !.node = None, !.status = IF bye THEN "ended" ELSE @], x.said, TRUE)
       [] x.kind = "end" /\ c \notin Continues -> Result([end EXCEPT !.node = None], x.said, FALSE)
       [] x.kind = "handoff" -> [Switch(x.r, NodeAt(TextFlow(c), x.at)) EXCEPT !.said = x.said]
       [] x.kind = "unsupported" -> Result([end EXCEPT !.node = x.at], x.said, FALSE)

\* runTurn from the judge to the reply: the results a turn with copy r can have;
\* bye: the message sounds like the contact's last (isDisengageSignal).
Results(c, r, bye) ==
  LET f == TextFlow(c) IN
  IF HasFlow(c) /\ r.node \in Ids(f)
  THEN LET n == NodeAt(f, r.node)
           s == IF r.armed = n.id THEN r ELSE Arm(r, n)
           judged == {Judged(s, n, got) : got \in UNION {[J -> BOOLEAN] : J \in SUBSET LiveGoals(s, n)}}
           stay == {j \in judged : n.objectives = <<>> \/ ~Done(j, n)}
       IN {Result(j, FALSE, TRUE) : j \in stay}
          \cup {Leave(c, x, bye) : x \in UNION {Advance(f, n, j) : j \in judged \ stay}}
  ELSE IF c \in Continues /\ HasFlow(c) /\ r.node = None   \* the flow is behind us
  THEN {Result([r EXCEPT !.status = IF bye THEN "ended" ELSE @], FALSE, TRUE)}
  ELSE {Result(r, FALSE, TRUE)}

-----------------------------------------------------------------------------
(* Requests *)

Set(t, x) == turn' = [turn EXCEPT ![t] = x]

\* A request arrives and its route reads the row.
Arrive(t, kind) ==
  /\ row # Idle /\ turn[t] = Idle /\ arrivals < MaxArrivals
  /\ arrivals' = arrivals + 1
  /\ Set(t, [stage |-> kind, copy |-> row, seen |-> 0, said |-> FALSE,
              replied |-> FALSE, failed |-> FALSE])
  /\ UNCHANGED <<history, deleted, row, messages>>

\* runTurn: 409 for an ended conversation or an agent that is gone; the messages.
Load(t) ==
  /\ turn[t] # Idle /\ turn[t].stage = "read"
  /\ IF turn[t].copy.status # "active" \/ turn[t].copy.agent \in deleted
     THEN Set(t, Idle)
     ELSE Set(t, [turn[t] EXCEPT !.stage = "loaded", !.seen = messages + 1,
                                 !.copy.turns = @ + 1, !.copy.here = @ + 1])
  /\ UNCHANGED <<history, deleted, row, messages, arrivals>>

\* maybeRefreshSummary, at every Interval turns; it may fail and keep the old one.
Condensed(r, seen) ==
  {r} \cup IF r.turns % Interval # 0 \/ seen <= Window THEN {}
           ELSE {[r EXCEPT !.condensed = seen - Window]}

\* The model calls, the CRM writes and the handoff, up to the transaction.
Run(t) ==
  /\ turn[t] # Idle /\ turn[t].stage = "loaded"
  /\ \E bye, fails \in BOOLEAN : \E x \in Results(Pinned(turn[t].copy), turn[t].copy, bye) :
       LET replied == x.asked /\ ~fails
           seen    == turn[t].seen + IF x.said \/ replied THEN 1 ELSE 0
       IN /\ fails => x.asked
          /\ \E r \in Condensed(x.row, seen) :
               Set(t, [turn[t] EXCEPT !.stage = "ran", !.copy = r, !.seen = seen,
                                      !.said = x.said, !.replied = replied, !.failed = fails])
  /\ UNCHANGED <<history, deleted, row, messages, arrivals>>

\* Mutant: the mark of the summary counts the messages it kept verbatim.
PersistM(t) ==
  /\ turn[t] # Idle /\ turn[t].stage = "ran"
  /\ row' = [turn[t].copy EXCEPT !.condensed = turn[t].seen + Window]
  /\ messages' = messages + IF turn[t].said \/ turn[t].replied THEN 2 ELSE 1
  /\ Set(t, Idle)
  /\ UNCHANGED <<history, deleted, arrivals>>

\* The transaction: the messages and the whole row.
Persist(t) ==
  /\ turn[t] # Idle /\ turn[t].stage = "ran"
  /\ row' = turn[t].copy
  /\ messages' = messages + IF turn[t].said \/ turn[t].replied THEN 2 ELSE 1
  /\ Set(t, Idle)
  /\ UNCHANGED <<history, deleted, arrivals>>

\* POST .../end: endConversation on the row its route has read.
End(t) ==
  /\ turn[t] # Idle /\ turn[t].stage = "ending"
  /\ row' = IF turn[t].copy.status = "active" THEN [row EXCEPT !.status = "ended"] ELSE row
  /\ Set(t, Idle)
  /\ UNCHANGED <<history, deleted, messages, arrivals>>

\* The gateway restarts, or a query throws: nothing is written, the answer is a 500.
Break(t) ==
  /\ turn[t] # Idle
  /\ Set(t, Idle)
  /\ UNCHANGED <<history, deleted, row, messages, arrivals>>

\* Clients publish other configs of the agents, or delete them.
EditAgents ==
  /\ \E a \in Agent : \/ Catalog!Delete(a)
                      \/ Len(history[a]) < MaxVersions /\ Catalog!Edit(a)
  /\ UNCHANGED <<row, messages, turn, arrivals>>

Next ==
  \/ Open \/ EditAgents
  \/ \E t \in Request : Arrive(t, "read") \/ Arrive(t, "ending") \/ Load(t) \/ Run(t) \/ Persist(t) \/ End(t) \/ Break(t)

Spec == Init /\ [][Next]_vars

-----------------------------------------------------------------------------
(* Properties *)

Opened == row # Idle

TypeOK ==
  Opened =>
    /\ row.status \in {"active", "ended"}
    /\ row.agent \in Agent /\ row.version \in 1 .. Len(history[row.agent])
    /\ row.known \subseteq Field /\ row.tags \subseteq Tag
    /\ row.turns \in 0 .. MaxArrivals /\ row.condensed \in 0 .. messages
    /\ \A i \in DOMAIN row.progress :
         row.progress[i].met \in BOOLEAN /\ row.progress[i].skipped \in BOOLEAN

\* Whatever turns and edits overlap, an active conversation stands on a node of the
\* flow its own pinned version has, and its progress is about that node's objectives:
\* agent, version, node and progress never come from different turns.
StandsInItsFlow ==
  Opened /\ row.status = "active" =>
    LET c == Pinned(row)
        f == TextFlow(c)
    IN /\ ~HasFlow(c) => row.node = None
       /\ HasFlow(c) => row.node \in Ids(f) \cup {None}
       /\ HasFlow(c) /\ row.armed # None /\ row.armed = row.node =>
            DOMAIN row.progress = DOMAIN NodeAt(f, row.node).objectives

Total(v) ==
  LET upto[i \in 0 .. Len(v)] == IF i = 0 THEN 0 ELSE upto[i - 1] + v[i] IN upto[Len(v)]

\* How often each question of n may be asked; aggregates are not asked.
Limits(n) ==
  [i \in DOMAIN n.objectives |->
     IF n.objectives[i].parts = <<>> THEN n.objectives[i].attempts ELSE 0]

LedBack(f, id) == \E i \in DOMAIN f.nodes : \E j \in DOMAIN f.nodes[i].exits :
                    f.nodes[i].exits[j].to = id

\* Entry n of f is only met once and asks something, every question with a limit.
Limited(f, n) ==
  /\ ~LedBack(f, f.entry) /\ n.objectives # <<>>
  /\ \A i \in DOMAIN n.objectives :
       n.objectives[i].parts = <<>> => n.objectives[i].attempts > 0

\* A contact who never answers is not asked the same for ever: a turn counts and the
\* attempt it burns are written together, so questions with a limit at the entry of an
\* agent's flow (that nothing in it leads back to) are left within that many turns from
\* when the agent took over, for the first time or handed back to, even when turns
\* overlap, the judge fails or the summary runs ("exhausted -> it stops gating",
\* judge.ts).
AskedWithinLimit ==
  Opened /\ row.status = "active" /\ HasFlow(Pinned(row)) =>
    LET f == TextFlow(Pinned(row))
        n == NodeAt(f, f.entry)
    IN row.node = f.entry /\ row.node # None /\ Limited(f, n) => row.here < Total(Limits(n))

\* Every message that is accepted is answered, unless it ends the conversation or the
\* model fails: no way through routers, handoffs and continuation ends in silence.
Answered ==
  \A t \in Request :
    turn[t] # Idle /\ turn[t].stage = "ran" =>
      turn[t].said \/ turn[t].replied \/ turn[t].copy.status = "ended"
      \/ turn[t].failed

\* An ended conversation takes no more turns.
EndedStaysEnded == [][Opened /\ row.status = "ended" => row'.status = "ended"]_vars
=============================================================================
