------------------------------ MODULE FlowRuntime ------------------------------
(***************************************************************************)
(* A call's way through its flow: agents built per node, exit tools, the   *)
(* chain of routers and silent nodes (worker/src/flow/router.ts), the      *)
(* judge's transition, auto-advance, park, transfers and handoffs, and the *)
(* end_call tool that all of them have to keep from hanging up midway.     *)
(* A move is one of these transitions between its commit and its arrival;  *)
(* several can be under way.  What decides an objective is in Objectives.  *)
(***************************************************************************)
EXTENDS Naturals, Sequences, FiniteSets

CONSTANTS
  Node, Entry,
  Kind,        \* agent, router, statement, write, transfer, handoff or stop
  Exits,       \* Exits[n]: a sequence of [to, must, cant]
  NoNode,      \* an exit without a target
  Tag, Adds, Removes,   \* what a write node does to the contact's tags
  HasObjectives,        \* nodes whose first exit belongs to the judge
  ClosesItself,         \* conversation nodes whose wrap-up is end_call
  Scenarios,            \* the targets of the global scenarios
  Mode,        \* Mode[n] of a transfer node: simulated, warm or cold
  FailedExit,  \* FailedExit[n]: where a warm transfer that fails goes, or NoNode
  Target,      \* Target[n] of a handoff node: the other flow's entry, or Single
  Single,      \* an agent without a flow
  MaxHandoffs, MaxTurns, MaxFaults

Park == "park"

ExitShape == [to : Node \cup {NoNode}, must : SUBSET Tag, cant : SUBSET Tag]

ASSUME Shape ==
  /\ NoNode \notin Node /\ Single \notin Node /\ Park \notin Node /\ Park # Single
  /\ Kind \in [Node -> {"agent", "router", "statement", "write", "transfer", "handoff", "stop"}]
  /\ Exits \in [Node -> Seq(ExitShape)]
  /\ Adds \in [Node -> SUBSET Tag] /\ Removes \in [Node -> SUBSET Tag]
  /\ Mode \in [Node -> {"simulated", "warm", "cold"}]
  /\ FailedExit \in [Node -> Node \cup {NoNode}] /\ Target \in [Node -> Node \cup {Single}]
  /\ Entry \in Node /\ Kind[Entry] = "agent" /\ Scenarios \subseteq Node
  /\ HasObjectives \cup ClosesItself \subseteq {n \in Node : Kind[n] = "agent"}
  /\ HasObjectives \cap ClosesItself = {}
  /\ MaxHandoffs \in Nat /\ MaxTurns \in Nat /\ MaxFaults \in Nat

VARIABLES
  built,      \* every agent built so far: its node and the exits not gated, by number
  exited,     \* the agents one of whose exit tools has run
  agent,      \* session.currentAgent, as an index of built
  entering,   \* agents swapped in whose onEnter has not run
  live,       \* the last agent of a flow whose onEnter ran: it owns the flags
  armed,      \* the agent whose objectives the tracker watches, 0 for none
  moves,      \* the transitions under way
  pending, recent, inTransfer, complete, parked,   \* fields of FlowRuntimeState
  parkTimer,
  refusals,   \* endCallRefusalNode and endCallRefusalCount
  handoffs, handingOff,
  tags, goodbye, completed, turns, faults,
  stranded    \* for the properties: since a node was last entered, a transition has
              \* ended without arriving anywhere

agents == <<built, agent, entering>>
flags  == <<pending, complete, parked, parkTimer, refusals>>
vars   == <<agents, exited, live, armed, moves, flags, recent, inTransfer, handoffs, handingOff,
            tags, goodbye, completed, stranded, turns, faults>>

Open(x, tg) == x.must \subseteq tg /\ x.cant \cap tg = {}   \* tagRulesSatisfied

\* An agent for node n, with the exits the tags allow when it is built.
AgentFor(n, tg) ==
  [node |-> n, open |-> IF n \in Node THEN {j \in DOMAIN Exits[n] : Open(Exits[n][j], tg)} ELSE {}]

NodeOf(i)    == built[i].node
FirstExit(n) == IF Exits[n] = <<>> THEN NoNode ELSE Exits[n][1].to
Least(S)     == CHOOSE j \in S : \A k \in S : j <= k
ToolExits(i) ==   \* where its exit tools lead: the first is the judge's if there is one
  {Exits[NodeOf(i)][j].to : j \in {j \in built[i].open :
                                    NodeOf(i) \in HasObjectives => \E k \in built[i].open : k < j}}
Primary(i) ==     \* the judge's exit; when all are gated it ends the call
  IF built[i].open = {} THEN NoNode ELSE Exits[NodeOf(i)][Least(built[i].open)].to
Forward(i) ==     \* where the engine goes: the exit not gated, or the first if that ends the call
  IF Primary(i) = NoNode THEN FirstExit(NodeOf(i)) ELSE Primary(i)

\* isTerminalNode looks at the primary exit, gated or not.
Terminal(n) == n \in ClosesItself \/ FirstExit(n) = NoNode

Init ==
  /\ built = <<AgentFor(Entry, {})>> /\ exited = {}
  /\ agent = 1 /\ entering = <<1>> /\ live = 0 /\ armed = 0
  /\ moves = {} /\ pending = FALSE /\ recent = TRUE /\ inTransfer = FALSE
  /\ complete = FALSE /\ parked = FALSE /\ parkTimer = FALSE
  /\ refusals = [node |-> NoNode, count |-> 0]
  /\ handoffs = 0 /\ handingOff = FALSE
  /\ tags = {} /\ goodbye = FALSE /\ completed = FALSE /\ turns = 0 /\ faults = 0
  /\ stranded = FALSE

-----------------------------------------------------------------------------
(* resolveTarget *)

\* Where the chain is, the hops behind it, the tags so far, and what it came to
\* ("on" while it goes on): the first agent, the first node that does not lead on,
\* the sixth hop, or a router, which has to ask its model.
Chain == [kind : {"on", "end", "agent", "speech", "router", "transfer", "handoff", "stop"},
          at : Node \cup {NoNode}, hops : 0 .. 5, tags : SUBSET Tag]

\* One turn of the loop.
Hop[w \in Chain] ==
  LET stops(k) == [w EXCEPT !.kind = k]
      leads    == [w EXCEPT !.at = FirstExit(w.at), !.hops = @ + 1]
  IN IF w.kind # "on" THEN w
     ELSE IF w.at = NoNode THEN stops("end")
     ELSE IF Kind[w.at] = "agent" THEN stops("agent")
     ELSE IF w.hops = 5 THEN stops("end")
     ELSE IF Kind[w.at] = "write" THEN [leads EXCEPT !.tags = (@ \cup Adds[w.at]) \ Removes[w.at]]
     ELSE IF Kind[w.at] = "statement" THEN IF leads.at = NoNode THEN stops("speech") ELSE leads
     ELSE IF Kind[w.at] = "router" THEN [stops("router") EXCEPT !.hops = @ + 1]
     ELSE stops(Kind[w.at])   \* transfer, handoff, stop

\* From target n, with h hops behind.
Walk(n, h, tg) ==
  Hop[Hop[Hop[Hop[Hop[Hop[[kind |-> "on", at |-> n, hops |-> h, tags |-> tg]]]]]]]

\* Where a router may lead, which is listed before its model is asked: the exits that
\* are not gated, or all when all are.
Routable(n, tg) ==
  LET open == {i \in DOMAIN Exits[n] : Open(Exits[n][i], tg)}
  IN {Exits[n][i].to : i \in IF open # {} THEN open ELSE DOMAIN Exits[n]}

-----------------------------------------------------------------------------
(* Arrivals.  rest is the moves without the one that arrives.               *)

\* session.updateAgent: current at once, the onEnter runs later.
Swap(n) ==
  /\ built' = Append(built, AgentFor(n, tags'))
  /\ agent' = Len(built) + 1
  /\ entering' = Append(entering, Len(built) + 1)

HangUp == completed' = TRUE

\* startTransfer's sequence; outside a tool a warm transfer becomes a cold one.
Transferring(from, n) ==
  [via |-> IF Mode[n] = "simulated" THEN "transfer" ELSE "cold",
   from |-> from, stage |-> "run", at |-> n, hops |-> 0, to |-> {}]

\* Mutant: the limit is noticed one handoff late.
StartHandoffM(rest, from, n) ==
  /\ handingOff' = TRUE
  /\ IF handingOff THEN moves' = rest /\ UNCHANGED <<handoffs, completed>>
     ELSE /\ handoffs' = handoffs + 1
          /\ IF handoffs > MaxHandoffs THEN HangUp /\ moves' = rest
             ELSE /\ moves' = rest \cup {[via |-> "handoff", from |-> from, stage |-> "run",
                                          at |-> n, hops |-> 0, to |-> {}]}
                  /\ UNCHANGED completed

\* doHandoff up to the fetch of the other agent.
StartHandoff(rest, from, n) ==
  /\ handingOff' = TRUE
  /\ IF handingOff THEN moves' = rest /\ UNCHANGED <<handoffs, completed>>
     ELSE /\ handoffs' = handoffs + 1
          /\ IF handoffs = MaxHandoffs THEN HangUp /\ moves' = rest
             ELSE /\ moves' = rest \cup {[via |-> "handoff", from |-> from, stage |-> "run",
                                          at |-> n, hops |-> 0, to |-> {}]}
                  /\ UNCHANGED completed

\* What a resolved target means to a move m: the switch of followTarget, of the
\* judge, of auto-advance, of the parked agent, of a transfer's sequence and of a
\* warm transfer that failed.  The last two drop a transfer they lead to ("not
\* supported", transfer.ts:306).  r: the move stamps lastTransitionAt as it starts.
Arrive(rest, m, w, r) ==
  LET inline == w.kind = "transfer" /\ m.via = "tool" /\ Mode[w.at] = "warm"
      lift   == m.via = "transfer" /\ w.kind # "router"   \* the speech guard
      swaps  == w.kind \in {"agent", "stop"}
      drops  == w.kind = "transfer" /\ m.via \in {"transfer", "warm"}
  IN
  /\ tags' = w.tags
  /\ recent' = (recent \/ r \/ swaps \/ (w.kind = "handoff" /\ ~handingOff))
  /\ inTransfer' = ((inTransfer /\ ~lift)
                    \/ (w.kind = "transfer" /\ ~inline /\ ~drops))
  /\ stranded' = (stranded \/ drops)
  /\ \/ /\ w.kind = "router"
        /\ moves' = rest \cup {[m EXCEPT !.stage = "router", !.at = w.at, !.hops = w.hops,
                                     !.to = Routable(w.at, w.tags)]}
        /\ UNCHANGED <<agents, handoffs, handingOff, goodbye, completed>>
     \/ /\ swaps
        /\ Swap(IF w.kind = "agent" THEN w.at ELSE Park)
        /\ moves' = rest
        /\ UNCHANGED <<handoffs, handingOff, goodbye, completed>>
     \/ /\ w.kind \in {"end", "speech"}
        /\ IF m.via = "auto" \/ (w.kind = "end" /\ m.via # "tool")
           THEN HangUp /\ UNCHANGED goodbye
           ELSE goodbye' = TRUE /\ UNCHANGED completed   \* after the playout
        /\ moves' = rest
        /\ UNCHANGED <<agents, handoffs, handingOff>>
     \/ /\ w.kind = "handoff" /\ StartHandoff(rest, m.from, w.at)
        /\ UNCHANGED <<agents, goodbye>>
     \/ /\ w.kind = "transfer"
        /\ moves' = IF inline
                    THEN rest \cup {[m EXCEPT !.via = "warm", !.at = w.at,
                                             !.stage = "run", !.hops = 0, !.to = {}]}
                    ELSE IF drops \/ inTransfer THEN rest
                    ELSE rest \cup {Transferring(m.from, w.at)}
        /\ UNCHANGED <<agents, handoffs, handingOff, goodbye, completed>>

NewMove(via, stage) ==
  [via |-> via, from |-> agent, stage |-> stage, at |-> NoNode, hops |-> 0, to |-> {}]

\* Mutant: every router starts to count anew.
GoM(m, to) ==
  LET w == Walk(to, 0, tags) IN
  /\ Arrive(moves \ {m}, m, w, FALSE)
  /\ parkTimer' = (parkTimer /\ (m.via # "scenario" \/ w.kind = "router"))

\* A move under way goes on from target to; the park timer ends when a scenario
\* has led out of park.
Go(m, to) ==
  LET w == Walk(to, m.hops, tags) IN
  /\ Arrive(moves \ {m}, m, w, FALSE)
  /\ parkTimer' = (parkTimer /\ (m.via # "scenario" \/ w.kind = "router"))

\* The router's model names a listed exit, or fails and the fallback is taken.
RouterAnswers(m) ==
  /\ m.stage = "router"
  /\ \E n \in m.to : Go(m, n)
  /\ UNCHANGED <<exited, live, armed, pending, complete, parked, refusals, turns, faults>>

-----------------------------------------------------------------------------
(* Agents *)

\* Mutant: the next node's onEnter leaves transitionPending up.
EnterM ==
  /\ entering # <<>> /\ ~completed
  /\ LET i == Head(entering) n == NodeOf(i) IN
     IF n = Single THEN stranded' = TRUE /\ UNCHANGED <<live, flags, armed>>
     ELSE /\ live' = i /\ complete' = FALSE /\ stranded' = FALSE
          /\ refusals' = [node |-> NoNode, count |-> 0]
          /\ parkTimer' = (n = Park) /\ parked' = (parked \/ n = Park)
          /\ armed' = IF n \in HasObjectives THEN i ELSE 0
          /\ UNCHANGED pending
  /\ entering' = Tail(entering)
  /\ UNCHANGED <<built, exited, agent, moves, recent, inTransfer, handoffs, handingOff,
                 tags, goodbye, completed, turns, faults>>

\* onEnter of a node's agent, of the parked agent and of a single agent, which
\* only nudges the model to speak: transitionPending stays as it is.
Enter ==
  /\ entering # <<>> /\ ~completed
  /\ LET i == Head(entering) n == NodeOf(i) IN
     IF n = Single THEN stranded' = TRUE /\ UNCHANGED <<live, flags, armed>>
     ELSE /\ live' = i
          /\ pending' = FALSE /\ complete' = FALSE /\ stranded' = FALSE
          /\ refusals' = [node |-> NoNode, count |-> 0]
          /\ parkTimer' = (n = Park)
          /\ parked' = (parked \/ n = Park)
          /\ armed' = IF n \in HasObjectives THEN i ELSE 0
  /\ entering' = Tail(entering)
  /\ UNCHANGED <<built, exited, agent, moves, recent, inTransfer, handoffs, handingOff,
                 tags, goodbye, completed, turns, faults>>

\* 5 seconds since the last switch.
TimePasses ==
  /\ recent /\ ~completed /\ recent' = FALSE
  /\ UNCHANGED <<agents, exited, live, armed, moves, flags, inTransfer, handoffs, handingOff,
                 tags, goodbye, completed, stranded, turns, faults>>

\* The model may call the tools of the agent that is current and has entered.
Speaking == ~completed /\ NodeOf(agent) # Park /\ agent \notin {entering[i] : i \in DOMAIN entering}

\* An exit tool or a scenario's, once per agent: followTarget commits at once.
TakeExit(to) ==
  /\ Speaking /\ NodeOf(agent) # Single /\ agent \notin exited
  /\ to \in ToolExits(agent) \cup (Scenarios \ {NodeOf(agent)})
  /\ exited' = exited \cup {agent}
  /\ pending' = TRUE
  /\ Arrive(moves, NewMove("tool", "run"), Walk(to, 0, tags), TRUE)
  /\ UNCHANGED <<live, armed, complete, parked, parkTimer, refusals, turns, faults>>

UserTurn ==
  /\ turns < MaxTurns /\ ~completed /\ NodeOf(agent) # Park
  /\ turns' = turns + 1
  /\ UNCHANGED <<agents, exited, live, armed, moves, flags, recent, inTransfer, handoffs,
                 handingOff, tags, goodbye, completed, stranded, faults>>

-----------------------------------------------------------------------------
(* The judge (its verdicts are in Objectives) *)

\* Once for each agent that was armed: complete goes up and down with its transitioning.
JudgeCommits ==
  /\ armed # 0 /\ ~complete /\ ~completed
  /\ moves' = moves \cup {[NewMove("judge", "idle") EXCEPT !.from = armed]}
  /\ pending' = TRUE /\ complete' = TRUE
  /\ UNCHANGED <<agents, exited, live, armed, parked, parkTimer, refusals, recent, inTransfer,
                 handoffs, handingOff, tags, goodbye, completed, stranded, turns, faults>>

\* The agent is idle: on to the exit, unless the call has moved on.
JudgeResumes(m) ==
  /\ m.stage = "idle"
  /\ IF armed # m.from \/ NodeOf(agent) # NodeOf(m.from)
     THEN /\ pending' = FALSE
          /\ moves' = moves \ {m}
          /\ UNCHANGED <<agents, armed, parkTimer, recent, inTransfer, handoffs, handingOff,
                         tags, goodbye, completed, stranded>>
     ELSE /\ armed' = 0 /\ Go(m, Primary(m.from)) /\ UNCHANGED pending
  /\ UNCHANGED <<exited, live, complete, parked, refusals, turns, faults>>

-----------------------------------------------------------------------------
(* The end_call tool *)

TerminalNow == live = 0 \/ (NodeOf(live) # Park /\ Terminal(NodeOf(live)))
InTransition == inTransfer \/ pending \/ recent

\* Mutant: each refusal is the first.
RefusalsM == 1

\* Refused twice on a node that is not terminal: the forward exit is taken.
Refusals == IF refusals.node = NodeOf(agent) THEN 2 ELSE 1
CanAdvance == live # 0 /\ NodeOf(live) # Park /\ NodeOf(agent) = NodeOf(live)

EndCall ==
  /\ Speaking /\ turns >= 2 /\ ~InTransition
  /\ IF TerminalNow \/ complete
     THEN /\ goodbye' = TRUE
          /\ UNCHANGED <<agents, moves, pending, refusals, recent, inTransfer, handoffs,
                         handingOff, tags, completed, stranded>>
     ELSE /\ refusals' = [node |-> NodeOf(agent), count |-> Refusals]
          /\ IF Refusals = 2 /\ CanAdvance
             THEN /\ pending' = TRUE
                  /\ Arrive(moves, NewMove("auto", "run"), Walk(Forward(live), 0, tags), TRUE)
             ELSE UNCHANGED <<agents, moves, pending, recent, inTransfer, handoffs,
                              handingOff, tags, goodbye, completed, stranded>>
  /\ UNCHANGED <<exited, live, armed, complete, parked, parkTimer, turns, faults>>

\* hangUp, once what was being said has been played.
Goodbye ==
  /\ goodbye /\ ~completed /\ HangUp
  /\ UNCHANGED <<agents, exited, live, armed, moves, flags, recent, inTransfer, handoffs,
                 handingOff, tags, goodbye, stranded, turns, faults>>

\* Whatever else ends a call: the caller, silence, the longest duration.
CallEnds ==
  /\ ~completed /\ HangUp
  /\ UNCHANGED <<agents, exited, live, armed, moves, flags, recent, inTransfer, handoffs,
                 handingOff, tags, goodbye, stranded, turns, faults>>

-----------------------------------------------------------------------------
(* Park *)

\* A turn while parked asks the scenarios; no reply is ever generated.
ParkedTurn ==
  /\ NodeOf(agent) = Park /\ parked /\ ~completed /\ turns < MaxTurns
  /\ \A m \in moves : m.via # "scenario"   \* the SDK runs one turn hook at a time
  /\ turns' = turns + 1
  /\ moves' = moves \cup {NewMove("scenario", "ask")}
  /\ UNCHANGED <<agents, exited, live, armed, flags, recent, inTransfer, handoffs,
                 handingOff, tags, goodbye, completed, stranded, faults>>

\* Mutant: the park timer is cleared before the scenarios are asked.
ScenarioAnswersM(m) ==
  /\ m.stage = "ask"
  /\ \/ /\ moves' = moves \ {m} /\ parkTimer' = FALSE
        /\ UNCHANGED <<agents, parked, recent, inTransfer, handoffs, handingOff,
                       tags, goodbye, completed, stranded>>
     \/ /\ parked /\ parked' = FALSE
        /\ \E to \in Scenarios : Go(m, to)
  /\ UNCHANGED <<exited, live, armed, pending, complete, refusals, turns, faults>>

ScenarioAnswers(m) ==
  /\ m.stage = "ask"
  /\ \/ /\ moves' = moves \ {m}
        /\ UNCHANGED <<agents, parked, parkTimer, recent, inTransfer, handoffs, handingOff,
                       tags, goodbye, completed, stranded>>
     \/ /\ parked /\ parked' = FALSE
        /\ \E to \in Scenarios : Go(m, to)
  /\ UNCHANGED <<exited, live, armed, pending, complete, refusals, turns, faults>>

ParkTimeout ==
  /\ parkTimer /\ ~completed /\ parkTimer' = FALSE
  /\ IF NodeOf(agent) = Park THEN HangUp ELSE UNCHANGED completed
  /\ UNCHANGED <<agents, exited, live, armed, moves, pending, complete, parked, refusals, recent,
                 inTransfer, handoffs, handingOff, tags, goodbye, stranded, turns, faults>>

-----------------------------------------------------------------------------
(* Transfers and handoffs *)

Fault == faults < MaxFaults /\ faults' = faults + 1

\* Announcement and hold music are over: the flow goes on at the exit; or one of
\* them throws, and nothing more comes.
TransferDone(m) ==
  /\ m.via = "transfer" /\ m.stage = "run"
  /\ \/ Go(m, FirstExit(m.at)) /\ UNCHANGED faults
     \/ /\ Fault /\ moves' = moves \ {m} /\ inTransfer' = FALSE /\ stranded' = TRUE
        /\ UNCHANGED <<agents, parkTimer, recent, handoffs, handingOff, tags, goodbye, completed>>
  /\ UNCHANGED <<exited, live, armed, pending, complete, parked, refusals, turns>>

\* SIP REFER: the caller is forwarded (or there is nobody to forward) and the call
\* ends here; or the request fails and the call goes on.
ColdDone(m) ==
  /\ m.via = "cold"
  /\ \/ HangUp /\ UNCHANGED <<stranded, faults>>
     \/ Fault /\ stranded' = TRUE /\ UNCHANGED completed
  /\ moves' = moves \ {m} /\ inTransfer' = FALSE
  /\ UNCHANGED <<agents, exited, live, armed, flags, recent, handoffs, handingOff,
                 tags, goodbye, turns>>

\* WarmTransferTask: merged, and the agent steps out; or not connected.
WarmDone(m) ==
  /\ m.via = "warm" /\ m.stage = "run"
  /\ \/ /\ HangUp /\ moves' = moves \ {m}
        /\ UNCHANGED <<agents, parkTimer, recent, inTransfer, handoffs, handingOff,
                       tags, goodbye, stranded, faults>>
     \/ /\ Fault
        /\ IF FailedExit[m.at] # NoNode THEN Go(m, FailedExit[m.at])
           ELSE /\ moves' = moves \ {m} /\ stranded' = TRUE
                /\ UNCHANGED <<agents, parkTimer, recent, inTransfer, handoffs, handingOff,
                               tags, goodbye, completed>>
  /\ UNCHANGED <<exited, live, armed, pending, complete, parked, refusals, turns>>

\* Mutant: the single-flight guard is never lifted.
HandoffDoneM(m) ==
  /\ m.via = "handoff"
  /\ moves' = moves \ {m}
  /\ tags' = tags /\ Swap(Target[m.at])
  /\ recent' = (recent \/ Target[m.at] # Single)
  /\ UNCHANGED <<exited, live, armed, flags, inTransfer, handoffs, handingOff, goodbye,
                 completed, stranded, turns, faults>>

\* The other agent's config is here, the announcement and the music are over; there is
\* no config, or that of another project; or something in between throws.
HandoffDone(m) ==
  /\ m.via = "handoff"
  /\ moves' = moves \ {m}
  /\ \/ /\ tags' = tags /\ Swap(Target[m.at])
        /\ recent' = (recent \/ Target[m.at] # Single)   \* a flow's agent stamps it
        /\ handingOff' = FALSE /\ UNCHANGED <<completed, stranded, faults>>
     \/ /\ Fault /\ HangUp
        /\ UNCHANGED <<agents, recent, handingOff, tags, stranded>>
     \/ /\ Fault /\ handingOff' = FALSE /\ stranded' = TRUE
        /\ UNCHANGED <<agents, recent, tags, completed>>
  /\ UNCHANGED <<exited, live, armed, flags, inTransfer, handoffs, goodbye, turns>>

-----------------------------------------------------------------------------

MoveStep ==
  /\ ~completed
  /\ \E m \in moves :
       \/ RouterAnswers(m) \/ JudgeResumes(m) \/ ScenarioAnswers(m)
       \/ TransferDone(m) \/ ColdDone(m) \/ WarmDone(m) \/ HandoffDone(m)

Next ==
  \/ Enter \/ TimePasses \/ UserTurn \/ EndCall \/ Goodbye \/ CallEnds
  \/ \E to \in Node \cup {NoNode} : TakeExit(to)
  \/ JudgeCommits \/ ParkedTurn \/ ParkTimeout \/ MoveStep

Spec == Init /\ [][Next]_vars

\* The engine's own steps and timers happen; the model that thinks the call is
\* over keeps calling end_call, and the caller says something now and then.
FairSpec ==
  /\ Spec
  /\ WF_vars(Enter) /\ WF_vars(TimePasses) /\ WF_vars(Goodbye)
  /\ WF_vars(ParkTimeout) /\ WF_vars(MoveStep)
  /\ WF_vars(UserTurn) /\ WF_vars(EndCall)

-----------------------------------------------------------------------------
(* Properties *)

Vias == {"tool", "judge", "auto", "scenario", "transfer", "cold", "warm", "handoff"}

TypeOK ==
  /\ agent \in DOMAIN built /\ live \in 0 .. Len(built) /\ armed \in 0 .. Len(built)
  /\ exited \subseteq DOMAIN built
  /\ \A m \in moves : /\ m.via \in Vias /\ m.stage \in {"run", "router", "idle", "ask"}
                      /\ m.at \in Node \cup {NoNode} /\ m.hops \in 0 .. 5
                      /\ m.to \subseteq Node \cup {NoNode}
  /\ tags \subseteq Tag /\ handoffs \in 0 .. MaxHandoffs + 1
  /\ turns \in 0 .. MaxTurns /\ faults \in 0 .. MaxFaults

Transfers == {m \in moves : m.via \in {"transfer", "cold"}}

\* The two guards are up exactly while what they guard is under way: a guard left
\* up would silence the agent (SpeechCreated) or refuse every later handoff, one
\* down too early would let the model talk over the music or start a second one.
GuardsMatch ==
  /\ ~completed => (inTransfer <=> Transfers # {})
  /\ ~completed => (handingOff <=> \E m \in moves : m.via = "handoff")
  /\ Cardinality(Transfers) <= 1

\* transitionPending is "Cleared once the next node enters (buildFlowAgent onEnter)
\* or the transition aborts" (flow/context.ts:291): while it is up something is on
\* its way, unless the transition has ended without arriving, since the last node was
\* entered: a transfer or a handoff threw, a transfer led to another one, which is
\* dropped, or an agent without a flow took over.
PendingHasMove ==
  pending => completed \/ goodbye \/ moves # {} \/ entering # <<>> \/ stranded

\* What is not so: without those exceptions, in a run in which nothing throws.
PendingAlwaysMoves ==
  pending => completed \/ goodbye \/ moves # {} \/ entering # <<>> \/ faults > 0

\* No chain of routers wedges a call (the fifth hop is the last), and no transition
\* is left half way: again and again nothing is under way.
EveryMoveLands == []<>(completed \/ moves = {})

\* "a refused-end_call goodbye loop always makes forward progress"
\* (flow/context.ts:326): a model that keeps saying goodbye reaches the end, but for a
\* transition that never arrives, see PendingHasMove.
GoodbyeEndsCall == <>completed \/ <>[]stranded

\* "a parked voice call reliably closes" (agent-builder.ts:662), or is led out.
ParkedCloses == NodeOf(agent) = Park ~> completed \/ NodeOf(agent) # Park \/ []stranded
=============================================================================
