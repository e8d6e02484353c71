------------------------------- MODULE FlowConfig -------------------------------
(***************************************************************************)
(* The flow of an agent config (packages/shared/src/agent-config.ts): what *)
(* the schema accepts, and the flow that the text channel runs, with the   *)
(* nodes of the other channel cut out and the edges led past them.         *)
(*                                                                         *)
(* A flow is [entry, nodes, scenarios]; a node has at least                *)
(*   id, kind, block (its kind's own block is there), channels (marks),    *)
(*   exits: a sequence of [name, to], objectives: of [key, parts],         *)
(*   closing: "no", "end_call" or the exit a conversation wraps up with.   *)
(***************************************************************************)
EXTENDS Naturals, Sequences, FiniteSets

CONSTANTS None,       \* an exit without a target; an entry that leads nowhere
          Slug(_)     \* the tool name a scenario's name becomes

Ids(f) == {f.nodes[i].id : i \in DOMAIN f.nodes}
NodeAt(f, id) == f.nodes[CHOOSE i \in DOMAIN f.nodes : f.nodes[i].id = id]

Distinct(s) == \A i, j \in DOMAIN s : s[i] = s[j] => i = j
IsList(s)   == s \in Seq({s[i] : i \in DOMAIN s})

-----------------------------------------------------------------------------
(* The schema field by field *)

Kinds == {"agent", "router", "statement", "transfer", "set_field", "modify_tags", "handoff",
          "stop_responding"}

Marks == {"voice", "text"}

\* An edge: an exit, which ends the call when it has no target, or a scenario.
EdgeShape(x) == {"name", "to"} \subseteq DOMAIN x

\* aggregateOf names at least one part when it is there; attempts are limited to 10.
ObjectiveShape(o) ==
  /\ {"key", "parts"} \subseteq DOMAIN o /\ IsList(o.parts)
  /\ "attempts" \in DOMAIN o => o.attempts \in 0 .. 10

NodeShape(n) ==
  /\ {"id", "kind", "block", "channels", "exits", "objectives", "closing"} \subseteq DOMAIN n
  /\ n.id # None
  /\ n.kind \in Kinds /\ n.block \in BOOLEAN /\ n.channels \subseteq Marks
  /\ IsList(n.objectives) /\ \A i \in DOMAIN n.objectives : ObjectiveShape(n.objectives[i])
  /\ IsList(n.exits) /\ \A i \in DOMAIN n.exits : EdgeShape(n.exits[i])

FlowShape(f) ==
  /\ {"entry", "nodes", "scenarios"} \subseteq DOMAIN f
  /\ IsList(f.nodes) /\ f.nodes # <<>> /\ \A i \in DOMAIN f.nodes : NodeShape(f.nodes[i])
  /\ IsList(f.scenarios) /\ \A i \in DOMAIN f.scenarios : EdgeShape(f.scenarios[i])

-----------------------------------------------------------------------------
(* The schema's checks across fields (superRefine) *)

ObjectivesOK(n) ==
  LET keys == {n.objectives[i].key : i \in DOMAIN n.objectives}
      joined(k) == \E i \in DOMAIN n.objectives :
                     n.objectives[i].key = k /\ n.objectives[i].parts # <<>>
  IN /\ n.objectives # <<>> => n.kind = "agent"
     /\ Distinct([i \in DOMAIN n.objectives |-> n.objectives[i].key])
     /\ \A i \in DOMAIN n.objectives : \A j \in DOMAIN n.objectives[i].parts :
          LET part == n.objectives[i].parts[j]
          IN part # n.objectives[i].key /\ part \in keys /\ ~joined(part)

ConversationOK(n) ==
  n.closing # "no" =>
    /\ n.kind = "agent" /\ n.objectives = <<>>
    /\ n.closing # "end_call" => \E i \in DOMAIN n.exits : n.exits[i].name = n.closing

ExitsOK(n) ==
  CASE n.kind \in {"set_field", "modify_tags", "statement"} -> n.block /\ Len(n.exits) <= 1
    [] n.kind = "router" -> n.block /\ Len(n.exits) >= 2
    [] n.kind = "handoff" -> n.block /\ n.exits = <<>>
    [] n.kind = "stop_responding" -> n.exits = <<>>
    [] n.kind \in {"agent", "transfer"} -> TRUE

EntryOK(f) == f.entry \in Ids(f) /\ NodeAt(f, f.entry).kind = "agent"

ScenariosOK(f) ==
  /\ \A i \in DOMAIN f.scenarios : f.scenarios[i].to \in Ids(f)
  /\ Distinct([i \in DOMAIN f.scenarios |-> Slug(f.scenarios[i].name)])

TargetsOK(f) ==
  \A i \in DOMAIN f.nodes : \A j \in DOMAIN f.nodes[i].exits :
    f.nodes[i].exits[j].to \in Ids(f) \cup {None}

Valid(f) ==
  /\ FlowShape(f)
  /\ Distinct([i \in DOMAIN f.nodes |-> f.nodes[i].id])
  /\ EntryOK(f) /\ ScenariosOK(f) /\ TargetsOK(f)
  /\ \A i \in DOMAIN f.nodes :
       ObjectivesOK(f.nodes[i]) /\ ConversationOK(f.nodes[i]) /\ ExitsOK(f.nodes[i])

-----------------------------------------------------------------------------
(* pruneFlowForChannel *)

\* No mark, or both, is no restriction.
Allows(marks, ch) == marks = {} \/ ch \in marks

Cut(f, ch) == {f.nodes[i].id : i \in {j \in DOMAIN f.nodes : ~Allows(f.nodes[j].channels, ch)}}

\* The first exit that has a target.
PrimaryExit(n) ==
  LET led == {i \in DOMAIN n.exits : n.exits[i].to # None}
  IN IF led = {} THEN None ELSE n.exits[CHOOSE i \in led : \A j \in led : i <= j].to

\* Mutant: an edge into a cut node moves one node on, whatever is there.
PastCutM(f, ch) ==
  [id \in Ids(f) \cup {None} |-> IF id \in Cut(f, ch) THEN PrimaryExit(NodeAt(f, id)) ELSE id]

\* Where an edge to id leads once the cut nodes are gone: past each of them by its
\* primary exit, and nowhere when they only lead to each other.
PastCut(f, ch) ==
  LET past[seen \in SUBSET Ids(f)] ==
        [id \in Ids(f) \cup {None} |->
           IF id \notin Cut(f, ch) THEN id
           ELSE IF id \in seen THEN None
           ELSE past[seen \cup {id}][PrimaryExit(NodeAt(f, id))]]
  IN past[{}]

\* The elements of xs at the positions P, in order.
At(xs, P) ==
  LET upto[i \in 0 .. Len(xs)] ==
        IF i = 0 THEN <<>>
        ELSE IF i \in P THEN Append(upto[i - 1], xs[i]) ELSE upto[i - 1]
  IN upto[Len(xs)]

\* The edges xs (exits or scenarios), led on by past.
Led(past, xs) == [i \in DOMAIN xs |-> [xs[i] EXCEPT !.to = past[@]]]

\* The nodes that are left, and the scenarios that still lead somewhere.
Kept(f, ch) ==
  LET past  == PastCut(f, ch)
      nodes == At(f.nodes, {i \in DOMAIN f.nodes : f.nodes[i].id \notin Cut(f, ch)})
  IN [i \in DOMAIN nodes |-> [nodes[i] EXCEPT !.exits = Led(past, @)]]
Reachable(f, ch) ==
  LET led == Led(PastCut(f, ch), f.scenarios)
  IN At(led, {i \in DOMAIN led : led[i].to # None})

\* Mutant: scenarios keep pointing at nodes that are gone.
PruneM(f, ch) ==
  IF Cut(f, ch) = {} THEN f
  ELSE [f EXCEPT !.entry = PastCut(f, ch)[@], !.nodes = Kept(f, ch)]

Prune(f, ch) ==
  IF Cut(f, ch) = {} THEN f
  ELSE [f EXCEPT !.entry = PastCut(f, ch)[@], !.nodes = Kept(f, ch),
                 !.scenarios = Reachable(f, ch)]

-----------------------------------------------------------------------------
(* A reference definition and what pruning has to keep *)

\* Where as many primary exits as there are nodes lead from id through cut nodes.
FirstKept(f, ch, id) ==
  LET way[k \in 0 .. Cardinality(Ids(f)) + 1] ==
        IF k = 0 THEN id
        ELSE IF way[k - 1] \in Cut(f, ch) THEN PrimaryExit(NodeAt(f, way[k - 1])) ELSE way[k - 1]
      last == way[Cardinality(Ids(f)) + 1]
  IN IF last \in Cut(f, ch) THEN None ELSE last

\* Every edge of a pruned flow leads to the first node of the channel on its old
\* way, or ends where that way never reaches one (agent-config.ts, pruneFlowForChannel).
LedPast(f, ch) == \A id \in Ids(f) : PastCut(f, ch)[id] = FirstKept(f, ch, id)

\* A flow the schema accepts stays one it accepts: no edge, entry or scenario is
\* left dangling, and no router, wrap-up or objective loses what it needs.  Only
\* an entry that is cut itself may lead to another kind of node, or nowhere.
StaysValid(f, ch) ==
  LET g == Prune(f, ch)
  IN /\ g.entry \in Ids(g) \cup {None}
     /\ f.entry \notin Cut(f, ch) => Valid(g)
     /\ ScenariosOK(g) /\ TargetsOK(g)
=============================================================================
