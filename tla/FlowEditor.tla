------------------------------- MODULE FlowEditor -------------------------------
(* An editor of flows, which the schema may accept or not, for what FlowConfig *)
(* says of every flow.                                                         *)
EXTENDS FlowConfig

VARIABLE flow

\* Leads an edge elsewhere, or marks a node for a channel.
EditFlow ==
  \/ \E i \in DOMAIN flow.nodes : \E j \in DOMAIN flow.nodes[i].exits :
       \E to \in Ids(flow) \cup {None} : flow' = [flow EXCEPT !.nodes[i].exits[j].to = to]
  \/ \E i \in DOMAIN flow.nodes : \E marks \in {{}, {"voice"}, {"text"}} :
       flow' = [flow EXCEPT !.nodes[i].channels = marks]
  \/ \E id \in Ids(flow) : flow' = [flow EXCEPT !.entry = id]
  \/ \E id \in Ids(flow) : flow' = [flow EXCEPT !.scenarios[1].to = id]

\* Pruning any flow the schema accepts leads every edge past the nodes of the other
\* channel, to where walking its primary exits leads.
PruneLeadsPast == Valid(flow) => \A ch \in {"voice", "text"} : LedPast(flow, ch)

\* Pruning keeps a flow one the schema accepts.
PruneStaysValid == Valid(flow) => \A ch \in {"voice", "text"} : StaysValid(flow, ch)
=============================================================================
