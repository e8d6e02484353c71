------------------------------ MODULE AgentCatalog ------------------------------
(***************************************************************************)
(* What the agents API promises its callers (routes/agents.ts): a history  *)
(* of configs per agent that only grows, the last one being what new calls *)
(* get, each one a change of the one before it.  AgentVersions implements  *)
(* it; ConvoRunner pins its versions.                                      *)
(***************************************************************************)
EXTENDS Naturals, Sequences

CONSTANTS
  Agent,
  Config,          \* the configs the schema accepts
  Patch,           \* what an edit or a draft may contain
  Merge(_, _)      \* Merge(p, c): the config c with what p says

VARIABLES
  history,   \* history[a]: the configs of a's versions, <<>> before it is created
  deleted    \* agents that get no new calls

catalog == <<history, deleted>>

Init == history = [a \in Agent |-> <<>>] /\ deleted = {}

Create(a, c) ==
  /\ history[a] = <<>>
  /\ history' = [history EXCEPT ![a] = <<c>>]
  /\ UNCHANGED deleted

Last(a) == history[a][Len(history[a])]

\* The next version; a change already under way outlives a deletion.
Publish(a, c) ==
  /\ history[a] # <<>>
  /\ history' = [history EXCEPT ![a] = Append(@, c)]
  /\ UNCHANGED deleted

Edit(a)    == \E p \in Patch : Publish(a, Merge(p, Last(a)))
Restore(a) == \E v \in 1 .. Len(history[a]) : Publish(a, Merge(history[a][v], Last(a)))

Delete(a) ==
  /\ history[a] # <<>>
  /\ deleted' = deleted \cup {a}
  /\ UNCHANGED history

Next == \E a \in Agent : Edit(a) \/ Restore(a) \/ Delete(a) \/ \E c \in Config : Create(a, c)

Spec == Init /\ [][Next]_catalog
=============================================================================
