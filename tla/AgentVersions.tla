----------------------------- MODULE AgentVersions -----------------------------
(***************************************************************************)
(* The agents API on its two tables (routes/agents.ts): every handler      *)
(* reads the agent's row, waits, and writes what it made of it in one      *)
(* transaction.  Requests of several clients interleave between the two.   *)
(***************************************************************************)
EXTENDS Naturals, FiniteSets

CONSTANTS
  Agent, Request,
  Key, Value,     \* a config is a partial function: optional keys may be absent
  Complete,       \* the configs the schema accepts
  Patch,          \* partial configs a client sends
  NoDraft, Idle,
  MaxVersion

Config == UNION {[S -> Value] : S \in SUBSET Key}

ASSUME Shape ==
  /\ Complete \subseteq Config /\ Patch \subseteq Config /\ NoDraft \notin Config
  /\ MaxVersion \in Nat

VARIABLES
  agents,     \* the table agents; version 0 is no row
  versions,   \* the table agent_versions, with the version a restore named or 0
  request     \* what a handler remembers between its reads and its write

vars == <<agents, versions, request>>

Snapshot(a, v) == CHOOSE s \in versions : s.agent = a /\ s.version = v
Stored(a, v)   == \E s \in versions : s.agent = a /\ s.version = v

Init ==
  /\ agents = [a \in Agent |-> [version |-> 0, config |-> NoDraft, draft |-> NoDraft,
                                deleted |-> FALSE]]
  /\ versions = {}
  /\ request = [r \in Request |-> Idle]

\* { ...config, ...patch }: the patch's keys win, no key is ever removed.
Merge(p, c) == [k \in DOMAIN p \cup DOMAIN c |-> IF k \in DOMAIN p THEN p[k] ELSE c[k]]

\* getAgent finds the row.
Found(a) == agents[a].version > 0 /\ ~agents[a].deleted

\* POST /agents: the row and its first version in one transaction.
Create(a, c) ==
  /\ agents[a].version = 0
  /\ agents' = [agents EXCEPT ![a].version = 1, ![a].config = c]
  /\ versions' = versions \cup {[agent |-> a, version |-> 1, config |-> c, restored |-> 0]}
  /\ UNCHANGED request

\* The handler of r has read a's row and validated the merge; x is what it writes.
Remember(r, a, kind, x, restored) ==
  /\ request[r] = Idle /\ Found(a)
  /\ request' = [request EXCEPT ![r] = [kind |-> kind, agent |-> a, x |-> x,
                                        version |-> agents[a].version + 1,
                                        restored |-> restored]]
  /\ UNCHANGED <<agents, versions>>

Update(r, a, p) ==    \* PATCH
  /\ Found(a) /\ Merge(p, agents[a].config) \in Complete
  /\ Remember(r, a, "bump", Merge(p, agents[a].config), 0)

SaveDraft(r, a, p)  == Remember(r, a, "draft", p, 0)
DiscardDraft(r, a)  == Remember(r, a, "draft", NoDraft, 0)
DeleteAgent(r, a)   == Remember(r, a, "delete", NoDraft, 0)

\* POST .../restore: the old snapshot goes the way of a patch.
Restore(r, a, v) ==
  /\ Found(a) /\ Stored(a, v)
  /\ Merge(Snapshot(a, v).config, agents[a].config) \in Complete
  /\ Remember(r, a, "bump", Merge(Snapshot(a, v).config, agents[a].config), v)

\* POST .../publish reads the draft first, and the row in a second query.
PublishReadsDraft(r, a) == Remember(r, a, "publish", agents[a].draft, 0)

PublishReadsAgent(r) ==
  /\ request[r] # Idle /\ request[r].kind = "publish"
  /\ LET a == request[r].agent
         d == request[r].x
     IN request' = [request EXCEPT ![r] =
          IF ~Found(a) \/ d = NoDraft \/ Merge(d, agents[a].config) \notin Complete
          THEN Idle   \* 404, 409 no_draft, 400
          ELSE [kind |-> "clear", agent |-> a, x |-> Merge(d, agents[a].config),
                version |-> agents[a].version + 1, restored |-> 0]]
  /\ UNCHANGED <<agents, versions>>

\* Mutant: the version is counted in the database when the update runs.
BumpM(r) ==
  LET q == request[r] v == agents[q.agent].version + 1 IN
  /\ q.kind \in {"bump", "clear"}
  /\ agents' = [agents EXCEPT ![q.agent].version = v, ![q.agent].config = q.x,
                            ![q.agent].draft = IF q.kind = "clear" THEN NoDraft ELSE @]
  /\ versions' = versions \cup {[agent |-> q.agent, version |-> v, config |-> q.x,
                                 restored |-> q.restored]}

\* Mutant: no transaction, the row keeps what was refused as a version.
BumpM2(r) ==
  LET q == request[r] IN
  /\ q.kind \in {"bump", "clear"}
  /\ agents' = [agents EXCEPT ![q.agent].version = q.version, ![q.agent].config = q.x,
                            ![q.agent].draft = IF q.kind = "clear" THEN NoDraft ELSE @]
  /\ versions' = IF Stored(q.agent, q.version) THEN versions
                 ELSE versions \cup {[agent |-> q.agent, version |-> q.version,
                                      config |-> q.x, restored |-> q.restored]}

\* bumpAgentVersion's transaction; the primary key of agent_versions lets only the
\* first of two handlers that counted the same version through, and rolls back both
\* statements of the other.
Bump(r) ==
  LET q == request[r] IN
  /\ q.kind \in {"bump", "clear"}
  /\ IF Stored(q.agent, q.version) THEN UNCHANGED <<agents, versions>>
     ELSE /\ agents' = [agents EXCEPT
                         ![q.agent].version = q.version, ![q.agent].config = q.x,
                         ![q.agent].draft = IF q.kind = "clear" THEN NoDraft ELSE @]
          /\ versions' = versions \cup {[agent |-> q.agent, version |-> q.version,
                                         config |-> q.x, restored |-> q.restored]}

\* The last statement of a handler; it does not look at the row again.
Write(r) ==
  /\ request[r] # Idle
  /\ \/ Bump(r)
     \/ /\ request[r].kind = "draft"
        /\ agents' = [agents EXCEPT ![request[r].agent].draft = request[r].x]
        /\ UNCHANGED versions
     \/ /\ request[r].kind = "delete"
        /\ agents' = [agents EXCEPT ![request[r].agent].deleted = TRUE]
        /\ UNCHANGED versions
  /\ request' = [request EXCEPT ![r] = Idle]

\* assertToolsOwned refuses, the gateway restarts or the client hangs up.
Abandon(r) ==
  /\ request[r] # Idle
  /\ request' = [request EXCEPT ![r] = Idle]
  /\ UNCHANGED <<agents, versions>>

Next ==
  \/ \E a \in Agent : \E c \in Complete : Create(a, c)
  \/ \E r \in Request :
       \/ PublishReadsAgent(r) \/ Write(r) \/ Abandon(r)
       \/ \E a \in Agent :
            /\ agents[a].version < MaxVersion   \* bound
            /\ \/ \E p \in Patch : Update(r, a, p) \/ SaveDraft(r, a, p)
               \/ \E v \in 1 .. MaxVersion : Restore(r, a, v)
               \/ DiscardDraft(r, a) \/ DeleteAgent(r, a) \/ PublishReadsDraft(r, a)

Spec == Init /\ [][Next]_vars

-----------------------------------------------------------------------------
(* Properties *)

TypeOK ==
  /\ agents \in [Agent -> [version : Nat, config : Config \cup {NoDraft},
                           draft : Config \cup {NoDraft}, deleted : BOOLEAN]]
  /\ versions \subseteq [agent : Agent, version : Nat \ {0}, config : Config, restored : Nat]
  /\ request \in [Request -> {Idle} \cup
                    [kind : {"bump", "clear", "draft", "delete", "publish"}, agent : Agent,
                     x : Config \cup {NoDraft}, version : Nat \ {0}, restored : Nat]]

\* The row is the newest snapshot, and no version number is missing or used twice:
\* a call that pins a version always finds exactly one config for it.
RowIsNewest ==
  /\ \A a \in Agent : agents[a].version > 0 =>
       \E s \in versions : s.agent = a /\ s.version = agents[a].version /\ s.config = agents[a].config
  /\ \A s, t \in versions : s.agent = t.agent /\ s.version = t.version => s = t
  /\ \A s \in versions : /\ s.version <= agents[s.agent].version
                         /\ s.version > 1 => Stored(s.agent, s.version - 1)

\* The refinement: history is the table agent_versions in order of version.
History == [a \in Agent |-> [v \in 1 .. agents[a].version |-> Snapshot(a, v).config]]
Catalog == INSTANCE AgentCatalog WITH
  Config <- Complete, history <- History, deleted <- {a \in Agent : agents[a].deleted}

\* Whatever the handlers interleave, each version is a change of the one before it,
\* none is lost or rewritten: two edits at once never overwrite each other.
ImplementsCatalog == Catalog!Spec

\* "Restore a prior snapshot: apply its config through the same update path,
\* producing a fresh version + snapshot" (routes/agents.ts:243).
RestoreRestores ==
  \A s \in versions : s.restored > 0 => s.config = Snapshot(s.agent, s.restored).config
=============================================================================
