-------------------------- MODULE AgentVersionsProofs --------------------------
(***************************************************************************)
(* The row of an agent is its newest snapshot and the handlers implement   *)
(* the catalog, for any number of agents, clients and configs.             *)
(*                                                                         *)
(* The inductive invariant says of the tables that exactly the versions up *)
(* to the row's are stored, each once (Tables), and of a handler that has  *)
(* read a row that it counted at most one version ahead of it (Counted)    *)
(* and, unless another handler took that version, that it writes a change  *)
(* of what the row still holds (Edited).  So a handler that the primary    *)
(* key lets through has lost no one's edit.                                *)
(***************************************************************************)
EXTENDS AgentVersions, SequenceTheorems, TLAPS

Row     == [version : Nat, config : Config \cup {NoDraft}, draft : Config \cup {NoDraft},
            deleted : BOOLEAN]
Shot    == [agent : Agent, version : Nat \ {0}, config : Config, restored : Nat]
Pending == [kind : {"bump", "clear", "draft", "delete", "publish"}, agent : Agent,
            x : Config \cup {NoDraft}, version : Nat \ {0}, restored : Nat]

\* Each version up to the row's is stored, once, and no other; the last is the row's.
Tables ==
  /\ \A a \in Agent : \A v \in 1 .. agents[a].version : Stored(a, v)
  /\ \A s, t \in versions : s.agent = t.agent /\ s.version = t.version => s = t
  /\ \A s \in versions : s.version <= agents[s.agent].version
  /\ \A s \in versions : s.version = agents[s.agent].version => s.config = agents[s.agent].config

\* A handler works on an agent that exists and counts from a version it had.
Counted ==
  \A r \in Request : request[r] # Idle =>
    /\ agents[request[r].agent].version > 0
    /\ request[r].version > 1
    /\ request[r].version <= agents[request[r].agent].version + 1

\* What is saved as a draft, in the row or on its way, is a patch.
Drafts ==
  /\ \A a \in Agent : agents[a].draft \in Patch \cup {NoDraft}
  /\ \A r \in Request : request[r] # Idle /\ request[r].kind \in {"draft", "publish"} =>
       request[r].x \in Patch \cup {NoDraft}

\* c is a change of a's row: a patch or an old version on top of its config.
Change(a, c) ==
  \/ \E p \in Patch : c = Merge(p, agents[a].config)
  \/ \E v \in 1 .. agents[a].version : c = Merge(Snapshot(a, v).config, agents[a].config)

\* A handler whose version is still free writes a change of the row.
Edited ==
  \A r \in Request : request[r] # Idle /\ request[r].kind \in {"bump", "clear"} =>
    /\ request[r].x \in Config
    /\ request[r].version = agents[request[r].agent].version + 1
         => Change(request[r].agent, request[r].x)

IInv == TypeOK /\ Tables /\ Counted /\ Drafts /\ Edited

-----------------------------------------------------------------------------
(* Lemmas *)

\* A config is a function from some of the keys to values.
LEMMA ConfigIsFunction ==
  ASSUME NEW c
  PROVE  c \in Config <=>
           /\ c = [k \in DOMAIN c |-> c[k]] /\ DOMAIN c \subseteq Key
           /\ \A k \in DOMAIN c : c[k] \in Value
<1>1. ASSUME c \in Config
      PROVE  /\ c = [k \in DOMAIN c |-> c[k]] /\ DOMAIN c \subseteq Key
             /\ \A k \in DOMAIN c : c[k] \in Value
  <2>1. PICK S \in SUBSET Key : c \in [S -> Value]
    BY <1>1 DEF Config
  <2> QED
    BY <2>1
<1>2. ASSUME c = [k \in DOMAIN c |-> c[k]], DOMAIN c \subseteq Key,
             \A k \in DOMAIN c : c[k] \in Value
      PROVE  c \in Config
  <2>1. c \in [DOMAIN c -> Value]
    BY <1>2
  <2> QED
    BY <1>2, <2>1 DEF Config
<1> QED
  BY <1>1, <1>2

\* A merge of configs is one: its keys and its values come from the two.
LEMMA MergeIsConfig ==
  ASSUME NEW p \in Config, NEW c \in Config
  PROVE  Merge(p, c) \in Config
<1> DEFINE m == Merge(p, c)
<1>1. /\ DOMAIN p \subseteq Key /\ DOMAIN c \subseteq Key
      /\ \A k \in DOMAIN p : p[k] \in Value
      /\ \A k \in DOMAIN c : c[k] \in Value
  BY ConfigIsFunction
<1>2. DOMAIN m = DOMAIN p \cup DOMAIN c
  BY DEF Merge
<1>3. m = [k \in DOMAIN m |-> m[k]]
  BY DEF Merge
<1>4. ASSUME NEW k \in DOMAIN m PROVE m[k] \in Value
  BY <1>1, <1>2 DEF Merge
<1> HIDE DEF m
<1>5. m \in Config
  BY <1>1, <1>2, <1>3, <1>4, ConfigIsFunction
<1> QED
  BY <1>5 DEF m

\* The snapshot of a stored version is the row of that version.
LEMMA SnapshotIsStored ==
  ASSUME TypeOK, Tables, NEW a \in Agent, NEW v \in 1 .. agents[a].version
  PROVE  /\ Snapshot(a, v) \in versions
         /\ Snapshot(a, v).agent = a /\ Snapshot(a, v).version = v
         /\ Snapshot(a, v).config \in Config
         /\ v = agents[a].version => Snapshot(a, v).config = agents[a].config
<1>1. \E s \in versions : s.agent = a /\ s.version = v
  BY DEF Tables, Stored
<1>2. Snapshot(a, v) \in versions /\ Snapshot(a, v).agent = a /\ Snapshot(a, v).version = v
  BY <1>1 DEF Snapshot
<1> QED
  BY <1>2 DEF Tables, TypeOK

\* A row that exists has a config.
LEMMA RowHasConfig ==
  ASSUME TypeOK, Tables, NEW a \in Agent, agents[a].version > 0
  PROVE  agents[a].config \in Config
<1>1. agents[a].version \in 1 .. agents[a].version
  BY DEF TypeOK
<1> QED
  BY <1>1, SnapshotIsStored

\* Steps that leave the tables and the versions of the rows alone.
LEMMA SameTables ==
  ASSUME Tables, versions' = versions,
         \A a \in Agent : agents'[a].version = agents[a].version /\ agents'[a].config = agents[a].config,
         TypeOK
  PROVE  Tables' /\ History' = History
<1>1. Tables'
  BY DEF Tables, Stored, TypeOK
<1>2. \A a \in Agent, v \in Nat : Snapshot(a, v)' = Snapshot(a, v)
  BY DEF Snapshot
<1>3. ASSUME NEW a \in Agent
      PROVE  [v \in 1 .. agents[a].version |-> Snapshot(a, v).config]'
               = [v \in 1 .. agents[a].version |-> Snapshot(a, v).config]
  BY <1>2
<1> QED
  BY <1>1, <1>3 DEF History

\* Steps that store one more version of a row and write its config into the row.
LEMMA GrowsTables ==
  ASSUME TypeOK, TypeOK', Tables, NEW a \in Agent, NEW s \in Shot,
         s.agent = a, s.version = agents[a].version + 1,
         versions' = versions \cup {s},
         agents'[a].version = s.version, agents'[a].config = s.config,
         \A b \in Agent \ {a} : agents'[b] = agents[b]
  PROVE  /\ Tables'
         /\ \A b \in Agent : \A v \in 1 .. agents[b].version :
              Snapshot(b, v)' = Snapshot(b, v)
         /\ Snapshot(a, s.version)' = s
<1> USE DEF Shot
<1>1. \A b \in Agent : agents[b].version \in Nat /\ agents'[b].version \in Nat
  BY DEF TypeOK
<1>2. \A t \in versions : t \in Shot /\ t.version <= agents[t.agent].version
  BY DEF Tables, TypeOK
<1>3. \A t \in versions : ~(t.agent = a /\ t.version = s.version)
  BY <1>1, <1>2
<1>4. \A t, u \in versions' : t.agent = u.agent /\ t.version = u.version => t = u
  BY <1>3 DEF Tables
<1>5. ASSUME NEW b \in Agent, NEW v \in 1 .. agents'[b].version
      PROVE  Stored(b, v)'
  <2>1. CASE b = a /\ v = s.version
    BY <2>1 DEF Stored
  <2>2. CASE ~(b = a /\ v = s.version)
    <3>1. v \in 1 .. agents[b].version
      BY <1>1, <1>5, <2>2
    <3> QED
      BY <3>1 DEF Tables, Stored
  <2> QED
    BY <2>1, <2>2
<1>6. ASSUME NEW t \in versions'
      PROVE  /\ t.version <= agents'[t.agent].version
             /\ t.version = agents'[t.agent].version => t.config = agents'[t.agent].config
  <2>1. CASE t = s
    BY <1>1, <2>1
  <2>2. CASE t \in versions /\ t.agent = a
    BY <1>1, <1>2, <2>2
  <2>3. CASE t \in versions /\ t.agent # a
    <3>1. agents'[t.agent] = agents[t.agent]
      BY <1>2, <2>3
    <3> QED
      BY <3>1, <2>3 DEF Tables
  <2> QED
    BY <2>1, <2>2, <2>3
<1>7. Tables'
  BY <1>4, <1>5, <1>6 DEF Tables
<1>8. ASSUME NEW b \in Agent, NEW v \in 1 .. agents[b].version
      PROVE  Snapshot(b, v)' = Snapshot(b, v)
  <2>1. /\ Snapshot(b, v) \in versions
        /\ Snapshot(b, v).agent = b /\ Snapshot(b, v).version = v
    BY SnapshotIsStored
  <2>2. \E t \in versions' : t.agent = b /\ t.version = v
    BY <2>1
  <2>3. Snapshot(b, v)' \in versions' /\ Snapshot(b, v)'.agent = b /\ Snapshot(b, v)'.version = v
    BY <2>2 DEF Snapshot
  <2> QED
    BY <1>4, <2>1, <2>3
<1>9. Snapshot(a, s.version)' = s
  <2>1. \E t \in versions' : t.agent = a /\ t.version = s.version
    OBVIOUS
  <2>2. /\ Snapshot(a, s.version)' \in versions'
        /\ Snapshot(a, s.version)'.agent = a /\ Snapshot(a, s.version)'.version = s.version
    BY <2>1 DEF Snapshot
  <2> QED
    BY <1>4, <2>2
<1> QED
  BY <1>7, <1>8, <1>9

-----------------------------------------------------------------------------
(* What each step does to the tables: nothing, a new agent, or one more     *)
(* version that is a change of the row.                                     *)

\* A row appears with its first version.
Appears(a) ==
  \E s \in Shot :
    /\ agents[a].version = 0
    /\ s.agent = a /\ s.version = 1 /\ s.config \in Complete
    /\ versions' = versions \cup {s}
    /\ agents' = [agents EXCEPT ![a].version = 1, ![a].config = s.config]

\* A row that exists gets its next version.
Advances(a) ==
  \E s \in Shot : \E d \in {agents[a].draft, NoDraft} :
    /\ agents[a].version > 0
    /\ s.agent = a /\ s.version = agents[a].version + 1 /\ Change(a, s.config)
    /\ versions' = versions \cup {s}
    /\ agents' = [agents EXCEPT ![a].version = s.version, ![a].config = s.config,
                                 ![a].draft = d]

\* A row is changed beside its version and config; the agent exists.
Touches(a) ==
  /\ agents[a].version > 0
  /\ versions' = versions
  /\ \/ \E d \in Patch \cup {NoDraft} : agents' = [agents EXCEPT ![a].draft = d]
     \/ agents' = [agents EXCEPT ![a].deleted = TRUE]

\* A handler of r is let through by the primary key: its version was free, so it
\* counted from the version the row still has.
LEMMA BumpAdvances ==
  ASSUME IInv, NEW r \in Request, request[r] # Idle, Bump(r)
  PROVE  (\E a \in Agent : Advances(a)) \/ UNCHANGED <<agents, versions>>
<1> DEFINE q == request[r]
           a == q.agent
<1>1. /\ q \in Pending /\ a \in Agent /\ q.kind \in {"bump", "clear"}
      /\ agents[a] \in Row /\ agents[a].version \in Nat
  BY DEF IInv, TypeOK, Bump, Pending, Row
<1>2. CASE Stored(a, q.version)
  BY <1>2 DEF Bump
<1>3. CASE ~Stored(a, q.version)
  <2>1. q.version \notin 1 .. agents[a].version
    BY <1>1, <1>3 DEF IInv, Tables
  <2>2. q.version = agents[a].version + 1 /\ agents[a].version > 0
    BY <1>1, <2>1 DEF IInv, Counted, Pending
  <2>3. q.x \in Config /\ Change(a, q.x)
    BY <1>1, <2>2 DEF IInv, Edited
  <2> DEFINE s == [agent |-> a, version |-> q.version, config |-> q.x, restored |-> q.restored]
             d == IF q.kind = "clear" THEN NoDraft ELSE agents[a].draft
  <2>4. s \in Shot
    BY <1>1, <2>3 DEF Shot, Pending
  <2>5. versions' = versions \cup {s}
    BY <1>3 DEF Bump
  <2>6. agents' = [agents EXCEPT ![a].version = q.version, ![a].config = q.x, ![a].draft = d]
    BY <1>1, <1>3 DEF Bump, Row
  <2>7. Advances(a)
    <3>1. s.agent = a /\ s.version = q.version /\ s.config = q.x
      OBVIOUS
    <3>2. d \in {agents[a].draft, NoDraft}
      OBVIOUS
    <3> HIDE DEF s, d
    <3> QED
      BY <2>2, <2>3, <2>4, <2>5, <2>6, <3>1, <3>2 DEF Advances
  <2> QED
    BY <1>1, <2>7
<1> QED
  BY <1>2, <1>3

\* A handler that reads a row writes a change of it or something beside its config.
Reads(r) ==
  \E a \in Agent :
    /\ agents[a].version > 0
    /\ request'[r] \in Pending
    /\ request'[r].agent = a /\ request'[r].version = agents[a].version + 1
    /\ request'[r].kind \in {"bump", "clear"} =>
         request'[r].x \in Config /\ Change(a, request'[r].x)
    /\ request'[r].kind \in {"draft", "publish"} => request'[r].x \in Patch \cup {NoDraft}

\* No handler but r moves, and r starts, goes on or ends.
Handles(r) ==
  /\ request' \in [Request -> {Idle} \cup Pending]
  /\ \A u \in Request \ {r} : request'[u] = request[u]
  /\ request'[r] = Idle \/ Reads(r)

\* Remembering a merge of the row with d, or something beside it.
LEMMA RememberReads ==
  ASSUME IInv, NEW r \in Request, NEW a \in Agent, NEW x \in Config \cup {NoDraft},
         NEW kind \in {"bump", "clear", "draft", "delete", "publish"}, NEW v \in Nat,
         kind \in {"bump", "clear"} => x \in Config /\ Change(a, x),
         kind \in {"draft", "publish"} => x \in Patch \cup {NoDraft},
         Remember(r, a, kind, x, v)
  PROVE  Handles(r) /\ UNCHANGED <<agents, versions>>
<1> DEFINE q == [kind |-> kind, agent |-> a, x |-> x, version |-> agents[a].version + 1,
                 restored |-> v]
<1>1. agents[a].version \in Nat /\ agents[a].version > 0
  BY DEF IInv, TypeOK, Remember, Found
<1>2. q \in Pending
  BY <1>1 DEF Pending
<1>3. /\ request \in [Request -> {Idle} \cup Pending]
      /\ request' = [request EXCEPT ![r] = q]
      /\ UNCHANGED <<agents, versions>>
  BY DEF IInv, TypeOK, Pending, Remember
<1>4. /\ request'[r] = q /\ request' \in [Request -> {Idle} \cup Pending]
      /\ \A u \in Request \ {r} : request'[u] = request[u]
  BY <1>2, <1>3
<1>5. Reads(r)
  BY <1>1, <1>2, <1>4 DEF Reads
<1> QED
  BY <1>3, <1>4, <1>5 DEF Handles

\* Every step but a creation is the step of one handler.
LEMMA HandlerStep ==
  ASSUME IInv, Next
  PROVE  \/ \E a \in Agent : Appears(a) /\ UNCHANGED request
         \/ \E r \in Request : Handles(r) /\ UNCHANGED <<agents, versions>>
         \/ \E r \in Request :
              /\ Handles(r) /\ request'[r] = Idle
              /\ (\E a \in Agent : Advances(a) \/ Touches(a)) \/ UNCHANGED <<agents, versions>>
<1> USE Shape
<1>1. ASSUME NEW a \in Agent, NEW c \in Complete, Create(a, c)
      PROVE  Appears(a) /\ UNCHANGED request
  <2> DEFINE s == [agent |-> a, version |-> 1, config |-> c, restored |-> 0]
  <2>1. s \in Shot
    BY DEF Shot
  <2>2. /\ versions' = versions \cup {s} /\ agents[a].version = 0
        /\ agents' = [agents EXCEPT ![a].version = 1, ![a].config = s.config]
        /\ s.agent = a /\ s.version = 1 /\ s.config = c
    BY <1>1 DEF Create
  <2> HIDE DEF s
  <2> QED
    BY <1>1, <2>1, <2>2 DEF Appears, Create
<1>2. ASSUME NEW r \in Request, request[r] # Idle, request' = [request EXCEPT ![r] = Idle]
      PROVE  Handles(r) /\ request'[r] = Idle
  <2>1. request \in [Request -> {Idle} \cup Pending]
    BY DEF IInv, TypeOK, Pending
  <2> QED
    BY <1>2, <2>1 DEF Handles
<1>3. ASSUME NEW r \in Request, Abandon(r)
      PROVE  Handles(r) /\ UNCHANGED <<agents, versions>>
  BY <1>2, <1>3 DEF Abandon
<1>4. ASSUME NEW r \in Request, Write(r)
      PROVE  /\ Handles(r) /\ request'[r] = Idle
             /\ (\E a \in Agent : Advances(a) \/ Touches(a)) \/ UNCHANGED <<agents, versions>>
  <2>1. request[r] \in Pending /\ agents[request[r].agent].version > 0
    BY <1>4 DEF IInv, TypeOK, Pending, Write, Counted
  <2>2. Handles(r) /\ request'[r] = Idle
    BY <1>2, <1>4 DEF Write
  <2>3. CASE Bump(r)
    BY <1>4, <2>2, <2>3, BumpAdvances DEF Write
  <2>4. CASE /\ request[r].kind = "draft" /\ UNCHANGED versions
             /\ agents' = [agents EXCEPT ![request[r].agent].draft = request[r].x]
    <3>1. request[r].x \in Patch \cup {NoDraft}
      BY <1>4, <2>4 DEF IInv, Drafts, Write
    <3>2. Touches(request[r].agent)
      BY <2>1, <2>4, <3>1 DEF Touches
    <3> QED
      BY <2>1, <2>2, <3>2 DEF Pending
  <2>5. CASE /\ request[r].kind = "delete" /\ UNCHANGED versions
             /\ agents' = [agents EXCEPT ![request[r].agent].deleted = TRUE]
    <3>1. Touches(request[r].agent)
      BY <2>1, <2>5 DEF Touches
    <3> QED
      BY <2>1, <2>2, <3>1 DEF Pending
  <2> QED
    BY <1>4, <2>3, <2>4, <2>5 DEF Write
<1>5. ASSUME NEW r \in Request, PublishReadsAgent(r)
      PROVE  Handles(r) /\ UNCHANGED <<agents, versions>>
  <2> DEFINE a == request[r].agent
             d == request[r].x
             q == [kind |-> "clear", agent |-> a, x |-> Merge(d, agents[a].config),
                   version |-> agents[a].version + 1, restored |-> 0]
  <2>1. request \in [Request -> {Idle} \cup Pending] /\ request[r] \in Pending
    BY <1>5 DEF IInv, TypeOK, Pending, PublishReadsAgent
  <2>2. a \in Agent /\ d \in Patch \cup {NoDraft} /\ agents[a].version \in Nat
    BY <1>5, <2>1 DEF IInv, TypeOK, Drafts, Pending, PublishReadsAgent
  <2>3. /\ UNCHANGED <<agents, versions>>
        /\ \/ request' = [request EXCEPT ![r] = Idle]
           \/ /\ Found(a) /\ d # NoDraft /\ Merge(d, agents[a].config) \in Complete
              /\ request' = [request EXCEPT ![r] = q]
    BY <1>5 DEF PublishReadsAgent
  <2>4. CASE request' = [request EXCEPT ![r] = Idle]
    BY <2>1, <2>3, <2>4 DEF Handles
  <2>5. CASE /\ Found(a) /\ d # NoDraft /\ Merge(d, agents[a].config) \in Complete
             /\ request' = [request EXCEPT ![r] = q]
    <3>1. q \in Pending /\ agents[a].version > 0
      BY <2>2, <2>5 DEF Pending, Found
    <3>2. Change(a, q.x) /\ q.x \in Config
      BY <2>2, <2>5 DEF Change
    <3>3. /\ request'[r] = q /\ request' \in [Request -> {Idle} \cup Pending]
          /\ \A u \in Request \ {r} : request'[u] = request[u]
      BY <2>1, <2>5, <3>1
    <3>4. Reads(r)
      BY <2>2, <3>1, <3>2, <3>3 DEF Reads
    <3> QED
      BY <2>3, <3>3, <3>4 DEF Handles
  <2> QED
    BY <2>3, <2>4, <2>5
<1>6. ASSUME NEW r \in Request, NEW a \in Agent, NEW p \in Patch, Update(r, a, p)
      PROVE  Handles(r) /\ UNCHANGED <<agents, versions>>
  BY <1>6, RememberReads DEF Update, Change
<1>7. ASSUME NEW r \in Request, NEW a \in Agent, NEW p \in Patch, SaveDraft(r, a, p)
      PROVE  Handles(r) /\ UNCHANGED <<agents, versions>>
  BY <1>7, RememberReads DEF SaveDraft
<1>8. ASSUME NEW r \in Request, NEW a \in Agent, NEW v \in 1 .. MaxVersion, Restore(r, a, v)
      PROVE  Handles(r) /\ UNCHANGED <<agents, versions>>
  <2> DEFINE x == Merge(Snapshot(a, v).config, agents[a].config)
  <2>1. x \in Config /\ Remember(r, a, "bump", x, v) /\ Stored(a, v) /\ v \in Nat
    BY <1>8 DEF Restore
  <2>2. v \in 1 .. agents[a].version
    BY <2>1 DEF IInv, Tables, TypeOK, Stored
  <2>3. Change(a, x)
    BY <2>2 DEF Change
  <2> HIDE DEF x
  <2> QED
    BY <2>1, <2>3, RememberReads
<1>9. ASSUME NEW r \in Request, NEW a \in Agent, DiscardDraft(r, a) \/ DeleteAgent(r, a)
      PROVE  Handles(r) /\ UNCHANGED <<agents, versions>>
  BY <1>9, RememberReads DEF DiscardDraft, DeleteAgent
<1>10. ASSUME NEW r \in Request, NEW a \in Agent, PublishReadsDraft(r, a)
       PROVE  Handles(r) /\ UNCHANGED <<agents, versions>>
  <2>1. agents[a].draft \in Patch \cup {NoDraft}
    BY DEF IInv, Drafts
  <2> QED
    BY <1>10, <2>1, RememberReads DEF PublishReadsDraft
<1> QED
  BY <1>1, <1>3, <1>4, <1>5, <1>6, <1>7, <1>8, <1>9, <1>10 DEF Next

-----------------------------------------------------------------------------
(* The invariant is inductive *)

\* What a step may do to the tables.
TablesMove ==
  \/ \E a \in Agent : Appears(a) \/ Advances(a) \/ Touches(a)
  \/ UNCHANGED <<agents, versions>>

\* The rows stay rows: a stored version has the config of a merge or of a creation.
LEMMA RowsTyped ==
  ASSUME IInv, TablesMove
  PROVE  /\ agents' \in [Agent -> Row] /\ versions' \subseteq Shot
         /\ \A a \in Agent : agents'[a].draft \in Patch \cup {NoDraft}
<1> USE Shape
<1>1. /\ agents \in [Agent -> Row] /\ versions \subseteq Shot
      /\ \A a \in Agent : agents[a].draft \in Patch \cup {NoDraft}
  BY DEF IInv, TypeOK, Row, Shot, Drafts
<1>2. ASSUME NEW a \in Agent, Appears(a)
      PROVE  /\ agents' \in [Agent -> Row] /\ versions' \subseteq Shot
             /\ \A b \in Agent : agents'[b].draft \in Patch \cup {NoDraft}
  <2>1. PICK s \in Shot :
          /\ versions' = versions \cup {s}
          /\ agents' = [agents EXCEPT ![a].version = 1, ![a].config = s.config]
    BY <1>2 DEF Appears
  <2>2. s.config \in Config /\ agents[a] \in Row
    BY <1>1 DEF Shot
  <2>3. [agents[a] EXCEPT !.version = 1, !.config = s.config] \in Row
    BY <2>2 DEF Row
  <2>4. agents' = [agents EXCEPT ![a] = [agents[a] EXCEPT !.version = 1, !.config = s.config]]
    BY <2>1
  <2>5. agents' \in [Agent -> Row]
    BY <1>1, <2>3, <2>4
  <2>6. \A b \in Agent : agents'[b].draft = agents[b].draft
    BY <1>1, <2>1 DEF Row
  <2> QED
    BY <1>1, <2>1, <2>5, <2>6
<1>3. ASSUME NEW a \in Agent, Advances(a)
      PROVE  /\ agents' \in [Agent -> Row] /\ versions' \subseteq Shot
             /\ \A b \in Agent : agents'[b].draft \in Patch \cup {NoDraft}
  <2>1. PICK s \in Shot, d \in {agents[a].draft, NoDraft} :
          /\ versions' = versions \cup {s}
          /\ agents' = [agents EXCEPT ![a].version = s.version, ![a].config = s.config,
                                       ![a].draft = d]
    BY <1>3 DEF Advances
  <2>2. /\ s.config \in Config /\ s.version \in Nat /\ agents[a] \in Row
        /\ d \in Patch \cup {NoDraft} /\ d \in Config \cup {NoDraft}
    BY <1>1 DEF Shot
  <2>3. [agents[a] EXCEPT !.version = s.version, !.config = s.config, !.draft = d] \in Row
    BY <2>2 DEF Row
  <2>4. agents' = [agents EXCEPT ![a] =
          [agents[a] EXCEPT !.version = s.version, !.config = s.config, !.draft = d]]
    BY <2>1
  <2>5. agents' \in [Agent -> Row]
    BY <1>1, <2>3, <2>4
  <2>6. \A b \in Agent : agents'[b].draft \in {agents[b].draft, d}
    BY <1>1, <2>1 DEF Row
  <2> QED
    BY <1>1, <2>1, <2>2, <2>5, <2>6
<1>4. ASSUME NEW a \in Agent, Touches(a)
      PROVE  /\ agents' \in [Agent -> Row] /\ versions' \subseteq Shot
             /\ \A b \in Agent : agents'[b].draft \in Patch \cup {NoDraft}
  <2>1. versions' = versions
    BY <1>4 DEF Touches
  <2>2. CASE \E d \in Patch \cup {NoDraft} : agents' = [agents EXCEPT ![a].draft = d]
    <3>1. PICK d \in Patch \cup {NoDraft} : agents' = [agents EXCEPT ![a].draft = d]
      BY <2>2
    <3>2. d \in Config \cup {NoDraft} /\ agents[a] \in Row
      BY <1>1
    <3>3. [agents[a] EXCEPT !.draft = d] \in Row
      BY <3>2 DEF Row
    <3>4. \A b \in Agent : agents'[b].draft \in {agents[b].draft, d}
      BY <1>1, <3>1 DEF Row
    <3> QED
      BY <1>1, <2>1, <3>1, <3>3, <3>4
  <2>3. CASE agents' = [agents EXCEPT ![a].deleted = TRUE]
    BY <1>1, <2>1, <2>3 DEF Row
  <2> QED
    BY <1>4, <2>2, <2>3 DEF Touches
<1>5. CASE UNCHANGED <<agents, versions>>
  BY <1>1, <1>5
<1> QED
  BY <1>2, <1>3, <1>4, <1>5 DEF TablesMove

\* A row keeps its version, and with it the changes that can be made of it, or has a
\* newer one.
RowKept(b) ==
  \/ /\ agents'[b].version = agents[b].version
     /\ \A c : Change(b, c) => Change(b, c)'
  \/ agents'[b].version > agents[b].version

LEMMA TablesMoves ==
  ASSUME IInv, TypeOK', TablesMove
  PROVE  Tables' /\ \A b \in Agent : agents[b].version > 0 => RowKept(b)
<1> USE DEF IInv
<1>1. /\ agents \in [Agent -> Row] /\ agents' \in [Agent -> Row]
      /\ \A b \in Agent : agents[b].version \in Nat /\ agents'[b].version \in Nat
  BY DEF TypeOK, Row
<1>2. ASSUME NEW a \in Agent, NEW s \in Shot,
             s.agent = a, s.version = agents[a].version + 1, versions' = versions \cup {s},
             agents'[a].version = s.version, agents'[a].config = s.config,
             \A b \in Agent \ {a} : agents'[b] = agents[b]
      PROVE  Tables' /\ \A b \in Agent : RowKept(b)
  <2>1. /\ Tables'
        /\ \A b \in Agent : \A v \in 1 .. agents[b].version : Snapshot(b, v)' = Snapshot(b, v)
    BY <1>2, GrowsTables
  <2>2. RowKept(a)
    BY <1>1, <1>2 DEF RowKept
  <2>3. ASSUME NEW b \in Agent \ {a} PROVE RowKept(b)
    BY <1>2, <2>1 DEF RowKept, Change
  <2> QED
    BY <2>1, <2>2, <2>3
<1>3. ASSUME NEW a \in Agent, Appears(a)
      PROVE  Tables' /\ \A b \in Agent : RowKept(b)
  <2>1. PICK s \in Shot :
          /\ agents[a].version = 0
          /\ s.agent = a /\ s.version = 1 /\ s.config \in Complete
          /\ versions' = versions \cup {s}
          /\ agents' = [agents EXCEPT ![a].version = 1, ![a].config = s.config]
    BY <1>3 DEF Appears
  <2>2. /\ agents'[a].version = s.version /\ agents'[a].config = s.config
        /\ \A b \in Agent \ {a} : agents'[b] = agents[b]
        /\ s.version = agents[a].version + 1
    BY <1>1, <2>1 DEF Row
  <2> QED
    BY <1>2, <2>1, <2>2
<1>4. ASSUME NEW a \in Agent, Advances(a)
      PROVE  Tables' /\ \A b \in Agent : RowKept(b)
  <2>1. PICK s \in Shot : \E d \in {agents[a].draft, NoDraft} :
          /\ s.agent = a /\ s.version = agents[a].version + 1
          /\ versions' = versions \cup {s}
          /\ agents' = [agents EXCEPT ![a].version = s.version, ![a].config = s.config,
                                       ![a].draft = d]
    BY <1>4 DEF Advances
  <2>2. /\ agents'[a].version = s.version /\ agents'[a].config = s.config
        /\ \A b \in Agent \ {a} : agents'[b] = agents[b]
    BY <1>1, <2>1 DEF Row
  <2> QED
    BY <1>2, <2>1, <2>2
<1>5. ASSUME versions' = versions,
             \A b \in Agent : /\ agents'[b].version = agents[b].version
                             /\ agents'[b].config = agents[b].config
      PROVE  Tables' /\ \A b \in Agent : RowKept(b)
  <2>1. Tables'
    BY <1>5, SameTables
  <2>2. \A b \in Agent, v \in Nat : Snapshot(b, v)' = Snapshot(b, v)
    BY <1>5 DEF Snapshot
  <2> QED
    BY <1>1, <1>5, <2>1, <2>2 DEF RowKept, Change
<1>6. ASSUME NEW a \in Agent, Touches(a)
      PROVE  Tables' /\ \A b \in Agent : RowKept(b)
  <2>1. /\ versions' = versions
        /\ \A b \in Agent : /\ agents'[b].version = agents[b].version
                            /\ agents'[b].config = agents[b].config
    BY <1>1, <1>6 DEF Touches, Row
  <2> QED
    BY <1>5, <2>1
<1> QED
  BY <1>3, <1>4, <1>5, <1>6 DEF TablesMove

LEMMA InitIInv == Init => IInv
<1> SUFFICES ASSUME Init PROVE IInv
  OBVIOUS
<1>1. \A a \in Agent : agents[a].version = 0 /\ agents[a].draft = NoDraft
  BY DEF Init
<1>2. TypeOK
  BY DEF Init, TypeOK
<1>3. Tables
  BY <1>1 DEF Init, Tables
<1>4. Counted /\ Drafts /\ Edited
  BY <1>1 DEF Init, Counted, Drafts, Edited
<1> QED
  BY <1>2, <1>3, <1>4 DEF IInv

\* A step in which at most one handler moves keeps what is known of all of them.
LEMMA HandlersKept ==
  ASSUME IInv, TypeOK', TablesMove, NEW r \in Request, Handles(r),
         request'[r] = Idle \/ UNCHANGED <<agents, versions>>
  PROVE  Counted' /\ Drafts' /\ Edited'
<1> USE DEF IInv
<1>1. /\ request \in [Request -> {Idle} \cup Pending]
      /\ \A a \in Agent : agents[a].version \in Nat /\ agents'[a].version \in Nat
  BY DEF TypeOK, Pending
<1>2. \A a \in Agent : agents[a].version > 0 => RowKept(a)
  BY TablesMoves
<1>3. ASSUME NEW u \in Request \ {r}, request[u] # Idle
      PROVE  LET q == request[u] a == q.agent IN
             /\ request'[u] = q
             /\ agents'[a].version > 0 /\ q.version > 1 /\ q.version <= agents'[a].version + 1
             /\ q.kind \in {"bump", "clear"} => q.x \in Config
             /\ q.kind \in {"bump", "clear"} /\ q.version = agents'[a].version + 1
                  => Change(a, q.x)'
  <2> DEFINE q == request[u]
             a == q.agent
  <2>1. q \in Pending /\ a \in Agent /\ q.version \in Nat
    BY <1>1, <1>3 DEF Pending
  <2>2. agents[a].version > 0 /\ q.version > 1 /\ q.version <= agents[a].version + 1
    BY <1>3 DEF Counted
  <2>3. /\ q.kind \in {"bump", "clear"} => q.x \in Config
        /\ q.kind \in {"bump", "clear"} /\ q.version = agents[a].version + 1 => Change(a, q.x)
    BY <1>3 DEF Edited
  <2>4. RowKept(a)
    BY <1>2, <2>1, <2>2
  <2>5. request'[u] = q
    BY DEF Handles
  <2>6. CASE agents'[a].version = agents[a].version /\ \A c : Change(a, c) => Change(a, c)'
    <3>1. Change(a, q.x) => Change(a, q.x)'
      <4>1. \A c : Change(a, c) => Change(a, c)'
        BY <2>6
      <4>2. q' = q
        BY <2>5
      <4> QED
        BY <4>1, <4>2 DEF Change
    <3> QED
      BY <2>2, <2>3, <2>5, <2>6, <3>1
  <2>7. CASE agents'[a].version > agents[a].version
    <3>1. /\ agents'[a].version > 0 /\ q.version <= agents'[a].version + 1
          /\ q.version # agents'[a].version + 1
      BY <1>1, <2>1, <2>2, <2>7
    <3> QED
      BY <2>2, <2>3, <2>5, <3>1
  <2> QED
    BY <2>4, <2>6, <2>7 DEF RowKept
<1>4. ASSUME request'[r] # Idle
      PROVE  LET q == request'[r] a == q.agent IN
             /\ agents'[a].version > 0 /\ q.version > 1 /\ q.version <= agents'[a].version + 1
             /\ q.kind \in {"bump", "clear"} =>
                  q.x \in Config /\ (Change(request[r].agent, request[r].x))'
             /\ q.kind \in {"draft", "publish"} => q.x \in Patch \cup {NoDraft}
  <2>1. PICK a \in Agent :
          /\ agents[a].version > 0
          /\ request'[r] \in Pending
          /\ request'[r].agent = a /\ request'[r].version = agents[a].version + 1
          /\ request'[r].kind \in {"bump", "clear"} =>
               request'[r].x \in Config /\ Change(a, request'[r].x)
          /\ request'[r].kind \in {"draft", "publish"} => request'[r].x \in Patch \cup {NoDraft}
    BY <1>4 DEF Handles, Reads
  <2>2. agents' = agents /\ versions' = versions
    BY <1>4
  <2>3. ASSUME NEW x, Change(a, x), a = request'[r].agent, x = request'[r].x
        PROVE  (Change(request[r].agent, request[r].x))'
    BY <2>2, <2>3 DEF Change, Snapshot
  <2> QED
    BY <1>1, <2>1, <2>2, <2>3
<1>5. Counted'
  BY <1>1, <1>3, <1>4 DEF Counted, Handles
<1>6. Edited'
  <2>1. ASSUME NEW u \in Request, request'[u] # Idle, request'[u].kind \in {"bump", "clear"}
        PROVE  /\ request'[u].x \in Config
               /\ request'[u].version = agents'[request'[u].agent].version + 1
                    => (Change(request[u].agent, request[u].x))'
    <3>1. CASE u = r
      BY <1>4, <2>1, <3>1
    <3>2. CASE u # r
      <4>1. request'[u] = request[u] /\ request[u] # Idle
        BY <2>1, <3>2 DEF Handles
      <4> QED
        BY <1>3, <2>1, <3>2, <4>1
    <3> QED
      BY <3>1, <3>2
  <2> QED
    BY <2>1 DEF Edited
<1>7. Drafts'
  <2>1. \A a \in Agent : agents'[a].draft \in Patch \cup {NoDraft}
    BY RowsTyped
  <2>2. ASSUME NEW u \in Request, request'[u] # Idle, request'[u].kind \in {"draft", "publish"}
        PROVE  request'[u].x \in Patch \cup {NoDraft}
    <3>1. CASE u = r
      BY <1>4, <2>2, <3>1
    <3>2. CASE u # r
      <4>1. request'[u] = request[u] /\ request[u] # Idle
        BY <2>2, <3>2 DEF Handles
      <4> QED
        BY <2>2, <4>1 DEF Drafts
    <3> QED
      BY <3>1, <3>2
  <2> QED
    BY <2>1, <2>2 DEF Drafts
<1> QED
  BY <1>5, <1>6, <1>7

\* A new row changes nothing for the handlers: none of them works on it.
LEMMA CreationKept ==
  ASSUME IInv, TypeOK', NEW a \in Agent, Appears(a), UNCHANGED request
  PROVE  Counted' /\ Drafts' /\ Edited'
<1> USE DEF IInv
<1>1. TablesMove
  BY DEF TablesMove
<1>2. /\ request \in [Request -> {Idle} \cup Pending]
      /\ \A b \in Agent : agents[b].version \in Nat /\ agents'[b].version \in Nat
  BY DEF TypeOK, Pending
<1>3. \A b \in Agent : agents[b].version > 0 => agents'[b] = agents[b]
  <2>1. agents \in [Agent -> Row]
    BY DEF TypeOK, Row
  <2>2. PICK s \in Shot : /\ agents[a].version = 0
                         /\ agents' = [agents EXCEPT ![a].version = 1, ![a].config = s.config]
    BY DEF Appears
  <2> QED
    BY <1>2, <2>1, <2>2
<1>4. ASSUME NEW u \in Request, request[u] # Idle
      PROVE  /\ request[u].agent \in Agent /\ agents[request[u].agent].version > 0
             /\ agents'[request[u].agent] = agents[request[u].agent]
  BY <1>2, <1>3, <1>4 DEF Counted, Pending
<1>5. Counted'
  BY <1>4 DEF Counted
<1>6. Drafts'
  BY <1>1, RowsTyped DEF Drafts
<1>7. ASSUME NEW u \in Request, request[u] # Idle, Change(request[u].agent, request[u].x)
      PROVE  (Change(request[u].agent, request[u].x))'
  <2>1. RowKept(request[u].agent)
    BY <1>1, <1>4, <1>7, TablesMoves
  <2>2. \A c : Change(request[u].agent, c) => (Change(request[u].agent, c))'
    BY <1>2, <1>4, <1>7, <2>1 DEF RowKept, Change
  <2> QED
    BY <1>7, <2>2 DEF Change
<1>8. Edited'
  BY <1>4, <1>7 DEF Edited
<1> QED
  BY <1>5, <1>6, <1>8

LEMMA NextIInv == IInv /\ [Next]_vars => IInv'
<1> SUFFICES ASSUME IInv, [Next]_vars PROVE IInv'
  OBVIOUS
<1>1. ASSUME TablesMove, request' \in [Request -> {Idle} \cup Pending] PROVE TypeOK'
  BY <1>1, RowsTyped DEF TypeOK, Row, Shot, Pending
<1>2. request \in [Request -> {Idle} \cup Pending]
  BY DEF IInv, TypeOK, Pending
<1>3. ASSUME NEW a \in Agent, Appears(a), UNCHANGED request PROVE IInv'
  <2>1. TablesMove
    BY <1>3 DEF TablesMove
  <2>2. TypeOK'
    BY <1>1, <1>2, <1>3, <2>1
  <2> QED
    BY <1>3, <2>1, <2>2, TablesMoves, CreationKept DEF IInv
<1>4. ASSUME NEW r \in Request, Handles(r), TablesMove,
             request'[r] = Idle \/ UNCHANGED <<agents, versions>>
      PROVE  IInv'
  <2>1. TypeOK'
    BY <1>1, <1>4 DEF Handles
  <2> QED
    BY <1>4, <2>1, TablesMoves, HandlersKept DEF IInv
<1>5. CASE Next
  <2>1. ASSUME NEW r \in Request, Handles(r), UNCHANGED <<agents, versions>> PROVE IInv'
    BY <1>4, <2>1 DEF TablesMove
  <2>2. ASSUME NEW r \in Request, Handles(r), request'[r] = Idle,
               (\E a \in Agent : Advances(a) \/ Touches(a)) \/ UNCHANGED <<agents, versions>>
        PROVE  IInv'
    <3>1. TablesMove
      BY <2>2 DEF TablesMove
    <3> QED
      BY <1>4, <2>2, <3>1
  <2> QED
    BY <1>3, <1>5, <2>1, <2>2, HandlerStep
<1>6. CASE UNCHANGED vars
  BY <1>6 DEF vars, IInv, TypeOK, Tables, Counted, Drafts, Edited, Stored, Change, Snapshot
<1> QED
  BY <1>5, <1>6

\* The tables and the handlers satisfy the inductive invariant in every state.
THEOREM Invariance == Spec => []IInv
  BY InitIInv, NextIInv, PTL DEF Spec

LEMMA IInvNewest == IInv => RowIsNewest
<1> SUFFICES ASSUME IInv PROVE RowIsNewest
  OBVIOUS
<1> USE DEF IInv
<1>1. ASSUME NEW a \in Agent, agents[a].version > 0
      PROVE  \E s \in versions : /\ s.agent = a /\ s.version = agents[a].version
                                /\ s.config = agents[a].config
  <2>1. agents[a].version \in 1 .. agents[a].version
    BY <1>1 DEF TypeOK
  <2> QED
    BY <2>1, SnapshotIsStored
<1>2. ASSUME NEW s \in versions, s.version > 1
      PROVE  Stored(s.agent, s.version - 1)
  <2>1. /\ s.agent \in Agent /\ s.version \in Nat /\ agents[s.agent].version \in Nat
        /\ s.version <= agents[s.agent].version
    BY DEF TypeOK, Tables
  <2>2. s.version - 1 \in 1 .. agents[s.agent].version
    BY <1>2, <2>1
  <2> QED
    BY <2>1, <2>2 DEF Tables
<1> QED
  BY <1>1, <1>2 DEF RowIsNewest, Tables

\* The version a row names is stored with the row's config, every version has one
\* config and no number is missing, however the handlers of any number of clients
\* interleave (routes/agents.ts, bumpAgentVersion).
THEOREM NewestSafe == Spec => []RowIsNewest
  BY Invariance, IInvNewest, PTL

-----------------------------------------------------------------------------
(* The handlers implement the catalog *)

LEMMA HistoryIsSequence ==
  ASSUME TypeOK, Tables, NEW a \in Agent
  PROVE  /\ History[a] \in Seq(Config) /\ Len(History[a]) = agents[a].version
         /\ \A v \in 1 .. agents[a].version : History[a][v] = Snapshot(a, v).config
<1>1. /\ History[a] = [v \in 1 .. agents[a].version |-> Snapshot(a, v).config]
      /\ agents[a].version \in Nat
  BY DEF History, TypeOK
<1>2. \A v \in 1 .. agents[a].version : Snapshot(a, v).config \in Config
  BY SnapshotIsStored
<1> QED
  BY <1>1, <1>2

\* A version more is an element more, whatever the row was before.
LEMMA GrownHistory ==
  ASSUME TypeOK, TypeOK', Tables, Tables', NEW a \in Agent, NEW s \in Shot,
         s.version = agents[a].version + 1, agents'[a].version = s.version,
         \A b \in Agent \ {a} : agents'[b] = agents[b],
         \A b \in Agent : \A v \in 1 .. agents[b].version : Snapshot(b, v)' = Snapshot(b, v),
         Snapshot(a, s.version)' = s
  PROVE  History' = [History EXCEPT ![a] = Append(@, s.config)]
<1>1. \A b \in Agent : agents[b].version \in Nat /\ agents'[b].version \in Nat
  BY DEF TypeOK
<1>2. History' = [b \in Agent |-> [v \in 1 .. agents'[b].version |-> Snapshot(b, v)'.config]]
  BY DEF History
<1>3. ASSUME NEW b \in Agent \ {a}
      PROVE  [v \in 1 .. agents'[b].version |-> Snapshot(b, v)'.config] = History[b]
  BY <1>1 DEF History
<1>4. [v \in 1 .. agents'[a].version |-> Snapshot(a, v)'.config] = Append(History[a], s.config)
  <2> DEFINE h == [v \in 1 .. agents'[a].version |-> Snapshot(a, v)'.config]
             n == agents[a].version
  <2>1. /\ History[a] \in Seq(Config) /\ Len(History[a]) = n /\ n \in Nat
        /\ s.config \in Config /\ agents'[a].version = n + 1
    BY <1>1, HistoryIsSequence DEF Shot
  <2>2. /\ Append(History[a], s.config) \in Seq(Config)
        /\ Len(Append(History[a], s.config)) = n + 1
        /\ \A v \in 1 .. n : Append(History[a], s.config)[v] = History[a][v]
        /\ Append(History[a], s.config)[n + 1] = s.config
    BY <2>1, AppendProperties
  <2>3. \A v \in 1 .. n : h[v] = History[a][v]
    BY <2>1, HistoryIsSequence
  <2>4. h[n + 1] = s.config
    BY <2>1
  <2>5. \A v \in 1 .. n + 1 : h[v] = Append(History[a], s.config)[v]
    <3>1. \A v \in 1 .. n + 1 : v \in 1 .. n \/ v = n + 1
      BY <2>1
    <3> HIDE DEF h, n
    <3> QED
      BY <2>2, <2>3, <2>4, <3>1
  <2>6. h = [v \in 1 .. n + 1 |-> h[v]]
    BY <2>1
  <2>7. Append(History[a], s.config) = [v \in 1 .. n + 1 |-> Append(History[a], s.config)[v]]
    BY <2>1, <2>2
  <2> HIDE DEF h, n
  <2>8. h = Append(History[a], s.config)
    BY <2>5, <2>6, <2>7
  <2> QED
    BY <2>8 DEF h
<1>5. History = [b \in Agent |-> History[b]]
  BY DEF History
<1> QED
  BY <1>2, <1>3, <1>4, <1>5

\* What has become of the tables is a step of the catalog.
LEMMA TablesSimulate ==
  ASSUME IInv, IInv', TablesMove
  PROVE  [Catalog!Next]_(Catalog!catalog)
<1> USE DEF IInv
<1> DEFINE gone == {a \in Agent : agents[a].deleted}
<1>1. /\ agents \in [Agent -> Row]
      /\ \A a \in Agent : agents[a].version \in Nat
  BY DEF TypeOK, Row
<1>2. ASSUME NEW a \in Agent, NEW s \in Shot,
             s.agent = a, s.version = agents[a].version + 1, versions' = versions \cup {s},
             agents'[a].version = s.version, agents'[a].config = s.config,
             \A b \in Agent \ {a} : agents'[b] = agents[b],
             \A b \in Agent : agents'[b].deleted = agents[b].deleted
      PROVE  History' = [History EXCEPT ![a] = Append(@, s.config)] /\ gone' = gone
  BY <1>2, GrowsTables, GrownHistory
<1>3. ASSUME NEW a \in Agent, Appears(a)
      PROVE  Catalog!Next
  <2>1. PICK s \in Shot :
          /\ agents[a].version = 0
          /\ s.agent = a /\ s.version = 1 /\ s.config \in Complete
          /\ versions' = versions \cup {s}
          /\ agents' = [agents EXCEPT ![a].version = 1, ![a].config = s.config]
    BY <1>3 DEF Appears
  <2>2. /\ agents'[a].version = s.version /\ agents'[a].config = s.config
        /\ \A b \in Agent \ {a} : agents'[b] = agents[b]
        /\ \A b \in Agent : agents'[b].deleted = agents[b].deleted
        /\ s.version = agents[a].version + 1
    BY <1>1, <2>1 DEF Row
  <2>3. History' = [History EXCEPT ![a] = Append(@, s.config)] /\ gone' = gone
    BY <1>2, <2>1, <2>2
  <2>4. History[a] = <<>>
    BY <2>1, HistoryIsSequence
  <2>5. History' = [History EXCEPT ![a] = <<s.config>>]
    BY <2>3, <2>4
  <2>6. Catalog!Create(a, s.config)
    BY <2>3, <2>4, <2>5 DEF Catalog!Create
  <2> QED
    BY <2>1, <2>6 DEF Catalog!Next
<1>4. ASSUME NEW a \in Agent, Advances(a)
      PROVE  Catalog!Next
  <2>1. PICK s \in Shot, d \in {agents[a].draft, NoDraft} :
          /\ agents[a].version > 0
          /\ s.agent = a /\ s.version = agents[a].version + 1 /\ Change(a, s.config)
          /\ versions' = versions \cup {s}
          /\ agents' = [agents EXCEPT ![a].version = s.version, ![a].config = s.config,
                                       ![a].draft = d]
    BY <1>4 DEF Advances
  <2>2. /\ agents'[a].version = s.version /\ agents'[a].config = s.config
        /\ \A b \in Agent \ {a} : agents'[b] = agents[b]
        /\ \A b \in Agent : agents'[b].deleted = agents[b].deleted
    BY <1>1, <2>1 DEF Row
  <2>3. History' = [History EXCEPT ![a] = Append(@, s.config)] /\ gone' = gone
    BY <1>2, <2>1, <2>2
  <2>4. /\ Len(History[a]) = agents[a].version
        /\ \A v \in 1 .. agents[a].version : History[a][v] = Snapshot(a, v).config
    BY HistoryIsSequence
  <2>5. agents[a].version \in 1 .. agents[a].version
    BY <1>1, <2>1
  <2>6. Catalog!Last(a) = agents[a].config
    BY <2>4, <2>5, SnapshotIsStored DEF Catalog!Last
  <2>7. History[a] # <<>>
    BY <2>4, <2>1, <1>1
  <2>8. Catalog!Publish(a, s.config)
    BY <2>3, <2>7 DEF Catalog!Publish
  <2>9. CASE \E p \in Patch : s.config = Merge(p, agents[a].config)
    <3>1. Catalog!Edit(a)
      BY <2>6, <2>8, <2>9 DEF Catalog!Edit
    <3> QED
      BY <3>1 DEF Catalog!Next
  <2>10. CASE \E v \in 1 .. agents[a].version :
                s.config = Merge(Snapshot(a, v).config, agents[a].config)
    <3>1. Catalog!Restore(a)
      BY <2>4, <2>6, <2>8, <2>10 DEF Catalog!Restore
    <3> QED
      BY <3>1 DEF Catalog!Next
  <2> QED
    BY <2>1, <2>9, <2>10 DEF Change
<1>5. ASSUME NEW a \in Agent, Touches(a)
      PROVE  [Catalog!Next]_(Catalog!catalog)
  <2>1. /\ versions' = versions /\ agents[a].version > 0
        /\ \A b \in Agent : /\ agents'[b].version = agents[b].version
                            /\ agents'[b].config = agents[b].config
    BY <1>1, <1>5 DEF Touches, Row
  <2>2. History' = History
    BY <2>1, SameTables
  <2>3. CASE \E d \in Patch \cup {NoDraft} : agents' = [agents EXCEPT ![a].draft = d]
    <3>1. \A b \in Agent : agents'[b].deleted = agents[b].deleted
      BY <1>1, <2>3 DEF Row
    <3>2. gone' = gone
      BY <3>1
    <3> QED
      BY <2>2, <3>2 DEF Catalog!catalog
  <2>4. CASE agents' = [agents EXCEPT ![a].deleted = TRUE]
    <3>1. gone' = gone \cup {a}
      BY <1>1, <2>4 DEF Row
    <3>2. History[a] # <<>>
      BY <1>1, <2>1, HistoryIsSequence
    <3>3. Catalog!Delete(a)
      BY <2>2, <3>1, <3>2 DEF Catalog!Delete
    <3> QED
      BY <3>3 DEF Catalog!Next
  <2> QED
    BY <1>5, <2>3, <2>4 DEF Touches
<1>6. CASE UNCHANGED <<agents, versions>>
  <2>1. History' = History
    BY <1>6, SameTables
  <2>2. gone' = gone
    BY <1>6
  <2> QED
    BY <2>1, <2>2 DEF Catalog!catalog
<1> QED
  BY <1>3, <1>4, <1>5, <1>6 DEF TablesMove

LEMMA InitImplements == Init => Catalog!Init
<1> SUFFICES ASSUME Init PROVE Catalog!Init
  OBVIOUS
<1>1. \A a \in Agent : agents[a].version = 0 /\ agents[a].deleted = FALSE
  BY DEF Init
<1>2. TypeOK /\ Tables
  BY InitIInv DEF IInv
<1>3. \A a \in Agent : History[a] = <<>>
  BY <1>1, <1>2, HistoryIsSequence
<1>4. History = [a \in Agent |-> <<>>]
  BY <1>3 DEF History
<1> QED
  BY <1>1, <1>4 DEF Catalog!Init

LEMMA NextImplements == IInv /\ IInv' /\ [Next]_vars => [Catalog!Next]_(Catalog!catalog)
<1> SUFFICES ASSUME IInv, IInv', [Next]_vars PROVE TablesMove
  BY TablesSimulate
<1>1. CASE Next
  BY <1>1, HandlerStep DEF TablesMove
<1>2. CASE UNCHANGED vars
  BY <1>2 DEF vars, TablesMove
<1> QED
  BY <1>1, <1>2

\* The handlers of routes/agents.ts, each reading a row, waiting and writing in one
\* transaction, implement a catalog in which each version is made of the one before
\* it in one step: no interleaving loses or rewrites a version or an edit.
THEOREM Implements == Spec => ImplementsCatalog
<1>1. Spec => Catalog!Init /\ [][Catalog!Next]_(Catalog!catalog)
  BY InitImplements, NextImplements, Invariance, PTL DEF Spec
<1> QED
  BY <1>1, PTL DEF ImplementsCatalog, Catalog!Spec
=============================================================================
