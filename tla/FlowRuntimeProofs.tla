--------------------------- MODULE FlowRuntimeProofs ---------------------------
(***************************************************************************)
(* Proofs about FlowRuntime, for every flow: what resolveTarget's chain     *)
(* returns, that the guards of transfers and handoffs are up exactly while  *)
(* one is under way, and that a transition which is pending has something   *)
(* on its way or has ended without arriving.                                *)
(***************************************************************************)
EXTENDS FlowRuntime, FiniteSetTheorems, NaturalsInduction, WellFoundedInduction, TLAPS

Where == Node \cup {NoNode}
Move  == [via : Vias, from : Nat, stage : {"run", "router", "idle", "ask"},
          at : Where, hops : 0 .. 5, to : SUBSET Where]

\* What a move may look like at each stage of each kind.
MoveOK(m) ==
  /\ m \in Move
  /\ m.stage \in {"run", "router"} => m.at \in Node
  /\ m.via \in {"cold", "handoff"} => m.stage = "run"
  /\ m.via = "transfer" => m.stage \in {"run", "router"}
  /\ m.via = "transfer" /\ m.stage = "run" => Kind[m.at] = "transfer" /\ Mode[m.at] = "simulated"
  /\ m.via = "handoff" => Kind[m.at] = "handoff"
  /\ m.stage = "router" => Kind[m.at] = "router"
  /\ m.stage = "idle" => m.via = "judge"
  /\ m.stage = "ask" => m.via = "scenario"

BuiltOK(a) ==
  /\ a.node \in Node \cup {Park, Single} /\ a.open \subseteq Nat
  /\ a.node \in Node => a.open \subseteq DOMAIN Exits[a.node]
  /\ a.node \notin Node => a.open = {}

AgentsOK ==
  /\ built \in Seq([node : Node \cup {Park, Single}, open : SUBSET Nat])
  /\ \A i \in 1 .. Len(built) : BuiltOK(built[i])
  /\ agent \in 1 .. Len(built)
  /\ entering \in Seq(Nat)
  /\ \A i \in 1 .. Len(entering) : entering[i] \in 1 .. Len(built)

MovesOK == \A m \in moves : MoveOK(m) /\ m.from \in 1 .. Len(built)

CallOK ==
  /\ inTransfer \in BOOLEAN /\ handingOff \in BOOLEAN /\ completed \in BOOLEAN
  /\ handoffs \in 0 .. MaxHandoffs + 1 /\ tags \subseteq Tag
  /\ handoffs = MaxHandoffs + 1 => completed

\* What no arrival touches.
RestOK ==
  /\ exited \subseteq 1 .. Len(built)
  /\ live \in 0 .. Len(built) /\ armed \in 0 .. Len(built)
  /\ live # 0 => built[live].node # Single
  /\ turns \in 0 .. MaxTurns /\ faults \in 0 .. MaxFaults

Handing == {m \in moves : m.via = "handoff"}

\* One transfer and one handoff at a time, under the guard.
Guarded ==
  /\ ~completed => (inTransfer <=> Transfers # {})
  /\ ~completed => (handingOff <=> Handing # {})
  /\ \A a, b \in Transfers : a = b
  /\ \A a, b \in Handing : a = b

IInv == AgentsOK /\ MovesOK /\ CallOK /\ RestOK /\ Guarded

-----------------------------------------------------------------------------
(* The chain: resolveTarget *)

Ended == {"agent", "speech", "router", "transfer", "handoff", "stop"}

\* A chain that has come to a node is at a node of that kind.
Came(w) ==
  /\ w \in Chain
  /\ w.kind \in Ended => w.at \in Node
  /\ w.kind \in Ended \ {"speech"} => Kind[w.at] = w.kind

LEMMA FirstExitType == \A n \in Node : FirstExit(n) \in Where
<1> SUFFICES ASSUME NEW n \in Node PROVE FirstExit(n) \in Where
  OBVIOUS
<1>1. Exits[n] \in Seq(ExitShape)
  BY Shape
<1>2. CASE Exits[n] = <<>>
  BY <1>2 DEF FirstExit, Where
<1>3. CASE Exits[n] # <<>>
  <2>1. Exits[n][1] \in ExitShape
    BY <1>1, <1>3
  <2> QED BY <2>1, <1>3 DEF FirstExit, Where, ExitShape
<1> QED BY <1>2, <1>3

\* One turn of the loop: where it stands, and that a turn that goes on is one more hop.
LEMMA HopCame ==
  \A w : Came(w) => /\ Came(Hop[w])
                    /\ w.kind # "on" => Hop[w] = w
                    /\ Hop[w].kind = "on" => w.kind = "on" /\ Hop[w].hops = w.hops + 1
<1> SUFFICES ASSUME NEW w, Came(w)
             PROVE  /\ Came(Hop[w])
                    /\ w.kind # "on" => Hop[w] = w
                    /\ Hop[w].kind = "on" => w.kind = "on" /\ Hop[w].hops = w.hops + 1
  OBVIOUS
<1> DEFINE stops(k) == [w EXCEPT !.kind = k]
           leads    == [w EXCEPT !.at = FirstExit(w.at), !.hops = @ + 1]
<1>1. w \in Chain
  BY DEF Came
<1>2. Hop[w] = IF w.kind # "on" THEN w
     ELSE IF w.at = NoNode THEN stops("end")
     ELSE IF Kind[w.at] = "agent" THEN stops("agent")
     ELSE IF w.hops = 5 THEN stops("end")
     ELSE IF Kind[w.at] = "write" THEN [leads EXCEPT !.tags = (@ \cup Adds[w.at]) \ Removes[w.at]]
     ELSE IF Kind[w.at] = "statement" THEN IF leads.at = NoNode THEN stops("speech") ELSE leads
     ELSE IF Kind[w.at] = "router" THEN [stops("router") EXCEPT !.hops = @ + 1]
     ELSE stops(Kind[w.at])
  BY <1>1 DEF Hop
<1>3. CASE w.kind # "on"
  BY <1>2, <1>3
<1>4. CASE w.kind = "on" /\ w.at = NoNode
  BY <1>1, <1>2, <1>4 DEF Came, Chain, Ended
<1>5. CASE w.kind = "on" /\ w.at # NoNode
  <2> DEFINE n == w.at k == Kind[w.at] h == w.hops
  <2>1. /\ n \in Node /\ h \in 0 .. 5 /\ w.tags \subseteq Tag
        /\ k \in {"agent", "router", "statement", "write", "transfer", "handoff", "stop"}
    BY <1>1, <1>5, Shape DEF Chain
  <2>2. FirstExit(n) \in Where
    BY <2>1, FirstExitType
  <2>0. w = [kind |-> "on", at |-> n, hops |-> h, tags |-> w.tags]
    BY <1>1, <1>5 DEF Chain
  <2>l. leads = [kind |-> "on", at |-> FirstExit(n), hops |-> h + 1, tags |-> w.tags]
    <3> DEFINE at == [w EXCEPT !.at = FirstExit(n)]
    <3>1. at = [kind |-> "on", at |-> FirstExit(n), hops |-> h, tags |-> w.tags]
      BY <2>0
    <3>2. leads = [at EXCEPT !.hops = h + 1]
      OBVIOUS
    <3> HIDE DEF at
    <3> QED BY <3>1, <3>2
  <2>s. ASSUME NEW s PROVE stops(s) = [kind |-> s, at |-> n, hops |-> h, tags |-> w.tags]
    BY <2>0
  <2>3. CASE k = "agent"
    BY <1>1, <1>2, <1>5, <2>1, <2>3 DEF Came, Chain, Ended
  <2>4. CASE k # "agent" /\ h = 5
    BY <1>1, <1>2, <1>5, <2>1, <2>4 DEF Came, Chain, Ended
  <2>5. CASE k = "write" /\ h # 5
    <3>1. Hop[w] = [leads EXCEPT !.tags = (@ \cup Adds[n]) \ Removes[n]]
      BY <1>2, <1>5, <2>5
    <3>2. (w.tags \cup Adds[n]) \ Removes[n] \subseteq Tag
      BY <2>1, Shape
    <3>3. h + 1 \in 0 .. 5
      BY <2>1, <2>5
    <3>4. Hop[w] = [kind |-> "on", at |-> FirstExit(n), hops |-> h + 1,
                    tags |-> (w.tags \cup Adds[n]) \ Removes[n]]
      BY <3>1, <1>1, <1>5 DEF Chain
    <3> QED BY <3>2, <3>3, <3>4, <2>2, <1>5 DEF Came, Chain, Ended, Where
  <2>6. CASE k = "statement" /\ h # 5
    <3>1. h + 1 \in 0 .. 5
      BY <2>1, <2>6
    <3>3. CASE FirstExit(n) = NoNode
      BY <1>1, <1>2, <1>5, <2>1, <2>6, <2>l, <3>3 DEF Came, Chain, Ended
    <3>4. CASE FirstExit(n) # NoNode
      <4>1. Hop[w] = leads
        BY <1>2, <1>5, <2>6, <2>l, <3>4
      <4> QED BY <4>1, <3>1, <2>l, <2>1, <2>2, <1>5 DEF Came, Chain, Ended, Where
    <3> QED BY <3>3, <3>4
  <2>7. CASE k = "router" /\ h # 5
    <3>1. h + 1 \in 0 .. 5
      BY <2>1, <2>7
    <3>2. Hop[w] = [kind |-> "router", at |-> n, hops |-> h + 1, tags |-> w.tags]
      <4>1. Hop[w] = [stops("router") EXCEPT !.hops = @ + 1]
        BY <1>2, <1>5, <2>7
      <4>2. stops("router") = [kind |-> "router", at |-> n, hops |-> h, tags |-> w.tags]
        BY <2>s
      <4> HIDE DEF stops
      <4> QED BY <4>1, <4>2
    <3> QED BY <3>1, <3>2, <1>5, <2>1, <2>7 DEF Came, Chain, Ended
  <2>8. CASE k \in {"transfer", "handoff", "stop"} /\ h # 5
    <3>1. Hop[w] = [kind |-> k, at |-> n, hops |-> h, tags |-> w.tags]
      <4>1. Hop[w] = stops(k)
        BY <1>2, <1>5, <2>8
      <4> QED BY <4>1, <2>s
    <3> QED BY <3>1, <1>5, <2>1, <2>8 DEF Came, Chain, Ended
  <2> QED BY <2>1, <2>3, <2>4, <2>5, <2>6, <2>7, <2>8
<1> QED BY <1>3, <1>4, <1>5

\* "The chain is bounded to 5 hops so a misconfigured graph can't wedge a call"
\* (router.ts:30): the sixth turn of the loop is the last, whatever the flow, and
\* the chain ends at a node of the kind it reports.
THEOREM WalkEnds ==
  \A n \in Where, h \in 0 .. 5, tg \in SUBSET Tag :
     Came(Walk(n, h, tg)) /\ Walk(n, h, tg).kind # "on"
<1> SUFFICES ASSUME NEW n \in Where, NEW h \in 0 .. 5, NEW tg \in SUBSET Tag
             PROVE  Came(Walk(n, h, tg)) /\ Walk(n, h, tg).kind # "on"
  OBVIOUS
<1> DEFINE w0 == [kind |-> "on", at |-> n, hops |-> h, tags |-> tg]
           w1 == Hop[w0] w2 == Hop[w1] w3 == Hop[w2] w4 == Hop[w3] w5 == Hop[w4] w6 == Hop[w5]
<1>0. Came(w0) /\ w0.hops = h
  BY DEF Came, Chain, Ended, Where
<1>w. Walk(n, h, tg) = w6
  BY DEF Walk
<1> HIDE DEF w0
<1>1. Came(w1) /\ (w1.kind = "on" => w0.kind = "on" /\ w1.hops = h + 1)
  BY <1>0, HopCame
<1> HIDE DEF w1
<1>2. Came(w2) /\ (w2.kind = "on" => w1.kind = "on" /\ w2.hops = w1.hops + 1)
  BY <1>1, HopCame
<1> HIDE DEF w2
<1>3. Came(w3) /\ (w3.kind = "on" => w2.kind = "on" /\ w3.hops = w2.hops + 1)
  BY <1>2, HopCame
<1> HIDE DEF w3
<1>4. Came(w4) /\ (w4.kind = "on" => w3.kind = "on" /\ w4.hops = w3.hops + 1)
  BY <1>3, HopCame
<1> HIDE DEF w4
<1>5. Came(w5) /\ (w5.kind = "on" => w4.kind = "on" /\ w5.hops = w4.hops + 1)
  BY <1>4, HopCame
<1> HIDE DEF w5
<1>6. Came(w6) /\ (w6.kind = "on" => w5.kind = "on" /\ w6.hops = w5.hops + 1)
  BY <1>5, HopCame
<1> HIDE DEF w6
<1>7. w6.kind # "on"
  <2> SUFFICES ASSUME w6.kind = "on" PROVE FALSE
    OBVIOUS
  <2>1. w6.hops = h + 6
    BY <1>1, <1>2, <1>3, <1>4, <1>5, <1>6
  <2>2. w6.hops \in 0 .. 5
    BY <1>6 DEF Came, Chain
  <2> QED BY <2>1, <2>2
<1> QED BY <1>w, <1>6, <1>7
-----------------------------------------------------------------------------
(* The agents built so far and their exits *)

\* Every set of numbers that is not empty has a least one.
LEMMA LeastIn == \A S \in SUBSET Nat : S # {} => Least(S) \in S
<1> SUFFICES ASSUME NEW S \in SUBSET Nat, S # {} PROVE Least(S) \in S
  OBVIOUS
<1>1. PICK R : IsWellFoundedOn(R, Nat) /\ \A k, j \in Nat : k < j => <<k, j>> \in R
  <2> DEFINE R == OpToRel(<, Nat)
  <2>1. IsWellFoundedOn(R, Nat)
    BY NatLessThanWellFounded
  <2>2. \A k, j \in Nat : k < j => <<k, j>> \in R
    BY DEF OpToRel
  <2> HIDE DEF R
  <2> QED BY <2>1, <2>2
<1>2. IsWellFoundedOn(R, Nat)
  BY <1>1
<1>3. PICK j \in S : \A k \in S : ~ (<<k, j>> \in R)
  BY <1>2, WFMin
<1>4. \A k \in S : ~ (k < j)
  BY <1>1, <1>3
<1>5. \A k \in S : j <= k
  BY <1>4
<1> QED BY <1>5 DEF Least

LEMMA ExitType ==
  \A n \in Node : \A j \in DOMAIN Exits[n] : Exits[n][j] \in ExitShape /\ Exits[n][j].to \in Where
<1> SUFFICES ASSUME NEW n \in Node, NEW j \in DOMAIN Exits[n]
             PROVE  Exits[n][j] \in ExitShape /\ Exits[n][j].to \in Where
  OBVIOUS
<1>1. Exits[n] \in Seq(ExitShape)
  BY Shape
<1>2. Exits[n][j] \in ExitShape
  BY <1>1
<1> QED BY <1>2 DEF ExitShape, Where

\* A new agent has exits of its node only.
LEMMA AgentForOK ==
  \A n \in Node \cup {Park, Single}, tg \in SUBSET Tag :
     /\ AgentFor(n, tg) \in [node : Node \cup {Park, Single}, open : SUBSET Nat]
     /\ BuiltOK(AgentFor(n, tg)) /\ AgentFor(n, tg).node = n
<1> SUFFICES ASSUME NEW n \in Node \cup {Park, Single}, NEW tg \in SUBSET Tag
    PROVE  /\ AgentFor(n, tg) \in [node : Node \cup {Park, Single}, open : SUBSET Nat]
           /\ BuiltOK(AgentFor(n, tg)) /\ AgentFor(n, tg).node = n
  OBVIOUS
<1>1. CASE n \in Node
  <2> DEFINE S == {j \in DOMAIN Exits[n] : Open(Exits[n][j], tg)}
  <2>1. Exits[n] \in Seq(ExitShape)
    BY <1>1, Shape
  <2>2. S \subseteq DOMAIN Exits[n] /\ S \in SUBSET Nat
    BY <2>1
  <2>3. AgentFor(n, tg) = [node |-> n, open |-> S]
    BY <1>1 DEF AgentFor
  <2> HIDE DEF S
  <2> QED BY <1>1, <2>2, <2>3 DEF BuiltOK
<1>2. CASE n \notin Node
  BY <1>2 DEF AgentFor, BuiltOK
<1> QED BY <1>1, <1>2

\* A router leads to its exits only.
LEMMA RoutableType == \A n \in Node : \A tg : Routable(n, tg) \in SUBSET Where
<1> SUFFICES ASSUME NEW n \in Node, NEW tg, NEW t \in Routable(n, tg) PROVE t \in Where
  OBVIOUS
<1>1. PICK j \in DOMAIN Exits[n] : t = Exits[n][j].to
  BY DEF Routable
<1> QED BY <1>1, ExitType

LEMMA PrimaryType == AgentsOK => \A i \in 1 .. Len(built) : Primary(i) \in Where
<1> SUFFICES ASSUME AgentsOK, NEW i \in 1 .. Len(built) PROVE Primary(i) \in Where
  OBVIOUS
<1>1. BuiltOK(built[i])
  BY DEF AgentsOK
<1>2. CASE built[i].open = {}
  BY <1>2 DEF Primary, Where
<1>3. CASE built[i].open # {}
  <2>1. NodeOf(i) \in Node
    BY <1>1, <1>3 DEF BuiltOK, NodeOf
  <2>2. Least(built[i].open) \in DOMAIN Exits[NodeOf(i)]
    BY <1>1, <1>3, <2>1, LeastIn DEF BuiltOK, NodeOf
  <2> QED BY <1>3, <2>1, <2>2, ExitType DEF Primary
<1> QED BY <1>2, <1>3

LEMMA ForwardType ==
  AgentsOK => \A i \in 1 .. Len(built) : NodeOf(i) \in Node => Forward(i) \in Where
<1> SUFFICES ASSUME AgentsOK, NEW i \in 1 .. Len(built), NodeOf(i) \in Node
             PROVE  Forward(i) \in Where
  OBVIOUS
<1>1. Primary(i) \in Where
  BY PrimaryType
<1>2. FirstExit(NodeOf(i)) \in Where
  BY FirstExitType
<1> QED BY <1>1, <1>2 DEF Forward

LEMMA ToolExitsType ==
  AgentsOK => \A i \in 1 .. Len(built) : ToolExits(i) \subseteq Where
<1> SUFFICES ASSUME AgentsOK, NEW i \in 1 .. Len(built), NEW j \in built[i].open
             PROVE  Exits[NodeOf(i)][j].to \in Where
  BY DEF ToolExits
<1>1. BuiltOK(built[i])
  BY DEF AgentsOK
<1>2. NodeOf(i) \in Node /\ j \in DOMAIN Exits[NodeOf(i)]
  BY <1>1 DEF BuiltOK, NodeOf
<1> QED BY <1>2, ExitType

\* The list of agents only grows.
Grows == Len(built') >= Len(built) /\ \A i \in 1 .. Len(built) : built'[i] = built[i]

LEMMA SwapOK ==
  ASSUME AgentsOK, tags' \subseteq Tag, NEW n \in Node \cup {Park, Single}, Swap(n)
  PROVE  /\ AgentsOK' /\ Grows /\ entering' # <<>>
         /\ agent' = Len(built') /\ built'[agent'].node = n
<1> DEFINE a == AgentFor(n, tags')
<1>1. /\ a \in [node : Node \cup {Park, Single}, open : SUBSET Nat]
      /\ BuiltOK(a) /\ a.node = n
  BY AgentForOK
<1>2. /\ built' = Append(built, a) /\ agent' = Len(built) + 1
      /\ entering' = Append(entering, Len(built) + 1)
  BY DEF Swap
<1> HIDE DEF a
<1>3. Len(built) \in Nat /\ Len(built') = Len(built) + 1
  BY <1>1, <1>2 DEF AgentsOK
<1>4. \A i \in 1 .. Len(built) : built'[i] = built[i]
  BY <1>1, <1>2 DEF AgentsOK
<1>5. built'[Len(built) + 1] = a
  BY <1>1, <1>2 DEF AgentsOK
<1>6. built' \in Seq([node : Node \cup {Park, Single}, open : SUBSET Nat])
  BY <1>1, <1>2 DEF AgentsOK
<1>7. \A i \in 1 .. Len(built') : BuiltOK(built'[i])
  <2> SUFFICES ASSUME NEW i \in 1 .. Len(built') PROVE BuiltOK(built'[i])
    OBVIOUS
  <2>1. CASE i \in 1 .. Len(built)
    BY <2>1, <1>4 DEF AgentsOK
  <2>2. CASE i = Len(built) + 1
    BY <2>2, <1>5, <1>1
  <2> QED BY <2>1, <2>2, <1>3
<1>8. entering' \in Seq(Nat) /\ entering' # <<>>
  BY <1>2, <1>3 DEF AgentsOK
<1>9. \A i \in 1 .. Len(entering') : entering'[i] \in 1 .. Len(built')
  <2> SUFFICES ASSUME NEW i \in 1 .. Len(entering') PROVE entering'[i] \in 1 .. Len(built')
    OBVIOUS
  <2>1. entering \in Seq(Nat) /\ Len(entering) \in Nat /\ Len(entering') = Len(entering) + 1
    BY <1>2, <1>3 DEF AgentsOK
  <2>2. CASE i \in 1 .. Len(entering)
    <3>1. entering'[i] = entering[i] /\ entering[i] \in 1 .. Len(built)
      BY <2>1, <2>2, <1>2, <1>3 DEF AgentsOK
    <3> QED BY <3>1, <1>3
  <2>3. CASE i = Len(entering) + 1
    BY <2>1, <2>3, <1>2, <1>3
  <2> QED BY <2>1, <2>2, <2>3
<1>10. agent' \in 1 .. Len(built')
  BY <1>2, <1>3
<1>11. AgentsOK'
  BY <1>6, <1>7, <1>8, <1>9, <1>10 DEF AgentsOK, BuiltOK
<1> QED BY <1>1, <1>2, <1>3, <1>4, <1>5, <1>8, <1>11 DEF Grows
-----------------------------------------------------------------------------
(* Arrivals *)

LEMMA GrowsKeeps ==
  ASSUME AgentsOK, AgentsOK', Grows, NEW m, MoveOK(m), m.from \in 1 .. Len(built)
  PROVE  m.from \in 1 .. Len(built')
BY DEF AgentsOK, Grows

\* However a target that a move was resolved to is acted on, the guards stay true
\* and every move keeps its shape.  rest is the moves without m, if m is one.
LEMMA ArriveSafe ==
  ASSUME AgentsOK, MovesOK, CallOK, Guarded, ~completed,
         NEW m \in Move, m.from \in 1 .. Len(built), m.via \notin {"cold", "handoff"},
         NEW rest \in SUBSET moves, moves \ rest \subseteq {m},
         m.via = "transfer" => m \in moves /\ m \notin rest,
         NEW w, Came(w), NEW r, Arrive(rest, m, w, r)
  PROVE  AgentsOK' /\ MovesOK' /\ CallOK' /\ Guarded' /\ Grows
<1> DEFINE inline == w.kind = "transfer" /\ m.via = "tool" /\ Mode[w.at] = "warm"
           lift   == m.via = "transfer" /\ w.kind # "router"
           swaps  == w.kind \in {"agent", "stop"}
           T0     == {x \in rest : x.via \in {"transfer", "cold"}}
           H0     == {x \in rest : x.via = "handoff"}
<1>1. tags' = w.tags /\ tags' \subseteq Tag
  BY DEF Arrive, Came, Chain
<1>2. inTransfer' = ((inTransfer /\ ~lift)
                     \/ (w.kind = "transfer" /\ ~inline /\ m.via \notin {"transfer", "warm"}))
  <2> DEFINE drops == w.kind = "transfer" /\ m.via \in {"transfer", "warm"}
  <2>1. inTransfer' = ((inTransfer /\ ~lift) \/ (w.kind = "transfer" /\ ~inline /\ ~drops))
    BY DEF Arrive
  <2> QED BY <2>1, Zenon
<1>3. inTransfer' \in BOOLEAN
  BY <1>2, Zenon DEF CallOK
<1>4. m.via # "transfer" => T0 = Transfers
  BY DEF Transfers
<1>5. m.via = "transfer" => T0 = {} /\ inTransfer
  BY DEF Transfers, Guarded
<1>6. H0 = Handing
  BY DEF Handing
<1>7. \A x \in rest : MoveOK(x) /\ x.from \in 1 .. Len(built)
  BY DEF MovesOK
<1>8. /\ \A a, b \in T0 : a = b
      /\ \A a, b \in H0 : a = b
  BY <1>6 DEF Guarded, Transfers
<1>g. UNCHANGED built => Grows
  BY DEF AgentsOK, Grows
<1>a. UNCHANGED agents => AgentsOK' /\ Grows
  BY <1>g DEF AgentsOK, BuiltOK, agents
<1>c. UNCHANGED <<handoffs, handingOff, completed>> => CallOK'
  BY <1>1, <1>3 DEF CallOK
<1> HIDE DEF T0, H0, inline, lift, swaps
\* Nothing joins the moves.
<1>r. ASSUME moves' = rest, AgentsOK', Grows PROVE MovesOK' /\ Transfers' = T0 /\ Handing' = H0
  <2>1. \A x \in moves' : MoveOK(x) /\ x.from \in 1 .. Len(built')
    BY <1>r, <1>7, GrowsKeeps
  <2>2. Transfers' = T0 /\ Handing' = H0
    BY <1>r DEF T0, H0, Transfers, Handing
  <2> QED BY <2>1, <2>2 DEF MovesOK, MoveOK
\* x joins them.
<1>j. ASSUME NEW x, moves' = rest \cup {x}, MoveOK(x), x.from \in 1 .. Len(built), AgentsOK', Grows
      PROVE  /\ MovesOK'
             /\ Transfers' = T0 \cup (IF x.via \in {"transfer", "cold"} THEN {x} ELSE {})
             /\ Handing' = H0 \cup (IF x.via = "handoff" THEN {x} ELSE {})
  <2>1. \A y \in moves' : MoveOK(y) /\ y.from \in 1 .. Len(built')
    BY <1>j, <1>7, GrowsKeeps
  <2>2. /\ Transfers' = T0 \cup (IF x.via \in {"transfer", "cold"} THEN {x} ELSE {})
        /\ Handing' = H0 \cup (IF x.via = "handoff" THEN {x} ELSE {})
    BY <1>j DEF T0, H0, Transfers, Handing
  <2> QED BY <2>1, <2>2 DEF MovesOK, MoveOK
<1>9. CASE w.kind = "router"
  <2> DEFINE tg == Routable(w.at, w.tags)
             x == [m EXCEPT !.stage = "router", !.at = w.at, !.hops = w.hops, !.to = tg]
  <2>1. moves' = rest \cup {x} /\ UNCHANGED <<agents, handoffs, handingOff, goodbye, completed>>
    BY <1>9 DEF Arrive
  <2>2. w.at \in Node /\ w.hops \in 0 .. 5 /\ Kind[w.at] = "router"
    BY <1>9 DEF Came, Chain, Ended
  <2>t. tg \in SUBSET Where
    BY <2>2, RoutableType
  <2> HIDE DEF tg
  <2>3. x = [via |-> m.via, from |-> m.from, stage |-> "router", at |-> w.at, hops |-> w.hops,
             to |-> tg]
    <3> DEFINE y == [m EXCEPT !.stage = "router"]
               z == [y EXCEPT !.at = w.at]
               u == [z EXCEPT !.hops = w.hops]
    <3>1. y = [via |-> m.via, from |-> m.from, stage |-> "router", at |-> m.at, hops |-> m.hops,
               to |-> m.to]
      BY DEF Move
    <3>2. x = [u EXCEPT !.to = tg]
      OBVIOUS
    <3> HIDE DEF y
    <3>3. z = [via |-> m.via, from |-> m.from, stage |-> "router", at |-> w.at, hops |-> m.hops,
               to |-> m.to]
      BY <3>1
    <3> HIDE DEF z
    <3>4. u = [via |-> m.via, from |-> m.from, stage |-> "router", at |-> w.at, hops |-> w.hops,
               to |-> m.to]
      BY <3>3
    <3> HIDE DEF u
    <3> QED BY <3>2, <3>4
  <2> HIDE DEF x
  <2>4. MoveOK(x) /\ x.from \in 1 .. Len(built) /\ x.via = m.via
    BY <2>2, <2>3, <2>t DEF MoveOK, Move, Where
  <2>5. AgentsOK' /\ Grows /\ CallOK'
    BY <2>1, <1>a, <1>c
  <2>6. /\ MovesOK'
        /\ Transfers' = T0 \cup (IF x.via \in {"transfer", "cold"} THEN {x} ELSE {})
        /\ Handing' = H0
    BY <2>1, <2>4, <2>5, <1>j
  <2>7. inTransfer' <=> inTransfer
    BY <1>2, <1>9 DEF lift
  <2>8. Transfers' = {} <=> Transfers = {}
    BY <2>4, <2>6, <1>4, <1>5, <1>9 DEF Guarded
  <2>9. \A a, b \in Transfers' : a = b
    BY <2>4, <2>6, <1>4, <1>5, <1>8
  <2> QED BY <2>1, <2>5, <2>6, <2>7, <2>8, <2>9, <1>6, <1>8 DEF Guarded, Handing
<1>10. CASE swaps
  <2>1. /\ moves' = rest /\ Swap(IF w.kind = "agent" THEN w.at ELSE Park)
        /\ UNCHANGED <<handoffs, handingOff, goodbye, completed>>
    BY <1>10 DEF Arrive, swaps
  <2>2. w.kind = "agent" => w.at \in Node
    BY DEF Came, Ended
  <2>3. AgentsOK' /\ Grows
    BY <2>1, <2>2, <1>1, SwapOK
  <2>4. MovesOK' /\ Transfers' = T0 /\ Handing' = H0
    BY <2>1, <2>3, <1>r
  <2>5. inTransfer' <=> inTransfer /\ m.via # "transfer"
    BY <1>2, <1>10 DEF swaps, lift
  <2>6. Transfers' = {} <=> ~inTransfer'
    BY <2>4, <2>5, <1>4, <1>5 DEF Guarded
  <2> QED BY <2>1, <2>3, <2>4, <2>6, <1>c, <1>6, <1>8 DEF Guarded, Handing
<1>11. CASE w.kind \in {"end", "speech"}
  <2>1. /\ moves' = rest /\ UNCHANGED <<agents, handoffs, handingOff>>
        /\ completed' = completed \/ completed' = TRUE
    BY <1>11 DEF Arrive, HangUp
  <2>2. AgentsOK' /\ Grows /\ CallOK'
    BY <2>1, <1>1, <1>3, <1>a DEF CallOK
  <2>3. MovesOK' /\ Transfers' = T0 /\ Handing' = H0
    BY <2>1, <2>2, <1>r
  <2>5. inTransfer' <=> inTransfer /\ m.via # "transfer"
    BY <1>2, <1>11 DEF lift
  <2>6. Transfers' = {} <=> ~inTransfer'
    BY <2>3, <2>5, <1>4, <1>5 DEF Guarded
  <2> QED BY <2>1, <2>2, <2>3, <2>6, <1>6, <1>8 DEF Guarded, Handing
<1>12. CASE w.kind = "handoff"
  <2>1. StartHandoff(rest, m.from, w.at) /\ UNCHANGED <<agents, goodbye>>
    BY <1>12 DEF Arrive
  <2>2. AgentsOK' /\ Grows
    BY <2>1, <1>a
  <2>3. inTransfer' <=> inTransfer /\ m.via # "transfer"
    BY <1>2, <1>12 DEF lift
  <2>4. T0 = {} <=> ~inTransfer'
    BY <2>3, <1>4, <1>5 DEF Guarded
  <2>5. handingOff' = TRUE
    BY <2>1 DEF StartHandoff
  <2>6. CASE handingOff
    <3>1. moves' = rest /\ UNCHANGED <<handoffs, completed>>
      BY <2>1, <2>6 DEF StartHandoff
    <3>2. MovesOK' /\ Transfers' = T0 /\ Handing' = H0
      BY <3>1, <2>2, <1>r
    <3>3. CallOK'
      BY <3>1, <2>5, <1>1, <1>3 DEF CallOK
    <3> QED BY <3>1, <3>2, <3>3, <2>2, <2>4, <2>5, <2>6, <1>6, <1>8 DEF Guarded, Handing
  <2>7. CASE ~handingOff /\ handoffs = MaxHandoffs
    <3>1. moves' = rest /\ completed' = TRUE /\ handoffs' = handoffs + 1
      BY <2>1, <2>7 DEF StartHandoff, HangUp
    <3>2. MovesOK' /\ Transfers' = T0 /\ Handing' = H0
      BY <3>1, <2>2, <1>r
    <3>3. CallOK'
      BY <3>1, <2>5, <2>7, <1>1, <1>3, Shape DEF CallOK
    <3> QED BY <3>1, <3>2, <3>3, <2>2, <1>8 DEF Guarded, Handing
  <2>8. CASE ~handingOff /\ handoffs # MaxHandoffs
    <3> DEFINE x == [via |-> "handoff", from |-> m.from, stage |-> "run", at |-> w.at, hops |-> 0,
                     to |-> {}]
    <3>1. moves' = rest \cup {x} /\ completed' = completed /\ handoffs' = handoffs + 1
      BY <2>1, <2>8 DEF StartHandoff
    <3>2. MoveOK(x) /\ x.from \in 1 .. Len(built) /\ x.via = "handoff"
      BY <1>12 DEF MoveOK, Move, Where, Came, Ended, Vias
    <3> HIDE DEF x
    <3>3. MovesOK' /\ Transfers' = T0 /\ Handing' = H0 \cup {x}
      BY <3>1, <3>2, <2>2, <1>j
    <3>4. H0 = {}
      BY <2>8, <1>6 DEF Guarded
    <3>5. handoffs' \in 0 .. MaxHandoffs + 1 /\ (handoffs' = MaxHandoffs + 1 => completed')
      BY <3>1, <2>8, Shape DEF CallOK
    <3>6. CallOK'
      BY <3>1, <3>5, <2>5, <1>1, <1>3 DEF CallOK
    <3> QED BY <3>1, <3>3, <3>4, <3>6, <2>2, <2>4, <2>5, <1>8 DEF Guarded, Handing
  <2> QED BY <2>6, <2>7, <2>8
<1>13. CASE w.kind = "transfer"
  <2>1. /\ moves' = IF inline
                    THEN rest \cup {[m EXCEPT !.via = "warm", !.at = w.at, !.stage = "run", !.hops = 0,
                                              !.to = {}]}
                    ELSE IF m.via \in {"transfer", "warm"} \/ inTransfer THEN rest
                    ELSE rest \cup {Transferring(m.from, w.at)}
        /\ UNCHANGED <<agents, handoffs, handingOff, goodbye, completed>>
    BY <1>13 DEF Arrive, inline
  <2>2. AgentsOK' /\ Grows /\ CallOK'
    BY <2>1, <1>a, <1>c
  <2>3. w.at \in Node /\ Kind[w.at] = "transfer"
    BY <1>13 DEF Came, Ended
  <2>4. CASE inline
    <3> DEFINE x == [m EXCEPT !.via = "warm", !.at = w.at, !.stage = "run", !.hops = 0, !.to = {}]
    <3>1. x = [via |-> "warm", from |-> m.from, stage |-> "run", at |-> w.at, hops |-> 0, to |-> {}]
      <4> DEFINE y == [m EXCEPT !.via = "warm"]
                 z == [y EXCEPT !.at = w.at]
                 u == [z EXCEPT !.stage = "run"]
                 v == [u EXCEPT !.hops = 0]
      <4>1. y = [via |-> "warm", from |-> m.from, stage |-> m.stage, at |-> m.at, hops |-> m.hops,
                 to |-> m.to]
        BY DEF Move
      <4>2. x = [v EXCEPT !.to = {}]
        OBVIOUS
      <4> HIDE DEF y
      <4>3. z = [via |-> "warm", from |-> m.from, stage |-> m.stage, at |-> w.at, hops |-> m.hops,
                 to |-> m.to]
        BY <4>1
      <4> HIDE DEF z
      <4>4. u = [via |-> "warm", from |-> m.from, stage |-> "run", at |-> w.at, hops |-> m.hops,
                 to |-> m.to]
        BY <4>3
      <4> HIDE DEF u
      <4>5. v = [via |-> "warm", from |-> m.from, stage |-> "run", at |-> w.at, hops |-> 0,
                 to |-> m.to]
        BY <4>4
      <4> HIDE DEF v
      <4>6. \A e : [v EXCEPT !.to = e] = [via |-> "warm", from |-> m.from, stage |-> "run",
                                          at |-> w.at, hops |-> 0, to |-> e]
        BY <4>5
      <4> QED BY <4>2, <4>6
    <3>2. moves' = rest \cup {x}
      BY <2>1, <2>4
    <3> HIDE DEF x
    <3>3. MoveOK(x) /\ x.from \in 1 .. Len(built) /\ x.via = "warm"
      BY <3>1, <2>3 DEF MoveOK, Move, Where, Vias
    <3>4. MovesOK' /\ Transfers' = T0 /\ Handing' = H0
      BY <3>2, <3>3, <2>2, <1>j
    <3>5. m.via # "transfer" /\ (inTransfer' <=> inTransfer)
      BY <2>4, <1>2 DEF inline, lift
    <3> QED BY <3>4, <3>5, <2>1, <2>2, <1>4, <1>6 DEF Guarded, Handing
  <2>5. CASE ~inline /\ (m.via \in {"transfer", "warm"} \/ inTransfer)
    <3>1. moves' = rest
      BY <2>1, <2>5
    <3>2. MovesOK' /\ Transfers' = T0 /\ Handing' = H0
      BY <3>1, <2>2, <1>r
    <3>3. m.via = "transfer" => ~inTransfer'
      BY <1>2, <1>13 DEF lift
    <3>4. m.via # "transfer" => (inTransfer' <=> inTransfer)
      BY <1>2, <2>5 DEF lift
    <3>5. Transfers' = {} <=> ~inTransfer'
      BY <3>2, <3>3, <3>4, <1>4, <1>5 DEF Guarded
    <3> QED BY <3>2, <3>5, <2>1, <2>2, <1>6, <1>8 DEF Guarded, Handing
  <2>6. CASE ~inline /\ m.via \notin {"transfer", "warm"} /\ ~inTransfer
    <3> DEFINE x == Transferring(m.from, w.at)
    <3>1. moves' = rest \cup {x}
      BY <2>1, <2>6
    <3>2. Mode[w.at] \in {"simulated", "warm", "cold"}
      BY <2>3, Shape
    <3>3. MoveOK(x) /\ x.from \in 1 .. Len(built) /\ x.via \in {"transfer", "cold"}
      BY <3>2, <2>3 DEF Transferring, MoveOK, Move, Where, Vias
    <3> HIDE DEF x
    <3>4. MovesOK' /\ Transfers' = T0 \cup {x} /\ Handing' = H0
      BY <3>1, <3>3, <2>2, <1>j
    <3>5. inTransfer' = TRUE
      BY <1>2, <1>13, <2>6
    <3>6. T0 = {}
      BY <2>6, <1>4 DEF Guarded
    <3> QED BY <3>4, <3>5, <3>6, <2>1, <2>2, <1>6, <1>8 DEF Guarded, Handing
  <2> QED BY <2>4, <2>5, <2>6
<1>14. w.kind # "on"
  BY DEF Arrive
<1> QED BY <1>9, <1>10, <1>11, <1>12, <1>13, <1>14 DEF Came, Chain, swaps
LEMMA GoSafe ==
  ASSUME IInv, ~completed, NEW m \in moves, m.via \notin {"cold", "handoff"},
         NEW to \in Where, Go(m, to)
  PROVE  AgentsOK' /\ MovesOK' /\ CallOK' /\ Guarded' /\ Grows
<1> DEFINE w == Walk(to, m.hops, tags)
<1>1. MoveOK(m) /\ m.from \in 1 .. Len(built)
  BY DEF IInv, MovesOK
<1>2. Came(w)
  BY <1>1, WalkEnds DEF IInv, CallOK, MoveOK, Move
<1>3. Arrive(moves \ {m}, m, w, FALSE)
  BY DEF Go
<1> HIDE DEF w
<1> QED BY <1>1, <1>2, <1>3, ArriveSafe DEF IInv, MoveOK

\* The same for a move that starts with this step.
LEMMA StartSafe ==
  ASSUME IInv, ~completed, NEW via \in {"tool", "auto"}, NEW to \in Where,
         Arrive(moves, NewMove(via, "run"), Walk(to, 0, tags), TRUE)
  PROVE  AgentsOK' /\ MovesOK' /\ CallOK' /\ Guarded' /\ Grows
<1> DEFINE w == Walk(to, 0, tags)
           m == NewMove(via, "run")
<1>1. m \in Move /\ m.from \in 1 .. Len(built) /\ m.via = via
  BY DEF NewMove, Move, Where, Vias, IInv, AgentsOK
<1>2. Came(w)
  BY WalkEnds DEF IInv, CallOK
<1>3. Arrive(moves, m, w, TRUE)
  OBVIOUS
<1> HIDE DEF w, m
<1> QED BY <1>1, <1>2, <1>3, ArriveSafe DEF IInv

-----------------------------------------------------------------------------
(* The inductive invariant *)

\* A step that touches neither the agents nor the moves, except perhaps to end the call.
LEMMA StillSafe ==
  ASSUME IInv, UNCHANGED <<agents, moves, inTransfer, handoffs, handingOff, tags>>,
         completed' = completed \/ completed' = TRUE
  PROVE  AgentsOK' /\ MovesOK' /\ CallOK' /\ Guarded' /\ Grows
<1>1. AgentsOK' /\ Grows
  BY DEF IInv, AgentsOK, BuiltOK, agents, Grows
<1>2. MovesOK'
  BY DEF IInv, MovesOK, MoveOK, agents
<1>3. CallOK'
  BY DEF IInv, CallOK
<1>4. Guarded'
  BY DEF IInv, Guarded, Transfers, Handing
<1> QED BY <1>1, <1>2, <1>3, <1>4

LEMMA RestKeeps ==
  ASSUME IInv, AgentsOK', Grows, exited' \subseteq exited \cup {agent}, live' = live,
         armed' \in {0, armed}, turns' \in 0 .. MaxTurns, faults' \in 0 .. MaxFaults
  PROVE  RestOK'
<1>1. Len(built) \in Nat /\ Len(built') \in Nat /\ Len(built') >= Len(built)
  BY DEF IInv, AgentsOK, Grows
<1>2. exited' \subseteq 1 .. Len(built')
  BY <1>1 DEF IInv, RestOK, AgentsOK
<1>3. live' \in 0 .. Len(built') /\ armed' \in 0 .. Len(built')
  BY <1>1 DEF IInv, RestOK
<1>4. live' # 0 => built'[live'].node # Single
  BY <1>1 DEF IInv, RestOK, Grows
<1> QED BY <1>2, <1>3, <1>4 DEF RestOK

LEMMA InitInv == Init => IInv
<1> SUFFICES ASSUME Init PROVE IInv
  OBVIOUS
<1> DEFINE a == AgentFor(Entry, {})
<1>1. a \in [node : Node \cup {Park, Single}, open : SUBSET Nat] /\ BuiltOK(a) /\ a.node = Entry
  BY AgentForOK, Shape
<1>2. built = <<a>> /\ agent = 1 /\ entering = <<1>>
  BY DEF Init
<1> HIDE DEF a
<1>3. AgentsOK
  BY <1>1, <1>2 DEF AgentsOK
<1>4. MovesOK /\ CallOK /\ Guarded
  <2>1. moves = {} /\ handoffs = 0 /\ tags = {} /\ ~completed /\ ~inTransfer /\ ~handingOff
    BY DEF Init
  <2>2. inTransfer \in BOOLEAN /\ handingOff \in BOOLEAN /\ completed \in BOOLEAN
    BY DEF Init
  <2>3. handoffs \in 0 .. MaxHandoffs + 1 /\ handoffs # MaxHandoffs + 1
    BY <2>1, Shape
  <2>4. MovesOK /\ Guarded
    BY <2>1 DEF MovesOK, Guarded, Transfers, Handing
  <2> QED BY <2>1, <2>2, <2>3, <2>4 DEF CallOK
<1>5. RestOK
  BY <1>2, Shape DEF Init, RestOK
<1> QED BY <1>3, <1>4, <1>5 DEF IInv

LEMMA EnterInv == IInv /\ Enter => IInv'
<1> SUFFICES ASSUME IInv, Enter PROVE IInv'
  OBVIOUS
<1> DEFINE i == Head(entering)
<1>1. i \in 1 .. Len(built) /\ i = entering[1] /\ entering' = Tail(entering) /\ entering # <<>>
  BY DEF Enter, IInv, AgentsOK
<1>2. UNCHANGED <<built, exited, agent, moves, inTransfer, handoffs, handingOff, tags, completed,
                  turns, faults>>
  BY DEF Enter
<1>3. \/ UNCHANGED <<live, armed>>
      \/ live' = i /\ armed' \in {0, i} /\ built[i].node # Single
  BY DEF Enter, NodeOf
<1> HIDE DEF i
<1>4. AgentsOK'
  <2>1. entering' \in Seq(Nat)
    BY <1>1 DEF IInv, AgentsOK
  <2>2. \A j \in 1 .. Len(entering') : entering'[j] \in 1 .. Len(built)
    BY <1>1 DEF IInv, AgentsOK
  <2> QED BY <2>1, <2>2, <1>2 DEF IInv, AgentsOK, BuiltOK
<1>5. MovesOK' /\ CallOK' /\ Guarded'
  BY <1>2 DEF IInv, MovesOK, MoveOK, CallOK, Guarded, Transfers, Handing
<1>6. RestOK'
  BY <1>1, <1>2, <1>3 DEF IInv, RestOK, AgentsOK
<1> QED BY <1>4, <1>5, <1>6 DEF IInv

\* TimePasses, UserTurn, Goodbye, CallEnds and ParkTimeout.
LEMMA CallInv == IInv /\ (TimePasses \/ UserTurn \/ Goodbye \/ CallEnds \/ ParkTimeout) => IInv'
<1> SUFFICES ASSUME IInv, TimePasses \/ UserTurn \/ Goodbye \/ CallEnds \/ ParkTimeout PROVE IInv'
  OBVIOUS
<1>1. /\ UNCHANGED <<agents, moves, inTransfer, handoffs, handingOff, tags, exited, live, armed, faults>>
      /\ completed' = completed \/ completed' = TRUE
  BY DEF TimePasses, UserTurn, Goodbye, CallEnds, ParkTimeout, HangUp, flags
<1>2. turns' \in 0 .. MaxTurns
  BY Shape DEF TimePasses, UserTurn, Goodbye, CallEnds, ParkTimeout, IInv, RestOK
<1>3. AgentsOK' /\ MovesOK' /\ CallOK' /\ Guarded' /\ Grows
  BY <1>1, StillSafe
<1>4. RestOK'
  BY <1>1, <1>2, <1>3, RestKeeps DEF IInv, RestOK
<1> QED BY <1>3, <1>4 DEF IInv

LEMMA TakeExitInv == IInv /\ (\E to \in Node \cup {NoNode} : TakeExit(to)) => IInv'
<1> SUFFICES ASSUME IInv, NEW to \in Node \cup {NoNode}, TakeExit(to) PROVE IInv'
  OBVIOUS
<1>1. to \in Where /\ ~completed
  BY DEF TakeExit, Speaking, Where
<1>2. Arrive(moves, NewMove("tool", "run"), Walk(to, 0, tags), TRUE)
  BY DEF TakeExit
<1>3. AgentsOK' /\ MovesOK' /\ CallOK' /\ Guarded' /\ Grows
  BY <1>1, <1>2, StartSafe
<1>4. /\ exited' = exited \cup {agent}
      /\ UNCHANGED <<live, armed, turns, faults>>
  BY DEF TakeExit
<1>5. RestOK'
  BY <1>3, <1>4, RestKeeps DEF IInv, RestOK
<1> QED BY <1>3, <1>5 DEF IInv

LEMMA EndCallInv == IInv /\ EndCall => IInv'
<1> SUFFICES ASSUME IInv, EndCall PROVE IInv'
  OBVIOUS
<1>1. UNCHANGED <<exited, live, armed, turns, faults>> /\ ~completed
  BY DEF EndCall, Speaking
<1>2. CASE UNCHANGED <<agents, moves, inTransfer, handoffs, handingOff, tags, completed>>
  <2>1. AgentsOK' /\ MovesOK' /\ CallOK' /\ Guarded' /\ Grows
    BY <1>2, StillSafe
  <2>2. RestOK'
    BY <1>1, <2>1, RestKeeps DEF IInv, RestOK
  <2> QED BY <2>1, <2>2 DEF IInv
<1>3. CASE CanAdvance /\ Arrive(moves, NewMove("auto", "run"), Walk(Forward(live), 0, tags), TRUE)
  <2>1. live \in 1 .. Len(built) /\ NodeOf(live) # Park /\ NodeOf(live) # Single
    BY <1>3 DEF CanAdvance, IInv, RestOK, NodeOf, AgentsOK
  <2>2. NodeOf(live) \in Node
    BY <2>1 DEF IInv, AgentsOK, BuiltOK, NodeOf
  <2>3. Forward(live) \in Where
    BY <2>1, <2>2, ForwardType DEF IInv
  <2>4. AgentsOK' /\ MovesOK' /\ CallOK' /\ Guarded' /\ Grows
    BY <1>1, <1>3, <2>3, StartSafe
  <2>5. RestOK'
    BY <1>1, <2>4, RestKeeps DEF IInv, RestOK
  <2> QED BY <2>4, <2>5 DEF IInv
<1> QED BY <1>2, <1>3 DEF EndCall

\* The judge's and the parked contact's moves begin without a node.
LEMMA BeginsInv == IInv /\ (JudgeCommits \/ ParkedTurn) => IInv'
<1> SUFFICES ASSUME IInv, JudgeCommits \/ ParkedTurn PROVE IInv'
  OBVIOUS
<1>1. PICK x : /\ moves' = moves \cup {x} /\ MoveOK(x) /\ x.from \in 1 .. Len(built)
               /\ x.via \in {"judge", "scenario"}
  <2>1. CASE JudgeCommits
    <3> DEFINE x == [NewMove("judge", "idle") EXCEPT !.from = armed]
    <3>1. moves' = moves \cup {x} /\ armed \in 1 .. Len(built)
      BY <2>1 DEF JudgeCommits, IInv, RestOK, AgentsOK
    <3>2. x = [via |-> "judge", from |-> armed, stage |-> "idle", at |-> NoNode, hops |-> 0,
               to |-> {}]
      BY DEF NewMove
    <3> HIDE DEF x
    <3>3. MoveOK(x) /\ x.from \in 1 .. Len(built) /\ x.via = "judge"
      BY <3>1, <3>2 DEF MoveOK, Move, Where, Vias
    <3> QED BY <3>1, <3>3
  <2>2. CASE ParkedTurn
    <3> DEFINE x == NewMove("scenario", "ask")
    <3>1. moves' = moves \cup {x} /\ agent \in 1 .. Len(built)
      BY <2>2 DEF ParkedTurn, IInv, AgentsOK
    <3>2. MoveOK(x) /\ x.from \in 1 .. Len(built) /\ x.via = "scenario"
      BY <3>1 DEF NewMove, MoveOK, Move, Where, Vias
    <3> HIDE DEF x
    <3> QED BY <3>1, <3>2
  <2> QED BY <2>1, <2>2
<1>2. /\ UNCHANGED <<agents, exited, live, armed, inTransfer, handoffs, handingOff, tags, completed, faults>>
      /\ turns' \in 0 .. MaxTurns
  BY Shape DEF JudgeCommits, ParkedTurn, IInv, RestOK
<1>3. AgentsOK' /\ Grows
  BY <1>2 DEF IInv, AgentsOK, BuiltOK, agents, Grows
<1>4. \A m \in moves' : MoveOK(m) /\ m.from \in 1 .. Len(built')
  BY <1>1, <1>2 DEF IInv, MovesOK, agents
<1>5. MovesOK'
  BY <1>4 DEF MovesOK, MoveOK
<1>6. Transfers' = Transfers /\ Handing' = Handing
  BY <1>1 DEF Transfers, Handing
<1>7. CallOK' /\ Guarded'
  BY <1>2, <1>6 DEF IInv, CallOK, Guarded, Handing
<1>8. RestOK'
  BY <1>2, <1>3, RestKeeps DEF IInv, RestOK
<1> QED BY <1>3, <1>5, <1>7, <1>8 DEF IInv

\* A move that ends without arriving anywhere.
LEMMA DropSafe ==
  ASSUME IInv, NEW m \in moves, moves' = moves \ {m}, UNCHANGED <<agents, handoffs, tags>>,
         completed' = completed \/ completed' = TRUE,
         handingOff' \in BOOLEAN, inTransfer' \in BOOLEAN,
         ~completed' => /\ m.via = "handoff" \/ handingOff' = handingOff
                        /\ m.via = "handoff" => handingOff' = FALSE
                        /\ m.via \in {"transfer", "cold"} \/ inTransfer' = inTransfer
                        /\ m.via \in {"transfer", "cold"} => inTransfer' = FALSE
  PROVE  AgentsOK' /\ MovesOK' /\ CallOK' /\ Guarded' /\ Grows
<1>1. AgentsOK' /\ Grows
  BY DEF IInv, AgentsOK, BuiltOK, agents, Grows
<1>2. MovesOK'
  BY DEF IInv, MovesOK, MoveOK, agents
<1>3. CallOK'
  BY DEF IInv, CallOK
<1>4. Transfers' = Transfers \ {m} /\ Handing' = Handing \ {m}
  BY DEF Transfers, Handing
<1>5. m.via \in {"transfer", "cold"} => Transfers \ {m} = {}
  BY DEF IInv, Guarded, Transfers
<1>6. m.via = "handoff" => Handing \ {m} = {}
  BY DEF IInv, Guarded, Handing
<1>7. m.via \notin {"transfer", "cold"} => Transfers \ {m} = Transfers
  BY DEF Transfers
<1>8. m.via # "handoff" => Handing \ {m} = Handing
  BY DEF Handing
<1>9. Guarded'
  BY <1>4, <1>5, <1>6, <1>7, <1>8 DEF IInv, Guarded, Handing
<1> QED BY <1>1, <1>2, <1>3, <1>9
LEMMA MoveInv == IInv /\ MoveStep => IInv'
<1> SUFFICES ASSUME IInv, ~completed, NEW m \in moves,
                    \/ RouterAnswers(m) \/ JudgeResumes(m) \/ ScenarioAnswers(m)
                    \/ TransferDone(m) \/ ColdDone(m) \/ WarmDone(m) \/ HandoffDone(m)
             PROVE  IInv'
  BY DEF MoveStep
<1>1. MoveOK(m) /\ m.from \in 1 .. Len(built)
  BY DEF IInv, MovesOK
<1>2. m.stage \in {"router", "idle", "ask"} => m.via \notin {"cold", "handoff"}
  BY <1>1 DEF MoveOK
<1>3. /\ UNCHANGED <<exited, live, turns>> /\ armed' \in {0, armed}
      /\ faults' \in 0 .. MaxFaults
  <2>1. faults' = faults \/ (faults < MaxFaults /\ faults' = faults + 1)
    BY DEF RouterAnswers, JudgeResumes, ScenarioAnswers, TransferDone, ColdDone, WarmDone,
           HandoffDone, Fault
  <2>2. UNCHANGED <<exited, live, turns>> /\ armed' \in {0, armed}
    BY DEF RouterAnswers, JudgeResumes, ScenarioAnswers, TransferDone, ColdDone, WarmDone,
           HandoffDone
  <2> QED BY <2>1, <2>2, Shape DEF IInv, RestOK
<1>4. inTransfer \in BOOLEAN /\ handingOff \in BOOLEAN
  BY DEF IInv, CallOK
<1>s. SUFFICES AgentsOK' /\ MovesOK' /\ CallOK' /\ Guarded' /\ Grows
  <2>1. RestOK'
    BY <1>3, <1>s, RestKeeps DEF IInv, RestOK
  <2> QED BY <1>s, <2>1 DEF IInv
<1>5. CASE RouterAnswers(m)
  <2>1. PICK n \in m.to : Go(m, n)
    BY <1>5 DEF RouterAnswers
  <2>2. m.stage = "router" /\ n \in Where
    BY <1>1, <1>5, <2>1 DEF RouterAnswers, MoveOK, Move
  <2> QED BY <2>1, <2>2, <1>2, GoSafe
<1>6. CASE JudgeResumes(m)
  <2>1. m.stage = "idle" /\ m.via = "judge"
    BY <1>1, <1>6 DEF JudgeResumes, MoveOK
  <2>2. CASE Go(m, Primary(m.from))
    <3>1. Primary(m.from) \in Where
      BY <1>1, PrimaryType DEF IInv
    <3> QED BY <2>1, <2>2, <3>1, GoSafe
  <2>3. CASE /\ moves' = moves \ {m}
             /\ UNCHANGED <<agents, inTransfer, handoffs, handingOff, tags, completed>>
    BY <2>1, <2>3, <1>4, DropSafe
  <2> QED BY <1>6, <2>2, <2>3 DEF JudgeResumes
<1>7. CASE ScenarioAnswers(m)
  <2>1. m.stage = "ask" /\ m.via = "scenario"
    BY <1>1, <1>7 DEF ScenarioAnswers, MoveOK
  <2>2. CASE /\ moves' = moves \ {m}
             /\ UNCHANGED <<agents, inTransfer, handoffs, handingOff, tags, completed>>
    BY <2>1, <2>2, <1>4, DropSafe
  <2>3. CASE \E to \in Scenarios : Go(m, to)
    BY <2>1, <2>3, Shape, GoSafe DEF Where
  <2> QED BY <1>7, <2>2, <2>3 DEF ScenarioAnswers
<1>8. CASE TransferDone(m)
  <2>1. m.via = "transfer" /\ m.at \in Node
    BY <1>1, <1>8 DEF TransferDone, MoveOK
  <2>2. CASE Go(m, FirstExit(m.at))
    BY <2>1, <2>2, FirstExitType, GoSafe
  <2>3. CASE /\ moves' = moves \ {m} /\ inTransfer' = FALSE
             /\ UNCHANGED <<agents, handoffs, handingOff, tags, completed>>
    BY <2>1, <2>3, <1>4, DropSafe
  <2> QED BY <1>8, <2>2, <2>3 DEF TransferDone
<1>9. CASE ColdDone(m)
  <2>1. /\ m.via = "cold" /\ moves' = moves \ {m} /\ inTransfer' = FALSE
        /\ UNCHANGED <<agents, handoffs, handingOff, tags>>
        /\ completed' = completed \/ completed' = TRUE
    BY <1>9 DEF ColdDone, HangUp
  <2> QED BY <2>1, <1>4, DropSafe
<1>10. CASE WarmDone(m)
  <2>1. m.via = "warm" /\ m.at \in Node
    BY <1>1, <1>10 DEF WarmDone, MoveOK
  <2>2. CASE /\ moves' = moves \ {m} /\ UNCHANGED <<agents, inTransfer, handoffs, handingOff, tags>>
             /\ completed' = completed \/ completed' = TRUE
    BY <2>1, <2>2, <1>4, DropSafe
  <2>3. CASE Go(m, FailedExit[m.at])
    <3>1. FailedExit[m.at] \in Where
      BY <2>1, Shape DEF Where
    <3> QED BY <2>1, <2>3, <3>1, GoSafe
  <2> QED BY <1>10, <2>2, <2>3 DEF WarmDone, HangUp
<1>11. CASE HandoffDone(m)
  <2>1. m.via = "handoff" /\ moves' = moves \ {m} /\ UNCHANGED <<inTransfer, handoffs>>
    BY <1>11 DEF HandoffDone
  <2>2. CASE /\ tags' = tags /\ Swap(Target[m.at]) /\ handingOff' = FALSE /\ UNCHANGED completed
    <3>1. Target[m.at] \in Node \cup {Park, Single}
      BY <1>1, <2>1, Shape DEF MoveOK
    <3>2. AgentsOK' /\ Grows
      BY <2>2, <3>1, SwapOK DEF IInv, CallOK
    <3>3. \A x \in moves' : MoveOK(x) /\ x.from \in 1 .. Len(built')
      BY <2>1, <3>2, GrowsKeeps DEF IInv, MovesOK
    <3>4. Transfers' = Transfers /\ Handing' = {}
      BY <2>1 DEF Transfers, Handing, IInv, Guarded
    <3> QED BY <2>1, <2>2, <3>2, <3>3, <3>4 DEF IInv, MovesOK, MoveOK, CallOK, Guarded
  <2>3. CASE completed' = TRUE /\ UNCHANGED <<agents, handingOff, tags>>
    BY <2>1, <2>3, <1>4, DropSafe
  <2>4. CASE handingOff' = FALSE /\ UNCHANGED <<agents, tags, completed>>
    BY <2>1, <2>4, <1>4, DropSafe
  <2> QED BY <1>11, <2>2, <2>3, <2>4 DEF HandoffDone, HangUp
<1> QED BY <1>5, <1>6, <1>7, <1>8, <1>9, <1>10, <1>11

LEMMA StutterInv == IInv /\ UNCHANGED vars => IInv'
<1> SUFFICES ASSUME IInv, UNCHANGED vars PROVE IInv'
  OBVIOUS
<1>1. UNCHANGED <<agents, moves, inTransfer, handoffs, handingOff, tags, completed,
                  exited, live, armed, turns, faults>>
  BY DEF vars
<1>2. AgentsOK' /\ MovesOK' /\ CallOK' /\ Guarded' /\ Grows
  BY <1>1, StillSafe
<1>3. RestOK'
  BY <1>1, <1>2, RestKeeps DEF IInv, RestOK
<1> QED BY <1>2, <1>3 DEF IInv

LEMMA NextInv == IInv /\ [Next]_vars => IInv'
BY EnterInv, CallInv, TakeExitInv, EndCallInv, BeginsInv, MoveInv, StutterInv DEF Next

THEOREM Invariance == Spec => []IInv
<1> QED BY InitInv, NextInv, PTL DEF Spec

-----------------------------------------------------------------------------
(* What it says about a call *)

\* Every variable keeps its type, whatever the flow: no chain of routers and silent
\* nodes counts beyond its five hops, no handoff starts beyond the one that is
\* refused, every move stands at a node of the flow.
THEOREM TypeCorrect == Spec => []TypeOK
<1>1. IInv => TypeOK
  <2> SUFFICES ASSUME IInv PROVE TypeOK
    OBVIOUS
  <2>1. Len(built) \in Nat /\ DOMAIN built = 1 .. Len(built)
    BY DEF IInv, AgentsOK
  <2>2. \A m \in moves : /\ m.via \in Vias /\ m.stage \in {"run", "router", "idle", "ask"}
                         /\ m.at \in Node \cup {NoNode} /\ m.hops \in 0 .. 5
                         /\ m.to \subseteq Node \cup {NoNode}
    BY DEF IInv, MovesOK, MoveOK, Move, Where
  <2> QED BY <2>1, <2>2 DEF IInv, AgentsOK, CallOK, RestOK, TypeOK
<1> QED BY <1>1, Invariance, PTL

\* transferInFlight and handoffInFlight are up exactly while a transfer or a handoff
\* is under way, and never two of either, however exit tools, the judge,
\* auto-advance, scenarios and failed warm transfers overlap.
THEOREM GuardsTrue == Spec => []GuardsMatch
<1>1. IInv => GuardsMatch
  <2> SUFFICES ASSUME IInv PROVE GuardsMatch
    OBVIOUS
  <2>1. Cardinality(Transfers) <= 1
    <3>1. CASE Transfers = {}
      BY <3>1, FS_EmptySet
    <3>2. CASE Transfers # {}
      <4>1. PICK t : Transfers = {t}
        BY <3>2 DEF IInv, Guarded
      <4> QED BY <4>1, FS_Singleton
    <3> QED BY <3>1, <3>2
  <2>2. (\E m \in moves : m.via = "handoff") <=> Handing # {}
    BY DEF Handing
  <2> QED BY <2>1, <2>2 DEF IInv, Guarded, GuardsMatch
<1> QED BY <1>1, Invariance, PTL
-----------------------------------------------------------------------------
(* What is pending is under way *)

\* A scenario that is only being asked about does not count: its answer may be no.
OnItsWay == completed \/ goodbye \/ entering # <<>> \/ \E m \in moves : m.stage # "ask"

PInv == pending => OnItsWay \/ stranded

\* Wherever a target lies, acting on it leaves the flow with something to do, but for
\* a transfer that a transfer or a failed warm transfer comes to.
LEMMA Lands ==
  ASSUME AgentsOK, MovesOK, CallOK, Guarded, ~completed,
         NEW m \in Move, m.via \notin {"cold", "handoff"},
         NEW rest \in SUBSET moves, moves \ rest \subseteq {m},
         NEW w, Came(w), NEW r, Arrive(rest, m, w, r)
  PROVE  OnItsWay' \/ stranded'
<1>2. CASE w.kind = "router"
  <2> DEFINE x == [m EXCEPT !.stage = "router", !.at = w.at, !.hops = w.hops,
                            !.to = Routable(w.at, w.tags)]
  <2>1. moves' = rest \cup {x}
    BY <1>2 DEF Arrive
  <2>2. x.stage = "router"
    BY DEF Move
  <2> HIDE DEF x
  <2> QED BY <2>1, <2>2 DEF OnItsWay
<1>3. CASE w.kind \in {"agent", "stop"}
  <2>1. PICK n : Swap(n)
    BY <1>3 DEF Arrive
  <2>2. entering' = Append(entering, Len(built) + 1) /\ entering \in Seq(Nat) /\ Len(built) \in Nat
    BY <2>1 DEF Swap, AgentsOK
  <2>3. entering' # <<>>
    BY <2>2
  <2> QED BY <2>3 DEF OnItsWay
<1>4. CASE w.kind \in {"end", "speech"}
  <2>1. completed' \/ goodbye'
    BY <1>4 DEF Arrive, HangUp
  <2> QED BY <2>1 DEF OnItsWay
<1>5. CASE w.kind = "handoff"
  <2>1. StartHandoff(rest, m.from, w.at)
    BY <1>5 DEF Arrive
  <2>2. CASE handingOff
    <3>1. moves' = rest
      BY <2>1, <2>2 DEF StartHandoff
    <3>2. PICK h \in moves : h.via = "handoff"
      BY <2>2 DEF Guarded, Handing
    <3>3. h \in rest /\ h.stage # "ask"
      BY <3>2 DEF MovesOK, MoveOK
    <3> QED BY <3>1, <3>3 DEF OnItsWay
  <2>3. CASE ~handingOff /\ handoffs = MaxHandoffs
    BY <2>1, <2>3 DEF StartHandoff, HangUp, OnItsWay
  <2>4. CASE ~handingOff /\ handoffs # MaxHandoffs
    <3> DEFINE x == [via |-> "handoff", from |-> m.from, stage |-> "run", at |-> w.at, hops |-> 0,
                     to |-> {}]
    <3>1. moves' = rest \cup {x}
      BY <2>1, <2>4 DEF StartHandoff
    <3>2. x.stage = "run"
      OBVIOUS
    <3> HIDE DEF x
    <3> QED BY <3>1, <3>2 DEF OnItsWay
  <2> QED BY <2>2, <2>3, <2>4
<1>6. CASE w.kind = "transfer"
  <2> DEFINE inline == m.via = "tool" /\ Mode[w.at] = "warm"
             drops  == m.via \in {"transfer", "warm"}
             x == [m EXCEPT !.via = "warm", !.at = w.at, !.stage = "run", !.hops = 0, !.to = {}]
             y == Transferring(m.from, w.at)
  <2>1. moves' = IF inline THEN rest \cup {x} ELSE IF drops \/ inTransfer THEN rest ELSE rest \cup {y}
    BY <1>6 DEF Arrive
  <2>s. drops => stranded'
    BY <1>6 DEF Arrive
  <2>2. x.stage = "run"
    BY DEF Move
  <2>3. y.stage = "run"
    BY DEF Transferring
  <2> HIDE DEF x, y
  <2>4. CASE inline
    BY <2>1, <2>2, <2>4 DEF OnItsWay
  <2>5. CASE drops
    BY <2>s, <2>5
  <2>6. CASE ~inline /\ ~drops /\ inTransfer
    <3>1. PICK t \in moves : t.via \in {"transfer", "cold"}
      BY <2>6 DEF Guarded, Transfers
    <3>2. t \in rest /\ t.stage # "ask"
      BY <2>6, <3>1 DEF MovesOK, MoveOK
    <3> QED BY <2>1, <2>6, <3>2 DEF OnItsWay
  <2>7. CASE ~inline /\ ~drops /\ ~inTransfer
    BY <2>1, <2>3, <2>7 DEF OnItsWay
  <2> QED BY <2>4, <2>5, <2>6, <2>7
<1>7. w.kind # "on"
  BY DEF Arrive
<1> QED BY <1>2, <1>3, <1>4, <1>5, <1>6, <1>7 DEF Came, Chain

\* A move that goes on from a target.
LEMMA GoLands ==
  ASSUME IInv, ~completed, NEW m \in moves, m.via \notin {"cold", "handoff"},
         NEW to \in Where, Go(m, to)
  PROVE  OnItsWay' \/ stranded'
<1> DEFINE w == Walk(to, m.hops, tags)
           rest == moves \ {m}
<1>1. m \in Move
  BY DEF IInv, MovesOK, MoveOK
<1>2. Came(w)
  BY <1>1, WalkEnds DEF Move, IInv, CallOK
<1>3. rest \in SUBSET moves /\ moves \ rest \subseteq {m} /\ Arrive(rest, m, w, FALSE)
  BY DEF Go
<1>4. AgentsOK /\ MovesOK /\ CallOK /\ Guarded
  BY DEF IInv
<1> HIDE DEF w, rest
<1> QED BY <1>1, <1>2, <1>3, <1>4, Lands, ZenonT(60)

\* One that starts with this step.
LEMMA StartLands ==
  ASSUME IInv, ~completed, NEW via \in {"tool", "auto"}, NEW to \in Where,
         Arrive(moves, NewMove(via, "run"), Walk(to, 0, tags), TRUE)
  PROVE  OnItsWay' \/ stranded'
<1> DEFINE w == Walk(to, 0, tags)
           m == NewMove(via, "run")
<1>1. m \in Move /\ m.via = via
  BY DEF NewMove, Move, Where, Vias, IInv, AgentsOK
<1>2. Came(w)
  BY WalkEnds DEF IInv, CallOK
<1>3. Arrive(moves, m, w, TRUE)
  OBVIOUS
<1> HIDE DEF w, m
<1>4. /\ AgentsOK /\ MovesOK /\ CallOK /\ Guarded
      /\ m.via \notin {"cold", "handoff"} /\ moves \in SUBSET moves /\ moves \ moves \subseteq {m}
  BY <1>1 DEF IInv
<1> QED BY <1>1, <1>2, <1>3, <1>4, Lands, ZenonT(60)

\* A step that takes no move away.
LEMMA StillLands ==
  ASSUME PInv, entering' = entering, moves \subseteq moves', pending' => pending,
         goodbye => goodbye', completed => completed', stranded' = stranded
  PROVE  PInv'
BY DEF PInv, OnItsWay

LEMMA EnterLands == IInv /\ PInv /\ Enter => PInv'
<1> SUFFICES ASSUME Enter PROVE PInv'
  OBVIOUS
<1>1. stranded' \/ pending' = FALSE
  BY DEF Enter
<1> QED BY <1>1 DEF PInv

LEMMA CallLands ==
  PInv /\ (TimePasses \/ UserTurn \/ Goodbye \/ CallEnds \/ ParkTimeout \/ ParkedTurn) => PInv'
<1> SUFFICES ASSUME PInv, TimePasses \/ UserTurn \/ Goodbye \/ CallEnds \/ ParkTimeout \/ ParkedTurn
             PROVE  PInv'
  OBVIOUS
<1>1. /\ UNCHANGED <<agents, pending, goodbye, stranded>> /\ moves \subseteq moves'
      /\ completed' = completed \/ completed' = TRUE
  BY DEF TimePasses, UserTurn, Goodbye, CallEnds, ParkTimeout, ParkedTurn, HangUp, flags
<1> QED BY <1>1, StillLands DEF agents

LEMMA TakeExitLands == IInv /\ (\E to \in Node \cup {NoNode} : TakeExit(to)) => PInv'
<1> SUFFICES ASSUME IInv, NEW to \in Node \cup {NoNode}, TakeExit(to) PROVE PInv'
  OBVIOUS
<1>1. to \in Where /\ ~completed
  BY DEF TakeExit, Speaking, Where
<1>2. Arrive(moves, NewMove("tool", "run"), Walk(to, 0, tags), TRUE)
  BY DEF TakeExit
<1> QED BY <1>1, <1>2, StartLands DEF PInv

LEMMA EndCallLands == IInv /\ PInv /\ EndCall => PInv'
<1> SUFFICES ASSUME IInv, PInv, EndCall PROVE PInv'
  OBVIOUS
<1>1. ~completed
  BY DEF EndCall, Speaking
<1>2. CASE /\ UNCHANGED <<agents, moves, pending, completed, stranded>>
           /\ goodbye' = goodbye \/ goodbye' = TRUE
  BY <1>2, StillLands DEF agents
<1>3. CASE CanAdvance /\ Arrive(moves, NewMove("auto", "run"), Walk(Forward(live), 0, tags), TRUE)
  <2>1. live \in 1 .. Len(built) /\ NodeOf(live) # Park /\ NodeOf(live) # Single
    BY <1>3 DEF CanAdvance, IInv, RestOK, NodeOf, AgentsOK
  <2>2. NodeOf(live) \in Node
    BY <2>1 DEF IInv, AgentsOK, BuiltOK, NodeOf
  <2>3. Forward(live) \in Where
    BY <2>1, <2>2, ForwardType DEF IInv
  <2> QED BY <1>1, <1>3, <2>3, StartLands DEF PInv
<1> QED BY <1>2, <1>3 DEF EndCall

LEMMA JudgeCommitsLands == JudgeCommits => PInv'
<1> SUFFICES ASSUME JudgeCommits PROVE PInv'
  OBVIOUS
<1> DEFINE x == [NewMove("judge", "idle") EXCEPT !.from = armed]
<1>1. moves' = moves \cup {x}
  BY DEF JudgeCommits
<1>2. x.stage = "idle"
  BY DEF NewMove
<1> HIDE DEF x
<1> QED BY <1>1, <1>2 DEF PInv, OnItsWay

LEMMA MoveLands == IInv /\ PInv /\ MoveStep => PInv'
<1> SUFFICES ASSUME IInv, PInv, ~completed, NEW m \in moves,
                    \/ RouterAnswers(m) \/ JudgeResumes(m) \/ ScenarioAnswers(m)
                    \/ TransferDone(m) \/ ColdDone(m) \/ WarmDone(m) \/ HandoffDone(m)
             PROVE  PInv'
  BY DEF MoveStep
<1>1. MoveOK(m) /\ m.from \in 1 .. Len(built)
  BY DEF IInv, MovesOK
<1>2. ASSUME NEW to \in Where, Go(m, to), m.via \notin {"cold", "handoff"} PROVE PInv'
  BY <1>2, GoLands DEF PInv
<1>5. CASE RouterAnswers(m)
  <2>1. PICK n \in m.to : Go(m, n)
    BY <1>5 DEF RouterAnswers
  <2>2. n \in Where /\ m.via \notin {"cold", "handoff"}
    BY <1>1, <1>5, <2>1 DEF RouterAnswers, MoveOK, Move
  <2> QED BY <2>1, <2>2, <1>2
<1>6. CASE JudgeResumes(m)
  <2>1. m.via = "judge"
    BY <1>1, <1>6 DEF JudgeResumes, MoveOK
  <2>2. CASE Go(m, Primary(m.from))
    <3>1. Primary(m.from) \in Where
      BY <1>1, PrimaryType DEF IInv
    <3> QED BY <2>1, <2>2, <3>1, <1>2
  <2>3. CASE pending' = FALSE
    BY <2>3 DEF PInv
  <2> QED BY <1>6, <2>2, <2>3 DEF JudgeResumes
<1>7. CASE ScenarioAnswers(m)
  <2>1. m.stage = "ask" /\ m.via = "scenario"
    BY <1>1, <1>7 DEF ScenarioAnswers, MoveOK
  <2>2. CASE moves' = moves \ {m} /\ UNCHANGED <<agents, pending, goodbye, completed, stranded>>
    <3>1. OnItsWay => OnItsWay'
      BY <2>1, <2>2 DEF OnItsWay, agents
    <3> QED BY <2>2, <3>1 DEF PInv
  <2>3. CASE \E to \in Scenarios : Go(m, to)
    <3>1. PICK to \in Scenarios : Go(m, to)
      BY <2>3
    <3>2. to \in Where
      BY Shape DEF Where
    <3> QED BY <2>1, <3>1, <3>2, <1>2
  <2> QED BY <1>7, <2>2, <2>3 DEF ScenarioAnswers
<1>8. CASE TransferDone(m)
  <2>1. m.via = "transfer" /\ m.at \in Node
    BY <1>1, <1>8 DEF TransferDone, MoveOK
  <2>2. CASE Go(m, FirstExit(m.at))
    BY <2>1, <2>2, FirstExitType, <1>2
  <2>3. CASE stranded' = TRUE
    BY <2>3 DEF PInv
  <2> QED BY <1>8, <2>2, <2>3 DEF TransferDone
<1>9. CASE ColdDone(m)
  BY <1>9 DEF ColdDone, HangUp, PInv, OnItsWay
<1>10. CASE WarmDone(m)
  <2>1. m.via = "warm" /\ m.at \in Node
    BY <1>1, <1>10 DEF WarmDone, MoveOK
  <2>2. CASE completed' \/ stranded'
    BY <2>2 DEF PInv, OnItsWay
  <2>3. CASE Go(m, FailedExit[m.at])
    <3>1. FailedExit[m.at] \in Where
      BY <2>1, Shape DEF Where
    <3> QED BY <2>1, <2>3, <3>1, <1>2
  <2> QED BY <1>10, <2>2, <2>3 DEF WarmDone, HangUp
<1>11. CASE HandoffDone(m)
  <2>1. CASE Swap(Target[m.at])
    <3>1. entering' = Append(entering, Len(built) + 1) /\ entering \in Seq(Nat) /\ Len(built) \in Nat
      BY <2>1 DEF Swap, IInv, AgentsOK
    <3>2. entering' # <<>>
      BY <3>1
    <3> QED BY <3>2 DEF PInv, OnItsWay
  <2>2. CASE completed' \/ stranded'
    BY <2>2 DEF PInv, OnItsWay
  <2> QED BY <1>11, <2>1, <2>2 DEF HandoffDone, HangUp
<1> QED BY <1>5, <1>6, <1>7, <1>8, <1>9, <1>10, <1>11

\* While transitionPending is up something is on its way, or a goodbye will end the
\* call, or what had been on its way has ended without arriving: whatever the flow, its
\* transfers, handoffs and scenarios, and however they overlap.
THEOREM PendingUnderWay == Spec => []PendingHasMove
<1>1. Init => PInv
  BY DEF Init, PInv
<1>2. IInv /\ PInv /\ [Next]_vars => PInv'
  <2> SUFFICES ASSUME IInv, PInv, [Next]_vars PROVE PInv'
    OBVIOUS
  <2>1. CASE UNCHANGED vars
    BY <2>1, StillLands DEF vars, flags, agents
  <2> QED BY <2>1, EnterLands, CallLands, TakeExitLands, EndCallLands, JudgeCommitsLands,
             MoveLands DEF Next
<1>3. PInv => PendingHasMove
  BY DEF PInv, OnItsWay, PendingHasMove
<1> QED BY <1>1, <1>2, <1>3, Invariance, PTL DEF Spec
=============================================================================
