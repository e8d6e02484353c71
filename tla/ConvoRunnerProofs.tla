---------------------------- MODULE ConvoRunnerProofs ----------------------------
(***************************************************************************)
(* Proofs about text conversations: what pruning does to every flow the    *)
(* schema accepts (FlowConfig), and what holds of a conversation's row for *)
(* every flow, any agents and any requests at once (ConvoRunner).          *)
(***************************************************************************)
EXTENDS ConvoRunner, FlowEditor, TLAPS, WellFoundedInduction, FiniteSetTheorems

\* Every set of numbers that is not empty has a least one.
LEMMA LeastNumber ==
  ASSUME NEW S, S \subseteq Nat, S # {}
  PROVE  \E m \in S : \A k \in S : m <= k
<1>1. PICK R : IsWellFoundedOn(R, Nat) /\ \A k, m \in Nat : k < m => <<k, m>> \in R
  <2> DEFINE R == OpToRel(<, Nat)
  <2>1. IsWellFoundedOn(R, Nat)
    BY NatLessThanWellFounded
  <2>2. \A k, m \in Nat : k < m => <<k, m>> \in R
    BY DEF OpToRel
  <2> HIDE DEF R
  <2> QED
    BY <2>1, <2>2
<1>2. IsWellFoundedOn(R, Nat)
  BY <1>1
<1>3. PICK m \in S : \A k \in S : ~ (<<k, m>> \in R)
  BY <1>2, WFMin
<1>4. \A k \in S : ~ (k < m)
  BY <1>1, <1>3
<1> QED
  BY <1>4

\* Induction up to n.
LEMMA InductionUpTo ==
  ASSUME NEW n \in Nat, NEW S, 0 \in S, \A i \in 1 .. n : i - 1 \in S => i \in S
  PROVE  \A i \in 0 .. n : i \in S
<1> DEFINE Rest == {i \in 0 .. n : i \notin S}
<1> SUFFICES ASSUME Rest # {} PROVE FALSE
  OBVIOUS
<1>1. Rest \subseteq Nat
  OBVIOUS
<1>2. PICK m \in Rest : \A k \in Rest : m <= k
  BY <1>1, LeastNumber
<1>3. m \in 1 .. n /\ m - 1 \in 0 .. n
  BY <1>2
<1>4. m - 1 \notin Rest
  BY <1>2, <1>3
<1> QED
  BY <1>2, <1>3, <1>4

-----------------------------------------------------------------------------
(* Flows, and where pruning leads their edges                                *)

Listed(xs) == {xs[i] : i \in DOMAIN xs}

LEMMA Lists ==
  ASSUME NEW xs, IsList(xs)
  PROVE  Len(xs) \in Nat /\ DOMAIN xs = 1 .. Len(xs) /\ xs \in [1 .. Len(xs) -> Listed(xs)]
  BY DEF IsList, Listed

LEMMA IdsFinite == ASSUME NEW f, IsList(f.nodes) PROVE IsFiniteSet(Ids(f))
<1>1. IsFiniteSet(1 .. Len(f.nodes))
  BY Lists, FS_Interval
<1> DEFINE id == [i \in 1 .. Len(f.nodes) |-> f.nodes[i].id]
<1>2. id \in Surjection(1 .. Len(f.nodes), Ids(f))
  BY Lists DEF Surjection, Ids
<1> HIDE DEF id
<1> QED
  BY <1>1, <1>2, FS_Surjection

\* NodeAt finds the node with an id.
LEMMA NodeFound ==
  ASSUME NEW f, NEW id \in Ids(f)
  PROVE  /\ NodeAt(f, id).id = id
         /\ \E i \in DOMAIN f.nodes : f.nodes[i] = NodeAt(f, id)
<1>1. \E i \in DOMAIN f.nodes : f.nodes[i].id = id
  BY DEF Ids
<1>2. PICK i \in DOMAIN f.nodes : i = CHOOSE j \in DOMAIN f.nodes : f.nodes[j].id = id
  BY <1>1
<1>3. f.nodes[i].id = id
  BY <1>1, <1>2
<1> QED
  BY <1>2, <1>3 DEF NodeAt

\* An edge of a flow the schema accepts, or of a node of it, leads to a node or nowhere.
LEMMA PrimaryTarget ==
  ASSUME NEW f, FlowShape(f), TargetsOK(f), NEW id \in Ids(f)
  PROVE  PrimaryExit(NodeAt(f, id)) \in Ids(f) \cup {None}
<1>1. PICK i \in DOMAIN f.nodes : f.nodes[i] = NodeAt(f, id)
  BY NodeFound
<1> DEFINE n   == NodeAt(f, id)
           led == {j \in DOMAIN n.exits : n.exits[j].to # None}
<1>2. \A j \in DOMAIN n.exits : n.exits[j].to \in Ids(f) \cup {None}
  BY <1>1 DEF TargetsOK
<1>3. CASE led = {}
  BY <1>3 DEF PrimaryExit
<1>4. CASE led # {}
  <2>1. led \subseteq Nat
    BY <1>1, Lists DEF FlowShape, NodeShape
  <2>2. \E j \in led : \A k \in led : j <= k
    BY <1>4, <2>1, LeastNumber
  <2>3. PICK j \in led : j = CHOOSE m \in led : \A k \in led : m <= k
    BY <2>2
  <2> QED
    BY <1>2, <1>4, <2>3 DEF PrimaryExit
<1> QED
  BY <1>3, <1>4

LEMMA CutIds == ASSUME NEW f, NEW ch PROVE Cut(f, ch) \subseteq Ids(f)
  BY DEF Cut, Ids

\* One unfolding of the walk in PastCut.
Way(f, ch, w) ==
  [seen \in SUBSET Ids(f) |->
     [id \in Ids(f) \cup {None} |->
        IF id \notin Cut(f, ch) THEN id
        ELSE IF id \in seen THEN None
        ELSE w[seen \cup {id}][PrimaryExit(NodeAt(f, id))]]]

\* The ids a walk may still see for the first time.
Left(f, seen) == Cardinality(Ids(f) \ seen)

LEMMA LeftFalls ==
  ASSUME NEW f, IsFiniteSet(Ids(f)), NEW seen \in SUBSET Ids(f)
  PROVE  /\ Left(f, seen) \in 0 .. Cardinality(Ids(f)) /\ Cardinality(Ids(f)) \in Nat
         /\ \A id \in Ids(f) \ seen :
              /\ seen \cup {id} \in SUBSET Ids(f)
              /\ Left(f, seen \cup {id}) = Left(f, seen) - 1
<1>1. /\ Left(f, seen) \in 0 .. Cardinality(Ids(f)) /\ Cardinality(Ids(f)) \in Nat
      /\ IsFiniteSet(Ids(f) \ seen)
  BY FS_CardinalityType, FS_Subset, FS_Difference DEF Left
<1>2. ASSUME NEW id \in Ids(f) \ seen
      PROVE  Left(f, seen \cup {id}) = Left(f, seen) - 1
  <2>1. Ids(f) \ (seen \cup {id}) = (Ids(f) \ seen) \ {id}
    OBVIOUS
  <2>2. Cardinality((Ids(f) \ seen) \ {id}) = Cardinality(Ids(f) \ seen) - 1
    BY <1>1, FS_RemoveElement
  <2> QED
    BY <2>1, <2>2 DEF Left
<1> QED
  BY <1>1, <1>2

\* The walk ends: the recursion of PastCut defines a function.
LEMMA WayExists ==
  ASSUME NEW f, NEW ch, IsFiniteSet(Ids(f))
  PROVE  \E w : w = Way(f, ch, w)
<1> DEFINE Good(w, k) == \A seen \in SUBSET Ids(f) : Left(f, seen) < k => w[seen] = Way(f, ch, w)[seen]
           S == {k \in Nat : \E w : Good(w, k)}
           n == Cardinality(Ids(f)) + 1
<1>0. n \in Nat
  BY FS_CardinalityType
<1>1. 0 \in S
  <2>1. \A w : Good(w, 0)
    BY LeftFalls
  <2> QED
    BY <2>1
<1>2. ASSUME NEW k \in 1 .. n, k - 1 \in S
      PROVE  k \in S
  <2>1. PICK w : Good(w, k - 1)
    BY <1>2
  <2> DEFINE v == Way(f, ch, w)
  <2>2. ASSUME NEW seen \in SUBSET Ids(f), Left(f, seen) < k
        PROVE  v[seen] = Way(f, ch, v)[seen]
    <3>1. ASSUME NEW id \in Cut(f, ch), id \notin seen
          PROVE  w[seen \cup {id}] = v[seen \cup {id}]
      <4>1. seen \cup {id} \in SUBSET Ids(f) /\ Left(f, seen \cup {id}) < k - 1
        BY <2>2, <3>1, LeftFalls, CutIds, <1>0
      <4> QED
        BY <2>1, <4>1
    <3> HIDE DEF v
    <3>2. v = Way(f, ch, w)
      BY DEF v
    <3> QED
      BY <3>1, <3>2, Zenon DEF Way
  <2>3. Good(v, k)
    BY <2>2
  <2> QED
    BY <2>3
<1>3. n \in S
  <2> HIDE DEF S
  <2>1. \A k \in 1 .. n : k - 1 \in S => k \in S
    BY <1>2
  <2>2. \A k \in 0 .. n : k \in S
    BY <1>0, <1>1, <2>1, InductionUpTo
  <2> QED
    BY <2>2, <1>0
<1>4. PICK w : Good(w, n)
  BY <1>3
<1> DEFINE v == Way(f, ch, w)
<1>5. \A seen \in SUBSET Ids(f) : w[seen] = v[seen]
  BY <1>0, <1>4, LeftFalls
<1>6. v = Way(f, ch, v)
  <2>1. \A seen \in SUBSET Ids(f) : \A id \in Cut(f, ch) : w[seen \cup {id}] = v[seen \cup {id}]
    BY <1>5, CutIds
  <2> HIDE DEF v
  <2>2. v = Way(f, ch, w)
    BY DEF v
  <2>3. ASSUME NEW seen \in SUBSET Ids(f)
        PROVE  Way(f, ch, w)[seen] = Way(f, ch, v)[seen]
    BY <2>1, Zenon DEF Way
  <2>4. \A x : Way(f, ch, x) = [seen \in SUBSET Ids(f) |-> Way(f, ch, x)[seen]]
    BY DEF Way
  <2> HIDE DEF Way
  <2>5. Way(f, ch, w) = Way(f, ch, v)
    BY <2>3, <2>4
  <2> QED
    BY <2>2, <2>5
<1> QED
  BY <1>6

LEMMA PastCutWalks ==
  ASSUME NEW f, NEW ch, IsFiniteSet(Ids(f))
  PROVE  \E w : w = Way(f, ch, w) /\ PastCut(f, ch) = w[{}]
<1>1. \E w : w = Way(f, ch, w)
  BY WayExists
<1> QED
  BY <1>1 DEF PastCut, Way

\* An edge that is led past the cut nodes leads to one that is left, or nowhere.
LEMMA PastCutType ==
  ASSUME NEW f, NEW ch, FlowShape(f), TargetsOK(f)
  PROVE  PastCut(f, ch) \in [Ids(f) \cup {None} -> (Ids(f) \ Cut(f, ch)) \cup {None}]
<1> DEFINE To == (Ids(f) \ Cut(f, ch)) \cup {None}
           Fn == [Ids(f) \cup {None} -> To]
           n  == Cardinality(Ids(f))
<1>1. IsFiniteSet(Ids(f)) /\ n \in Nat
  BY IdsFinite, FS_CardinalityType DEF FlowShape
<1>2. PICK w : w = Way(f, ch, w) /\ PastCut(f, ch) = w[{}]
  BY <1>1, PastCutWalks
<1> DEFINE S == {k \in 0 .. n : \A seen \in SUBSET Ids(f) : Left(f, seen) <= k => w[seen] \in Fn}
<1>3. ASSUME NEW seen \in SUBSET Ids(f),
             \A id \in Cut(f, ch) \ seen : w[seen \cup {id}] \in Fn
      PROVE  w[seen] \in Fn
  <2>1. \A id \in Cut(f, ch) : PrimaryExit(NodeAt(f, id)) \in Ids(f) \cup {None}
    BY PrimaryTarget, CutIds
  <2>2. \A id \in Cut(f, ch) \ seen : w[seen \cup {id}][PrimaryExit(NodeAt(f, id))] \in To
    BY <1>3, <2>1
  <2>3. w[seen] = [id \in Ids(f) \cup {None} |->
                     IF id \notin Cut(f, ch) THEN id
                     ELSE IF id \in seen THEN None
                     ELSE w[seen \cup {id}][PrimaryExit(NodeAt(f, id))]]
    BY <1>2 DEF Way
  <2> QED
    BY <2>2, <2>3
<1>4. \A seen \in SUBSET Ids(f) : Left(f, seen) = 0 => w[seen] \in Fn
  <2> SUFFICES ASSUME NEW seen \in SUBSET Ids(f), Left(f, seen) = 0 PROVE w[seen] \in Fn
    OBVIOUS
  <2>1. ASSUME NEW id \in Ids(f) \ seen PROVE FALSE
    <3>1. seen \cup {id} \in SUBSET Ids(f) /\ Left(f, seen \cup {id}) = Left(f, seen) - 1
      BY <1>1, LeftFalls
    <3>2. Left(f, seen \cup {id}) \in Nat
      BY <1>1, <3>1, LeftFalls
    <3> QED
      BY <3>1, <3>2
  <2> HIDE DEF Fn
  <2> QED
    BY <1>3, <2>1, CutIds
<1>5. ASSUME NEW k \in 1 .. n, k - 1 \in S
      PROVE  k \in S
  <2> SUFFICES ASSUME NEW seen \in SUBSET Ids(f), Left(f, seen) <= k PROVE w[seen] \in Fn
    <3> HIDE DEF Fn
    <3>1. k \in 0 .. n
      BY <1>1, <1>5
    <3> QED
      BY <3>1
  <2>1. \A id \in Cut(f, ch) \ seen : seen \cup {id} \in SUBSET Ids(f) /\ Left(f, seen \cup {id}) <= k - 1
    BY <1>1, LeftFalls, CutIds
  <2>2. \A id \in Cut(f, ch) \ seen : w[seen \cup {id}] \in Fn
    BY <1>5, <2>1
  <2> HIDE DEF Fn
  <2> QED
    BY <1>3, <2>2
<1>6. 0 \in S
  <2> HIDE DEF Fn
  <2>1. \A seen \in SUBSET Ids(f) : Left(f, seen) <= 0 => Left(f, seen) = 0
    BY <1>1, LeftFalls
  <2> QED
    BY <1>1, <1>4, <2>1
<1>7. n \in S
  <2> HIDE DEF S
  <2>1. \A k \in 1 .. n : k - 1 \in S => k \in S
    BY <1>5
  <2>2. \A k \in 0 .. n : k \in S
    BY <1>1, <1>6, <2>1, InductionUpTo
  <2> QED
    BY <2>2, <1>1
<1>8. w[{}] \in Fn
  <2> HIDE DEF Fn
  <2>1. {} \in SUBSET Ids(f) /\ Left(f, {}) <= n
    BY <1>1, LeftFalls
  <2> QED
    BY <1>7, <2>1
<1> QED
  BY <1>2, <1>8

-----------------------------------------------------------------------------
(* PruneLeadsPast                                                            *)

\* A function on 0 .. n starts with base and goes on by g.
Runs(n, X, base, g) ==
  \E s \in [0 .. n -> X] : s[0] = base /\ \A i \in 1 .. n : s[i] = g[i][s[i - 1]]

LEMMA Recursion ==
  ASSUME NEW n \in Nat, NEW X, NEW base \in X, NEW g \in [1 .. n -> [X -> X]]
  PROVE  Runs(n, X, base, g)
<1> DEFINE Fits(s, k) == s[0] = base /\ \A i \in 1 .. k : s[i] = g[i][s[i - 1]]
           S == {k \in 0 .. n : \E s \in [0 .. k -> X] : Fits(s, k)}
<1>1. 0 \in S
  <2> DEFINE s == [i \in 0 .. 0 |-> base]
  <2>1. s \in [0 .. 0 -> X] /\ Fits(s, 0)
    OBVIOUS
  <2>2. 0 \in 0 .. n
    OBVIOUS
  <2> HIDE DEF s, Fits
  <2> QED
    BY <2>1, <2>2
<1>2. ASSUME NEW k \in 1 .. n, k - 1 \in S
      PROVE  k \in S
  <2>1. PICK s \in [0 .. k - 1 -> X] : Fits(s, k - 1)
    BY <1>2
  <2> DEFINE t == [i \in 0 .. k |-> IF i = k THEN g[k][s[k - 1]] ELSE s[i]]
  <2>2. t \in [0 .. k -> X]
    BY <2>1
  <2>3. \A i \in 1 .. k : t[i] = g[i][t[i - 1]]
    BY <2>1
  <2>4. t[0] = base
    BY <2>1
  <2>5. t \in [0 .. k -> X] /\ Fits(t, k) /\ k \in 0 .. n
    <3> HIDE DEF t
    <3> QED
      BY <2>2, <2>3, <2>4
  <2> HIDE DEF t, Fits
  <2> QED
    BY <2>5
<1>3. n \in S
  <2> HIDE DEF S
  <2>1. \A k \in 1 .. n : k - 1 \in S => k \in S
    BY <1>2
  <2>2. \A k \in 0 .. n : k \in S
    BY <1>1, <2>1, InductionUpTo
  <2> QED
    BY <2>2
<1> QED
  BY <1>3 DEF Runs

\* One step of FirstKept's way.
OneOn(f, ch, x) == IF x \in Cut(f, ch) THEN PrimaryExit(NodeAt(f, x)) ELSE x

\* The way of FirstKept from id: n primary exits, one after another.
Steps(f, ch, id, n, s) ==
  /\ s \in [0 .. n -> Ids(f) \cup {None}] /\ s[0] = id
  /\ \A k \in 1 .. n : s[k] = OneOn(f, ch, s[k - 1])

LEMMA FirstKeptWalks ==
  ASSUME NEW f, NEW ch, FlowShape(f), TargetsOK(f), NEW id \in Ids(f),
         NEW n, n = Cardinality(Ids(f)) + 1
  PROVE  \E s : /\ Steps(f, ch, id, n, s)
                /\ FirstKept(f, ch, id) = IF s[n] \in Cut(f, ch) THEN None ELSE s[n]
<1> DEFINE X == Ids(f) \cup {None}
           B(s) == [k \in 0 .. n |->
                      IF k = 0 THEN id
                      ELSE IF s[k - 1] \in Cut(f, ch) THEN PrimaryExit(NodeAt(f, s[k - 1]))
                      ELSE s[k - 1]]
           g == [k \in 1 .. n |-> [x \in X |-> OneOn(f, ch, x)]]
<1>0. n \in Nat
  BY IdsFinite, FS_CardinalityType DEF FlowShape
<1>1. \A x \in X : OneOn(f, ch, x) \in X
  BY PrimaryTarget, CutIds DEF OneOn
<1>2. g \in [1 .. n -> [X -> X]]
  BY <1>1
<1>3. PICK r \in [0 .. n -> X] : r[0] = id /\ \A i \in 1 .. n : r[i] = g[i][r[i - 1]]
  <2> HIDE DEF g
  <2>1. id \in X
    OBVIOUS
  <2>2. Runs(n, X, id, g)
    <3> HIDE DEF X
    <3> QED
      BY <1>0, <1>2, <2>1, Recursion
  <2> QED
    BY <2>2 DEF Runs
<1>4. r = B(r)
  <2>1. \A i \in 1 .. n : i - 1 \in 0 .. n /\ i # 0
    BY <1>0
  <2>2. \A i \in 1 .. n : r[i] = OneOn(f, ch, r[i - 1])
    BY <1>3, <2>1
  <2>3. \A i \in 0 .. n : i # 0 => i \in 1 .. n
    BY <1>0
  <2>4. \A i \in 0 .. n : r[i] = B(r)[i]
    BY <1>3, <2>2, <2>3 DEF OneOn
  <2>5. r = [i \in 0 .. n |-> r[i]] /\ B(r) = [i \in 0 .. n |-> B(r)[i]]
    BY <1>3
  <2> HIDE DEF B
  <2> QED
    BY <2>4, <2>5
<1> DEFINE s == CHOOSE u : u = B(u)
<1>5. s = B(s)
  BY <1>4
<1>6. FirstKept(f, ch, id) = IF s[n] \in Cut(f, ch) THEN None ELSE s[n]
  BY DEF FirstKept
<1> HIDE DEF s
<1>7. Steps(f, ch, id, n, s)
  <2>0. \A k \in 1 .. n : k \in 0 .. n /\ k - 1 \in 0 .. n /\ k # 0
    BY <1>0
  <2>1. DOMAIN s = 0 .. n /\ s = [k \in 0 .. n |-> s[k]]
    BY <1>5
  <2>2. s[0] = id
    BY <1>0, <1>5
  <2>3. \A k \in 1 .. n : s[k] = OneOn(f, ch, s[k - 1])
    BY <1>5, <2>0 DEF OneOn
  <2> DEFINE S == {k \in 0 .. n : s[k] \in X}
  <2>4. 0 \in S
    BY <1>0, <2>2
  <2>5. \A k \in 1 .. n : k - 1 \in S => k \in S
    BY <1>1, <2>0, <2>3
  <2>6. \A k \in 0 .. n : k \in S
    <3> HIDE DEF S
    <3> QED
      BY <1>0, <2>4, <2>5, InductionUpTo
  <2>7. \A k \in 0 .. n : s[k] \in X
    BY <2>6
  <2> HIDE DEF X
  <2>8. s \in [0 .. n -> X]
    BY <2>1, <2>7
  <2> QED
    BY <2>2, <2>3, <2>8 DEF Steps, X
<1> QED
  BY <1>6, <1>7

\* The walk's first end: a node that is left, nowhere, or one it has been to.
Ends(f, ch, s, k) == s[k] \notin Cut(f, ch) \/ \E i \in 0 .. k - 1 : s[i] = s[k]

LEMMA WalkHasEnd ==
  ASSUME NEW f, NEW ch, IsFiniteSet(Ids(f)), NEW id, NEW n, n = Cardinality(Ids(f)) + 1, NEW s,
         Steps(f, ch, id, n, s)
  PROVE  \E m \in 0 .. n : Ends(f, ch, s, m) /\ \A k \in 0 .. m - 1 : ~Ends(f, ch, s, k)
<1> DEFINE E == {k \in 0 .. n : Ends(f, ch, s, k)}
<1>0. n \in Nat
  BY FS_CardinalityType
<1>1. E # {}
  <2> SUFFICES ASSUME E = {} PROVE FALSE
    OBVIOUS
  <2>1. \A k \in 0 .. n : s[k] \in Cut(f, ch) /\ ~ \E i \in 0 .. k - 1 : s[i] = s[k]
    BY DEF Ends
  <2> DEFINE t == [k \in 1 .. n |-> s[k]]
  <2>2. t \in [1 .. n -> Ids(f)]
    BY <1>0, <2>1, CutIds
  <2>3. IsFiniteSet(1 .. n) /\ Cardinality(1 .. n) = n
    BY <1>0, FS_Interval
  <2>4. Cardinality(Ids(f)) < Cardinality(1 .. n)
    BY <2>3, FS_CardinalityType
  <2>5. \E i, j \in 1 .. n : i # j /\ t[i] = t[j]
    <3> HIDE DEF t
    <3> QED
      BY <2>2, <2>3, <2>4, FS_PigeonHole
  <2>6. \A i, j \in 1 .. n : i < j => s[i] # s[j]
    BY <1>0, <2>1
  <2> QED
    BY <1>0, <2>5, <2>6
<1>2. E \subseteq Nat
  BY <1>0
<1>3. PICK m \in E : \A k \in E : m <= k
  BY <1>1, <1>2, LeastNumber
<1>4. \A k \in 0 .. m - 1 : k \in 0 .. n /\ k \notin E
  BY <1>0, <1>2, <1>3
<1> QED
  BY <1>3, <1>4

\* What a walk has been to before its step k.
Before(s, k) == {s[j] : j \in 0 .. k - 1}

\* Up to the walk's end the recursion of PastCut goes where the walk goes.
LEMMA WalksAlike ==
  ASSUME NEW f, NEW ch, NEW id, NEW n \in Nat, NEW s, Steps(f, ch, id, n, s),
         NEW w, w = Way(f, ch, w),
         NEW m \in 0 .. n, \A k \in 0 .. m - 1 : ~Ends(f, ch, s, k)
  PROVE  /\ Before(s, m) \in SUBSET Cut(f, ch)
         /\ w[{}][id] = w[Before(s, m)][s[m]]
<1>1. \A k \in 0 .. m - 1 : s[k] \in Cut(f, ch) /\ s[k] \notin Before(s, k)
  BY DEF Ends, Before
<1>2. \A k \in 0 .. m : Before(s, k) \in SUBSET Cut(f, ch)
  BY <1>1 DEF Before
<1> DEFINE S == {k \in 0 .. m : w[{}][id] = w[Before(s, k)][s[k]]}
<1>3. 0 \in S
  <2>1. Before(s, 0) = {}
    BY DEF Before
  <2>2. s[0] = id /\ 0 \in 0 .. m
    BY DEF Steps
  <2> QED
    BY <2>1, <2>2
<1>4. ASSUME NEW k \in 1 .. m, k - 1 \in S
      PROVE  k \in S
  <2> DEFINE j == k - 1
  <2>1. /\ j \in 0 .. m - 1 /\ k \in 1 .. n /\ k \in 0 .. m
        /\ w[{}][id] = w[Before(s, j)][s[j]]
    BY <1>4
  <2>2. s[j] \in Cut(f, ch) /\ s[j] \in Ids(f) /\ s[j] \notin Before(s, j)
    BY <1>1, <2>1, CutIds
  <2>3. Before(s, j) \in SUBSET Ids(f)
    BY <1>2, <2>1, CutIds
  <2>4. w[Before(s, j)][s[j]] = w[Before(s, j) \cup {s[j]}][PrimaryExit(NodeAt(f, s[j]))]
    <3> HIDE DEF j
    <3>1. w[Before(s, j)] = Way(f, ch, w)[Before(s, j)]
      OBVIOUS
    <3> QED
      BY <2>2, <2>3, <3>1 DEF Way
  <2>5. Before(s, k) = Before(s, j) \cup {s[j]}
    <3>1. 0 .. k - 1 = (0 .. j - 1) \cup {j}
      BY <2>1
    <3> HIDE DEF j
    <3> QED
      BY <3>1 DEF Before
  <2>6. s[k] = PrimaryExit(NodeAt(f, s[j]))
    BY <2>1, <2>2 DEF Steps, OneOn
  <2> QED
    BY <2>1, <2>4, <2>5, <2>6
<1>5. m \in S
  <2> HIDE DEF S
  <2>1. \A k \in 1 .. m : k - 1 \in S => k \in S
    BY <1>4
  <2>2. \A k \in 0 .. m : k \in S
    BY <1>3, <2>1, InductionUpTo
  <2> QED
    BY <2>2
<1> QED
  BY <1>2, <1>5

\* A walk that has come to an end stays there: on a node that is left or nowhere, or
\* among the cut nodes it has been to.
LEMMA WalkStays ==
  ASSUME NEW f, NEW ch, NEW id, NEW n \in Nat, NEW s, Steps(f, ch, id, n, s),
         NEW m \in 0 .. n, Ends(f, ch, s, m), Before(s, m) \in SUBSET Cut(f, ch)
  PROVE  /\ s[m] \notin Cut(f, ch) => s[n] = s[m]
         /\ s[m] \in Cut(f, ch) => s[m] \in Before(s, m) /\ s[n] \in Cut(f, ch)
<1>1. \A k \in 1 .. n : s[k] = OneOn(f, ch, s[k - 1])
  BY DEF Steps
<1>2. CASE s[m] \notin Cut(f, ch)
  <2> DEFINE S == {k \in 0 .. n : m <= k => s[k] = s[m]}
  <2>1. 0 \in S
    <3>1. 0 \in 0 .. n /\ (m <= 0 => m = 0)
      OBVIOUS
    <3> QED
      BY <3>1
  <2>2. \A k \in 1 .. n : k - 1 \in S => k \in S
    <3> SUFFICES ASSUME NEW k \in 1 .. n, k - 1 \in S, m <= k PROVE s[k] = s[m]
      OBVIOUS
    <3>1. CASE m = k
      BY <3>1
    <3>2. CASE m # k
      <4>1. s[k - 1] = s[m]
        BY <3>2
      <4> QED
        BY <1>1, <1>2, <4>1 DEF OneOn
    <3> QED
      BY <3>1, <3>2
  <2>3. n \in S
    <3> HIDE DEF S
    <3>1. \A k \in 0 .. n : k \in S
      BY <2>1, <2>2, InductionUpTo
    <3> QED
      BY <3>1
  <2> QED
    BY <1>2, <2>3
<1>3. CASE s[m] \in Cut(f, ch)
  <2>1. s[m] \in Before(s, m)
    BY <1>3 DEF Ends, Before
  <2>2. ASSUME NEW x \in Before(s, m)
        PROVE  OneOn(f, ch, x) \in Before(s, m)
    <3>1. PICK j \in 0 .. m - 1 : x = s[j]
      BY <2>2 DEF Before
    <3>2. s[j + 1] = OneOn(f, ch, x)
      <4>1. j + 1 \in 1 .. n /\ (j + 1) - 1 = j
        OBVIOUS
      <4> QED
        BY <1>1, <3>1, <4>1
    <3>3. CASE j + 1 = m
      BY <2>1, <3>2, <3>3
    <3>4. CASE j + 1 # m
      <4>1. j + 1 \in 0 .. m - 1
        BY <3>4
      <4> QED
        BY <3>2, <4>1 DEF Before
    <3> QED
      BY <3>3, <3>4
  <2> DEFINE S == {k \in 0 .. n : m <= k => s[k] \in Before(s, m)}
  <2>3. 0 \in S
    <3>1. 0 \in 0 .. n /\ (m <= 0 => m = 0)
      OBVIOUS
    <3> QED
      BY <2>1, <3>1
  <2>4. \A k \in 1 .. n : k - 1 \in S => k \in S
    <3> SUFFICES ASSUME NEW k \in 1 .. n, k - 1 \in S, m <= k PROVE s[k] \in Before(s, m)
      OBVIOUS
    <3>1. CASE m = k
      BY <2>1, <3>1
    <3>2. CASE m # k
      <4>1. s[k - 1] \in Before(s, m)
        BY <3>2
      <4> QED
        BY <1>1, <2>2, <4>1
    <3> QED
      BY <3>1, <3>2
  <2>5. n \in S
    <3> HIDE DEF S
    <3>1. \A k \in 0 .. n : k \in S
      BY <2>3, <2>4, InductionUpTo
    <3> QED
      BY <3>1
  <2> QED
    BY <1>3, <2>1, <2>5
<1> QED
  BY <1>2, <1>3

\* PastCut agrees with FirstKept, for any flow of the schema's shape whose edges lead
\* to nodes of it: primary exits that go round in circles included.
LEMMA EdgeLedPast ==
  ASSUME NEW f, NEW ch, FlowShape(f), TargetsOK(f), NEW id \in Ids(f)
  PROVE  PastCut(f, ch)[id] = FirstKept(f, ch, id)
<1> DEFINE n == Cardinality(Ids(f)) + 1
<1>1. IsFiniteSet(Ids(f)) /\ n \in Nat
  BY IdsFinite, FS_CardinalityType DEF FlowShape
<1>2. PICK s : /\ Steps(f, ch, id, n, s)
               /\ FirstKept(f, ch, id) = IF s[n] \in Cut(f, ch) THEN None ELSE s[n]
  BY FirstKeptWalks
<1>3. PICK w : w = Way(f, ch, w) /\ PastCut(f, ch) = w[{}]
  BY <1>1, PastCutWalks
<1>4. PICK m \in 0 .. n : Ends(f, ch, s, m) /\ \A k \in 0 .. m - 1 : ~Ends(f, ch, s, k)
  BY <1>1, <1>2, WalkHasEnd
<1> HIDE DEF n
<1>5. Before(s, m) \in SUBSET Cut(f, ch) /\ w[{}][id] = w[Before(s, m)][s[m]]
  BY <1>1, <1>2, <1>3, <1>4, WalksAlike
<1>6. /\ s[m] \notin Cut(f, ch) => s[n] = s[m]
      /\ s[m] \in Cut(f, ch) => s[m] \in Before(s, m) /\ s[n] \in Cut(f, ch)
  BY <1>1, <1>2, <1>4, <1>5, WalkStays
<1>7. s[m] \in Ids(f) \cup {None}
  BY <1>2, <1>4 DEF Steps
<1>8. w[Before(s, m)][s[m]] = IF s[m] \notin Cut(f, ch) THEN s[m]
                              ELSE IF s[m] \in Before(s, m) THEN None
                              ELSE w[Before(s, m) \cup {s[m]}][PrimaryExit(NodeAt(f, s[m]))]
  <2>1. Before(s, m) \in SUBSET Ids(f)
    BY <1>5, CutIds
  <2>2. w[Before(s, m)] = Way(f, ch, w)[Before(s, m)]
    BY <1>3
  <2> QED
    BY <1>7, <2>1, <2>2 DEF Way
<1> QED
  BY <1>2, <1>3, <1>5, <1>6, <1>8

\* pruneFlowForChannel, for every flow the schema accepts: each edge of the pruned
\* flow leads to the first node of the channel that walking the primary exits of cut
\* nodes reaches, and nowhere when none is reached within as many nodes as there are.
THEOREM LeadsPast == PruneLeadsPast
  BY EdgeLedPast DEF PruneLeadsPast, LedPast, Valid

-----------------------------------------------------------------------------
(* PruneStaysValid                                                           *)

LEMMA ListMade ==
  ASSUME NEW k \in Nat, NEW s, s = [i \in 1 .. k |-> s[i]]
  PROVE  IsList(s) /\ Len(s) = k
<1>1. s \in [1 .. k -> Listed(s)]
  BY DEF Listed
<1>2. s \in Seq(Listed(s)) /\ Len(s) = k
  BY <1>1
<1> QED
  BY <1>2 DEF IsList, Listed

\* What At picks: q tells from where each element of ys comes.
Picks(xs, P, i, ys, q) ==
  /\ ys \in Seq(Listed(xs)) /\ q \in Seq(P \cap (1 .. i)) /\ Len(ys) = Len(q)
  /\ \A j \in DOMAIN q : ys[j] = xs[q[j]]
  /\ \A j, k \in DOMAIN q : q[j] = q[k] => j = k
  /\ \A p \in P \cap (1 .. i) : \E j \in DOMAIN q : q[j] = p

\* One more position.
LEMMA PicksOn ==
  ASSUME NEW xs, IsList(xs), NEW P, NEW i \in 1 .. Len(xs), NEW ys, NEW q, Picks(xs, P, i - 1, ys, q)
  PROVE  \E r : Picks(xs, P, i, IF i \in P THEN Append(ys, xs[i]) ELSE ys, r)
<1>0. Len(xs) \in Nat /\ xs[i] \in Listed(xs) /\ 1 .. i = (1 .. i - 1) \cup {i} /\ i \notin 1 .. i - 1
  BY Lists DEF Listed
<1>1. CASE i \in P
  <2> DEFINE r == Append(q, i)
             zs == Append(ys, xs[i])
             k  == Len(q) + 1
  <2>1. q \in Seq(P \cap (1 .. i)) /\ Len(ys) = Len(q) /\ ys \in Seq(Listed(xs)) /\ Len(q) \in Nat
    BY <1>0 DEF Picks
  <2>2. /\ r \in Seq(P \cap (1 .. i)) /\ zs \in Seq(Listed(xs)) /\ Len(zs) = Len(r)
        /\ DOMAIN r = (DOMAIN q) \cup {k} /\ k \notin DOMAIN q
        /\ r[k] = i /\ zs[k] = xs[i]
        /\ \A j \in DOMAIN q : r[j] = q[j] /\ zs[j] = ys[j]
    BY <1>0, <1>1, <2>1
  <2>3. \A j \in DOMAIN q : q[j] \in P /\ q[j] \in 1 .. i - 1
    BY DEF Picks
  <2> HIDE DEF r, zs, k
  <2>4. \A j \in DOMAIN r : zs[j] = xs[r[j]]
    BY <2>2 DEF Picks
  <2>5. \A j, m \in DOMAIN r : r[j] = r[m] => j = m
    <3>1. \A j, m \in DOMAIN q : q[j] = q[m] => j = m
      BY DEF Picks
    <3>2. \A j \in DOMAIN q : q[j] # i
      BY <1>0, <2>3
    <3> QED
      BY <2>2, <3>1, <3>2
  <2>6. \A p \in P \cap (1 .. i) : \E j \in DOMAIN r : r[j] = p
    BY <1>0, <2>2 DEF Picks
  <2>7. Picks(xs, P, i, zs, r)
    BY <2>2, <2>4, <2>5, <2>6 DEF Picks
  <2> QED
    BY <1>1, <2>7 DEF zs
<1>2. CASE i \notin P
  <2>1. P \cap (1 .. i) = P \cap (1 .. i - 1)
    BY <1>0, <1>2
  <2>2. Picks(xs, P, i, ys, q)
    BY <2>1 DEF Picks
  <2> QED
    BY <1>2, <2>2
<1> QED
  BY <1>1, <1>2

\* At keeps exactly the elements at the positions P.
LEMMA AtPicks ==
  ASSUME NEW xs, IsList(xs), NEW P
  PROVE  \E q : Picks(xs, P, Len(xs), At(xs, P), q)
<1>a. PICK n \in Nat : n = Len(xs)
  BY Lists
<1> DEFINE X == Seq(Listed(xs))
           B(u) == [i \in 0 .. n |-> IF i = 0 THEN <<>>
                                     ELSE IF i \in P THEN Append(u[i - 1], xs[i]) ELSE u[i - 1]]
           g == [i \in 1 .. n |-> [x \in X |-> IF i \in P THEN Append(x, xs[i]) ELSE x]]
<1>0. \A i \in 1 .. n : xs[i] \in Listed(xs)
  BY <1>a, Lists DEF Listed
<1>1. g \in [1 .. n -> [X -> X]]
  <2>1. \A i \in 1 .. n : \A x \in X : (IF i \in P THEN Append(x, xs[i]) ELSE x) \in X
    BY <1>0
  <2> HIDE DEF X
  <2> QED
    BY <2>1
<1>2. PICK r \in [0 .. n -> X] : r[0] = <<>> /\ \A i \in 1 .. n : r[i] = g[i][r[i - 1]]
  <2>1. <<>> \in X
    OBVIOUS
  <2> HIDE DEF g, X
  <2>2. Runs(n, X, <<>>, g)
    BY <1>1, <2>1, Recursion
  <2> QED
    BY <2>2 DEF Runs
<1>3. r = B(r)
  <2>1. \A i \in 1 .. n : i - 1 \in 0 .. n /\ i # 0
    BY <1>0
  <2>2. \A i \in 1 .. n : r[i] = IF i \in P THEN Append(r[i - 1], xs[i]) ELSE r[i - 1]
    BY <1>2, <2>1
  <2>3. \A i \in 0 .. n : i # 0 => i \in 1 .. n
    BY <1>0
  <2>4. \A i \in 0 .. n : r[i] = B(r)[i]
    BY <1>2, <2>2, <2>3
  <2>5. r = [i \in 0 .. n |-> r[i]] /\ B(r) = [i \in 0 .. n |-> B(r)[i]]
    BY <1>2
  <2> HIDE DEF B
  <2> QED
    BY <2>4, <2>5
<1> DEFINE u == CHOOSE v : v = B(v)
<1>4. u = B(u)
  BY <1>3
<1>5. At(xs, P) = u[n]
  BY <1>a DEF At
<1> HIDE DEF u
<1>6. u[0] = <<>> /\ \A i \in 1 .. n : u[i] = IF i \in P THEN Append(u[i - 1], xs[i]) ELSE u[i - 1]
  <2>1. \A i \in 1 .. n : i \in 0 .. n /\ i # 0
    BY <1>0
  <2>2. 0 \in 0 .. n
    BY <1>0
  <2> QED
    BY <1>4, <2>1, <2>2
<1> DEFINE S == {i \in 0 .. n : \E q : Picks(xs, P, i, u[i], q)}
<1>7. 0 \in S
  <2>1. Picks(xs, P, 0, <<>>, <<>>)
    BY DEF Picks
  <2>2. 0 \in 0 .. n
    BY <1>0
  <2> QED
    BY <1>6, <2>1, <2>2
<1>8. \A i \in 1 .. n : i - 1 \in S => i \in S
  <2> SUFFICES ASSUME NEW i \in 1 .. n, i - 1 \in S PROVE i \in S
    OBVIOUS
  <2>1. PICK q : Picks(xs, P, i - 1, u[i - 1], q)
    OBVIOUS
  <2>2. \E q2 : Picks(xs, P, i, IF i \in P THEN Append(u[i - 1], xs[i]) ELSE u[i - 1], q2)
    BY <1>a, <2>1, PicksOn
  <2>3. i \in 0 .. n
    BY <1>0
  <2> QED
    BY <1>6, <2>2, <2>3
<1>9. n \in S
  <2> HIDE DEF S
  <2>1. \A i \in 0 .. n : i \in S
    BY <1>0, <1>7, <1>8, InductionUpTo
  <2> QED
    BY <2>1, <1>0
<1> QED
  BY <1>a, <1>5, <1>9

\* Leading edges on changes where they lead and nothing else.
LedRight(past, xs, ys) ==
  /\ IsList(ys) /\ Len(ys) = Len(xs) /\ DOMAIN ys = DOMAIN xs
  /\ \A i \in DOMAIN xs : /\ DOMAIN ys[i] = DOMAIN xs[i]
                          /\ ys[i].to = past[xs[i].to] /\ ys[i].name = xs[i].name

LEMMA LedEdges ==
  ASSUME NEW xs, IsList(xs), \A i \in DOMAIN xs : EdgeShape(xs[i]), NEW past
  PROVE  LedRight(past, xs, Led(past, xs))
<1> DEFINE ys == Led(past, xs)
<1>1. Len(xs) \in Nat /\ DOMAIN xs = 1 .. Len(xs)
  BY Lists
<1>2. ys = [i \in 1 .. Len(xs) |-> [xs[i] EXCEPT !.to = past[@]]]
  BY <1>1 DEF Led
<1>3. IsList(ys) /\ Len(ys) = Len(xs)
  <2>1. ys = [i \in 1 .. Len(xs) |-> ys[i]]
    BY <1>2
  <2> HIDE DEF ys
  <2> QED
    BY <1>1, <2>1, ListMade
<1>4. ASSUME NEW i \in DOMAIN xs
      PROVE  /\ DOMAIN ys[i] = DOMAIN xs[i]
             /\ ys[i].to = past[xs[i].to] /\ ys[i].name = xs[i].name
  <2>1. "to" \in DOMAIN xs[i] /\ "name" \in DOMAIN xs[i]
    BY DEF EdgeShape
  <2>2. ys[i] = [xs[i] EXCEPT !.to = past[xs[i].to]]
    BY <1>1, <1>2
  <2> HIDE DEF ys
  <2> QED
    BY <2>1, <2>2
<1> HIDE DEF ys
<1>5. DOMAIN ys = DOMAIN xs
  BY <1>1, <1>2
<1> QED
  BY <1>3, <1>4, <1>5 DEF LedRight, ys

\* A node with its exits led on is the node in everything else.
LedNode(past, n, m) ==
  /\ m.id = n.id /\ m.kind = n.kind /\ m.objectives = n.objectives
  /\ LedRight(past, n.exits, m.exits)
  /\ NodeShape(m)
  /\ ObjectivesOK(n) => ObjectivesOK(m)
  /\ ConversationOK(n) => ConversationOK(m)
  /\ ExitsOK(n) => ExitsOK(m)

LEMMA NodeLed ==
  ASSUME NEW n, NodeShape(n), NEW past
  PROVE  LedNode(past, n, [n EXCEPT !.exits = Led(past, @)])
<1> DEFINE m == [n EXCEPT !.exits = Led(past, @)]
<1>1. "exits" \in DOMAIN n /\ {"id", "kind", "block", "channels", "objectives", "closing"} \subseteq DOMAIN n
  BY DEF NodeShape
<1>2. /\ m.id = n.id /\ m.kind = n.kind /\ m.objectives = n.objectives /\ m.block = n.block
      /\ m.channels = n.channels /\ m.closing = n.closing /\ m.exits = Led(past, n.exits)
      /\ DOMAIN m = DOMAIN n
  BY <1>1
<1> HIDE DEF m
<1>3. LedRight(past, n.exits, m.exits)
  BY <1>2, LedEdges DEF NodeShape
<1>4. \A i \in DOMAIN m.exits : EdgeShape(m.exits[i])
  BY <1>3 DEF NodeShape, EdgeShape, LedRight
<1>5. NodeShape(m)
  <2>1. IsList(m.exits)
    BY <1>3 DEF LedRight
  <2> QED
    BY <1>2, <1>4, <2>1 DEF NodeShape
<1>6. ObjectivesOK(n) => ObjectivesOK(m)
  BY <1>2 DEF ObjectivesOK
<1>7. ConversationOK(n) => ConversationOK(m)
  BY <1>2, <1>3 DEF ConversationOK, LedRight
<1>8. ExitsOK(n) => ExitsOK(m)
  <2>1. Len(m.exits) = Len(n.exits) /\ (n.exits = <<>> => m.exits = <<>>)
    <3>1. Len(m.exits) = Len(n.exits) /\ IsList(m.exits) /\ IsList(n.exits)
      BY <1>3 DEF LedRight, NodeShape
    <3>2. \A s : IsList(s) => (s = <<>> <=> Len(s) = 0)
      BY DEF IsList
    <3> QED
      BY <3>1, <3>2
  <2>2. n.kind \in Kinds
    BY DEF NodeShape
  <2>3. CASE n.kind \in {"set_field", "modify_tags", "statement"}
    BY <1>2, <2>1, <2>3 DEF ExitsOK
  <2>4. CASE n.kind = "router"
    BY <1>2, <2>1, <2>4 DEF ExitsOK
  <2>5. CASE n.kind = "handoff"
    BY <1>2, <2>1, <2>5 DEF ExitsOK
  <2>6. CASE n.kind = "stop_responding"
    BY <1>2, <2>1, <2>6 DEF ExitsOK
  <2>7. CASE n.kind \in {"agent", "transfer"}
    BY <1>2, <2>7 DEF ExitsOK
  <2> QED
    BY <2>2, <2>3, <2>4, <2>5, <2>6, <2>7 DEF Kinds
<1> QED
  BY <1>2, <1>3, <1>5, <1>6, <1>7, <1>8 DEF LedNode, m

\* The nodes of the pruned flow g are the kept nodes of f, led on; q tells which.
NodesFrom(f, ch, g, q) ==
  /\ IsList(g.nodes) /\ DOMAIN q = DOMAIN g.nodes
  /\ \A j \in DOMAIN q :
       /\ q[j] \in DOMAIN f.nodes /\ f.nodes[q[j]].id \notin Cut(f, ch)
       /\ g.nodes[j] = [f.nodes[q[j]] EXCEPT !.exits = Led(PastCut(f, ch), @)]
  /\ \A j, k \in DOMAIN q : q[j] = q[k] => j = k
  /\ \A i \in DOMAIN f.nodes : f.nodes[i].id \notin Cut(f, ch) => \E j \in DOMAIN q : q[j] = i

\* Its scenarios are those of f that still lead somewhere, led on.
ScenariosFrom(f, ch, g, q) ==
  /\ IsList(g.scenarios) /\ DOMAIN q = DOMAIN g.scenarios
  /\ \A j \in DOMAIN q :
       /\ q[j] \in DOMAIN f.scenarios
       /\ g.scenarios[j] = Led(PastCut(f, ch), f.scenarios)[q[j]]
       /\ g.scenarios[j].to # None
  /\ \A j, k \in DOMAIN q : q[j] = q[k] => j = k

LEMMA PrunedNodes ==
  ASSUME NEW f, NEW ch, FlowShape(f), Cut(f, ch) # {}
  PROVE  \E q : NodesFrom(f, ch, Prune(f, ch), q)
<1> DEFINE g == Prune(f, ch)
           P == {i \in DOMAIN f.nodes : f.nodes[i].id \notin Cut(f, ch)}
           nodes == At(f.nodes, P)
           past  == PastCut(f, ch)
<1>1. IsList(f.nodes) /\ Len(f.nodes) \in Nat /\ DOMAIN f.nodes = 1 .. Len(f.nodes)
  BY Lists DEF FlowShape
<1>2. PICK q : Picks(f.nodes, P, Len(f.nodes), nodes, q)
  <2> HIDE DEF P
  <2> QED
    BY <1>1, AtPicks
<1>3. P \cap (1 .. Len(f.nodes)) = P
  BY <1>1
<1>4. g.nodes = [i \in DOMAIN nodes |-> [nodes[i] EXCEPT !.exits = Led(past, @)]]
  BY DEF Prune, Kept, FlowShape
<1>5. /\ Len(nodes) \in Nat /\ DOMAIN nodes = 1 .. Len(nodes) /\ DOMAIN q = DOMAIN nodes
      /\ q \in Seq(P)
      /\ \A j \in DOMAIN q : nodes[j] = f.nodes[q[j]]
      /\ \A j, k \in DOMAIN q : q[j] = q[k] => j = k
      /\ \A p \in P : \E j \in DOMAIN q : q[j] = p
  <2> HIDE DEF P, nodes
  <2> QED
    BY <1>2, <1>3 DEF Picks
<1> HIDE DEF g, nodes, past
<1>6. DOMAIN g.nodes = DOMAIN q /\ \A j \in DOMAIN q : g.nodes[j] = [f.nodes[q[j]] EXCEPT !.exits = Led(past, @)]
  <2>1. DOMAIN g.nodes = DOMAIN nodes
    BY <1>4
  <2>2. \A j \in DOMAIN nodes : g.nodes[j] = [nodes[j] EXCEPT !.exits = Led(past, @)]
    BY <1>4
  <2>3. \A j \in DOMAIN nodes : nodes[j] = f.nodes[q[j]]
    BY <1>5
  <2>4. \A j \in DOMAIN nodes : g.nodes[j] = [f.nodes[q[j]] EXCEPT !.exits = Led(past, @)]
    BY <2>2, <2>3, Zenon
  <2> QED
    BY <1>5, <2>1, <2>4
<1>7. IsList(g.nodes)
  <2>1. g.nodes = [i \in 1 .. Len(nodes) |-> g.nodes[i]]
    BY <1>4, <1>5
  <2> QED
    BY <1>5, <2>1, ListMade
<1>8. \A j \in DOMAIN q : q[j] \in P
  <2> HIDE DEF P
  <2> QED
    BY <1>5
<1>9. NodesFrom(f, ch, g, q)
  BY <1>5, <1>6, <1>7, <1>8 DEF NodesFrom, past
<1> QED
  BY <1>9 DEF g

LEMMA PrunedScenarios ==
  ASSUME NEW f, NEW ch, FlowShape(f), Cut(f, ch) # {}
  PROVE  \E q : ScenariosFrom(f, ch, Prune(f, ch), q)
<1> DEFINE g   == Prune(f, ch)
           led == Led(PastCut(f, ch), f.scenarios)
           P   == {i \in DOMAIN led : led[i].to # None}
<1>1. IsList(led) /\ Len(led) \in Nat /\ DOMAIN led = 1 .. Len(led) /\ DOMAIN led = DOMAIN f.scenarios
  BY LedEdges, Lists DEF FlowShape, LedRight
<1>2. PICK q : Picks(led, P, Len(led), At(led, P), q)
  <2> HIDE DEF P, led
  <2> QED
    BY <1>1, AtPicks
<1>3. P \cap (1 .. Len(led)) = P
  BY <1>1
<1>4. g.scenarios = At(led, P)
  BY DEF Prune, Reachable, FlowShape
<1> HIDE DEF g
<1>5. /\ Len(g.scenarios) \in Nat /\ DOMAIN g.scenarios = 1 .. Len(g.scenarios)
      /\ g.scenarios \in Seq(Listed(led))
      /\ DOMAIN q = DOMAIN g.scenarios /\ q \in Seq(P)
      /\ \A j \in DOMAIN q : g.scenarios[j] = led[q[j]]
      /\ \A j, k \in DOMAIN q : q[j] = q[k] => j = k
  <2> HIDE DEF P, led
  <2> QED
    BY <1>2, <1>3, <1>4 DEF Picks
<1>6. IsList(g.scenarios)
  <2>1. g.scenarios = [i \in 1 .. Len(g.scenarios) |-> g.scenarios[i]]
    BY <1>5
  <2> QED
    BY <1>5, <2>1, ListMade
<1>7. \A j \in DOMAIN q : q[j] \in P
  <2> HIDE DEF P
  <2> QED
    BY <1>5
<1>8. \A j \in DOMAIN q : q[j] \in DOMAIN f.scenarios /\ led[q[j]].to # None
  BY <1>1, <1>7
<1>9. ScenariosFrom(f, ch, g, q)
  <2> HIDE DEF P
  <2> QED
    BY <1>5, <1>6, <1>8 DEF ScenariosFrom
<1> QED
  BY <1>9 DEF g

LEMMA PastCutKeeps ==
  ASSUME NEW f, NEW ch, FlowShape(f), NEW id \in Ids(f) \ Cut(f, ch)
  PROVE  PastCut(f, ch)[id] = id
<1>1. PICK w : w = Way(f, ch, w) /\ PastCut(f, ch) = w[{}]
  BY IdsFinite, PastCutWalks DEF FlowShape
<1>2. w[{}] = Way(f, ch, w)[{}]
  BY <1>1
<1>3. Way(f, ch, w)[{}][id] = id
  BY DEF Way
<1> QED
  BY <1>1, <1>2, <1>3

\* Every node of the pruned flow is one of f, its edges led on.
NodeKept(f, ch, m, n) ==
  /\ m.id = n.id /\ m.kind = n.kind /\ m.objectives = n.objectives
  /\ LedRight(PastCut(f, ch), n.exits, m.exits)
  /\ NodeShape(m) /\ ObjectivesOK(m) /\ ConversationOK(m) /\ ExitsOK(m)

LEMMA PrunedNodesKept ==
  ASSUME NEW f, NEW ch, Valid(f), NEW g, NEW q, NodesFrom(f, ch, g, q)
  PROVE  /\ \A j \in DOMAIN g.nodes : NodeKept(f, ch, g.nodes[j], f.nodes[q[j]])
         /\ Ids(g) = Ids(f) \ Cut(f, ch)
<1>1. ASSUME NEW j \in DOMAIN g.nodes
      PROVE  NodeKept(f, ch, g.nodes[j], f.nodes[q[j]])
  <2>1. /\ g.nodes[j] = [f.nodes[q[j]] EXCEPT !.exits = Led(PastCut(f, ch), @)]
        /\ q[j] \in DOMAIN f.nodes
    BY DEF NodesFrom
  <2>2. /\ NodeShape(f.nodes[q[j]])
        /\ ObjectivesOK(f.nodes[q[j]]) /\ ConversationOK(f.nodes[q[j]]) /\ ExitsOK(f.nodes[q[j]])
    BY <2>1 DEF Valid, FlowShape
  <2> DEFINE n == f.nodes[q[j]]
             m == g.nodes[j]
             past == PastCut(f, ch)
  <2>3. m = [n EXCEPT !.exits = Led(past, @)] /\ NodeShape(n)
    BY <2>1, <2>2
  <2> HIDE DEF n, m, past
  <2>4. LedNode(past, n, m)
    BY <2>3, NodeLed
  <2> QED
    BY <2>2, <2>4 DEF LedNode, NodeKept, n, m, past
<1>2. \A j \in DOMAIN g.nodes : g.nodes[j].id = f.nodes[q[j]].id
  BY <1>1 DEF NodeKept
<1>3. Ids(g) \subseteq Ids(f) \ Cut(f, ch)
  <2>1. \A j \in DOMAIN g.nodes : q[j] \in DOMAIN f.nodes /\ f.nodes[q[j]].id \notin Cut(f, ch)
    BY DEF NodesFrom
  <2> QED
    BY <1>2, <2>1 DEF Ids
<1>4. ASSUME NEW id \in Ids(f) \ Cut(f, ch)
      PROVE  id \in Ids(g)
  <2>1. PICK i \in DOMAIN f.nodes : f.nodes[i].id = id
    BY DEF Ids
  <2>2. PICK j \in DOMAIN q : q[j] = i
    BY <2>1 DEF NodesFrom
  <2> QED
    BY <1>2, <2>1, <2>2 DEF NodesFrom, Ids
<1> QED
  BY <1>1, <1>3, <1>4

LEMMA PrunedStays ==
  ASSUME NEW f, NEW ch, Valid(f)
  PROVE  StaysValid(f, ch)
<1> DEFINE g    == Prune(f, ch)
           past == PastCut(f, ch)
<1>0. FlowShape(f) /\ TargetsOK(f) /\ ScenariosOK(f) /\ EntryOK(f)
  BY DEF Valid
<1>1. CASE Cut(f, ch) = {}
  BY <1>0, <1>1 DEF StaysValid, Prune, EntryOK
<1>2. CASE Cut(f, ch) # {}
  <2>1. PICK q : NodesFrom(f, ch, g, q)
    BY <1>0, <1>2, PrunedNodes
  <2>2. PICK t : ScenariosFrom(f, ch, g, t)
    BY <1>0, <1>2, PrunedScenarios
  <2>3. g.entry = past[f.entry] /\ DOMAIN g = DOMAIN f
    BY <1>0, <1>2 DEF Prune, FlowShape
  <2> HIDE DEF g
  <2>4. /\ \A j \in DOMAIN g.nodes : NodeKept(f, ch, g.nodes[j], f.nodes[q[j]])
        /\ Ids(g) = Ids(f) \ Cut(f, ch)
    BY <2>1, PrunedNodesKept
  <2>5. past \in [Ids(f) \cup {None} -> Ids(g) \cup {None}]
    BY <1>0, <2>4, PastCutType
  <2> HIDE DEF past
  <2>6. g.entry \in Ids(g) \cup {None}
    BY <1>0, <2>3, <2>5 DEF EntryOK
  <2>7. TargetsOK(g)
    <3> SUFFICES ASSUME NEW i \in DOMAIN g.nodes, NEW j \in DOMAIN g.nodes[i].exits
                 PROVE  g.nodes[i].exits[j].to \in Ids(g) \cup {None}
      BY DEF TargetsOK
    <3>1. LedRight(past, f.nodes[q[i]].exits, g.nodes[i].exits)
      BY <2>4 DEF NodeKept, past
    <3>2. /\ j \in DOMAIN f.nodes[q[i]].exits
          /\ g.nodes[i].exits[j].to = past[f.nodes[q[i]].exits[j].to]
      BY <3>1 DEF LedRight
    <3>3. f.nodes[q[i]].exits[j].to \in Ids(f) \cup {None}
      BY <1>0, <2>1, <3>2 DEF TargetsOK, NodesFrom
    <3> QED
      BY <2>5, <3>2, <3>3
  <2>8. ASSUME NEW j \in DOMAIN g.scenarios
        PROVE  /\ t[j] \in DOMAIN f.scenarios
               /\ g.scenarios[j].to \in Ids(g)
               /\ g.scenarios[j].name = f.scenarios[t[j]].name
               /\ EdgeShape(g.scenarios[j])
    <3>1. /\ t[j] \in DOMAIN f.scenarios
          /\ g.scenarios[j] = Led(past, f.scenarios)[t[j]]
          /\ g.scenarios[j].to # None
      BY <2>2 DEF ScenariosFrom, past
    <3>2. LedRight(past, f.scenarios, Led(past, f.scenarios))
      BY <1>0, LedEdges DEF FlowShape
    <3>3. /\ g.scenarios[j].to = past[f.scenarios[t[j]].to]
          /\ g.scenarios[j].name = f.scenarios[t[j]].name
          /\ DOMAIN g.scenarios[j] = DOMAIN f.scenarios[t[j]]
      BY <3>1, <3>2 DEF LedRight
    <3>4. f.scenarios[t[j]].to \in Ids(f) /\ EdgeShape(f.scenarios[t[j]])
      BY <1>0, <3>1 DEF ScenariosOK, FlowShape
    <3> QED
      BY <2>5, <3>1, <3>3, <3>4 DEF EdgeShape
  <2>9. ScenariosOK(g)
    <3>1. \A j, k \in DOMAIN g.scenarios : t[j] = t[k] => j = k
      BY <2>2 DEF ScenariosFrom
    <3>2. \A i, m \in DOMAIN f.scenarios :
            Slug(f.scenarios[i].name) = Slug(f.scenarios[m].name) => i = m
      BY <1>0 DEF ScenariosOK, Distinct
    <3>3. \A j, k \in DOMAIN g.scenarios :
            Slug(g.scenarios[j].name) = Slug(g.scenarios[k].name) => j = k
      BY <2>8, <3>1, <3>2
    <3> QED
      BY <2>8, <3>3 DEF ScenariosOK, Distinct
  <2>10. ASSUME f.entry \notin Cut(f, ch)
         PROVE  Valid(g)
    <3>1. g.entry = f.entry /\ f.entry \in Ids(g)
      BY <1>0, <2>3, <2>4, <2>10, PastCutKeeps DEF EntryOK, past
    <3>2. FlowShape(g)
      <4>1. g.nodes # <<>>
        BY <3>1 DEF Ids
      <4>2. \A j \in DOMAIN g.nodes : NodeShape(g.nodes[j])
        BY <2>4 DEF NodeKept
      <4>3. IsList(g.nodes) /\ IsList(g.scenarios)
        BY <2>1, <2>2 DEF NodesFrom, ScenariosFrom
      <4> QED
        BY <1>0, <2>3, <2>8, <4>1, <4>2, <4>3 DEF FlowShape
    <3>3. \A i, m \in DOMAIN f.nodes : f.nodes[i].id = f.nodes[m].id => i = m
      BY DEF Valid, Distinct
    <3>4. \A j \in DOMAIN g.nodes : q[j] \in DOMAIN f.nodes /\ g.nodes[j].id = f.nodes[q[j]].id
      BY <2>1, <2>4 DEF NodesFrom, NodeKept
    <3>5. Distinct([j \in DOMAIN g.nodes |-> g.nodes[j].id])
      <4>1. \A j, k \in DOMAIN g.nodes : q[j] = q[k] => j = k
        BY <2>1 DEF NodesFrom
      <4>2. \A j, k \in DOMAIN g.nodes : g.nodes[j].id = g.nodes[k].id => j = k
        BY <3>3, <3>4, <4>1
      <4> QED
        BY <4>2 DEF Distinct
    <3>6. EntryOK(g)
      <4>1. PICK j \in DOMAIN g.nodes : g.nodes[j] = NodeAt(g, f.entry) /\ g.nodes[j].id = f.entry
        BY <3>1, NodeFound
      <4>2. PICK i \in DOMAIN f.nodes : f.nodes[i] = NodeAt(f, f.entry) /\ f.nodes[i].id = f.entry
        BY <1>0, NodeFound DEF EntryOK
      <4>3. q[j] = i
        BY <3>3, <3>4, <4>1, <4>2
      <4>4. NodeAt(g, f.entry).kind = NodeAt(f, f.entry).kind
        BY <2>4, <4>1, <4>2, <4>3 DEF NodeKept
      <4> QED
        BY <1>0, <3>1, <4>4 DEF EntryOK
    <3>7. \A j \in DOMAIN g.nodes :
            ObjectivesOK(g.nodes[j]) /\ ConversationOK(g.nodes[j]) /\ ExitsOK(g.nodes[j])
      BY <2>4 DEF NodeKept
    <3> QED
      BY <2>7, <2>9, <3>2, <3>5, <3>6, <3>7 DEF Valid
  <2> QED
    BY <2>6, <2>7, <2>9, <2>10 DEF StaysValid, g
<1> QED
  BY <1>1, <1>2

\* pruneFlowForChannel keeps a flow one the schema accepts: whatever is cut, no edge,
\* entry or scenario is left dangling, and where the entry is left the pruned flow
\* passes every check of the schema that the flow itself passed.
THEOREM PrunedStaysValid == PruneStaysValid
  BY PrunedStays DEF PruneStaysValid

-----------------------------------------------------------------------------
(* The flows conversations run                                               *)

\* What pruning leaves of a flow the schema accepts, when its entry may be cut too.
FlowFacts(f) ==
  /\ TargetsOK(f) /\ f.entry \in Ids(f) \cup {None}
  /\ \A i \in DOMAIN f.nodes :
       NodeShape(f.nodes[i]) /\ TextShape(f.nodes[i]) /\ ObjectivesOK(f.nodes[i])

\* A node of a text flow has the fields the text runner reads from a node of the config.
TextNode(m, n) ==
  /\ m.id = n.id /\ m.kind = n.kind /\ m.to = n.to
  /\ NodeShape(m) /\ TextShape(m) /\ ObjectivesOK(m)

LEMMA TextNodes ==
  ASSUME NEW c \in Config, HasFlow(c)
  PROVE  \A j \in DOMAIN TextFlow(c).nodes :
           \E i \in DOMAIN FlowOf[c].nodes : TextNode(TextFlow(c).nodes[j], FlowOf[c].nodes[i])
<1> DEFINE f == FlowOf[c]
           g == TextFlow(c)
<1>1. Valid(f) /\ FlowShape(f) /\ \A i \in DOMAIN f.nodes : TextShape(f.nodes[i])
  BY Shape DEF HasFlow, Valid
<1>2. CASE Cut(f, "text") = {}
  <2>1. g = f
    BY <1>2 DEF TextFlow, Prune
  <2>2. \A i \in DOMAIN f.nodes : TextNode(f.nodes[i], f.nodes[i])
    BY <1>1 DEF TextNode, Valid, FlowShape
  <2> QED
    BY <2>1, <2>2
<1>3. CASE Cut(f, "text") # {}
  <2>1. PICK q : NodesFrom(f, "text", g, q)
    BY <1>1, <1>3, PrunedNodes DEF TextFlow
  <2>2. \A j \in DOMAIN g.nodes : NodeKept(f, "text", g.nodes[j], f.nodes[q[j]])
    BY <1>1, <2>1, PrunedNodesKept
  <2>3. ASSUME NEW j \in DOMAIN g.nodes
        PROVE  q[j] \in DOMAIN f.nodes /\ TextNode(g.nodes[j], f.nodes[q[j]])
    <3> DEFINE m == g.nodes[j]
               n == f.nodes[q[j]]
    <3>1. q[j] \in DOMAIN f.nodes /\ m = [n EXCEPT !.exits = Led(PastCut(f, "text"), @)]
      BY <2>1 DEF NodesFrom
    <3>2. TextShape(n)
      BY <1>1, <3>1
    <3>3. m.id = n.id /\ m.kind = n.kind /\ m.objectives = n.objectives /\ NodeShape(m) /\ ObjectivesOK(m)
      BY <2>2 DEF NodeKept
    <3>4. {"writes", "adds", "removes", "to"} \subseteq DOMAIN n
      BY <3>2 DEF TextShape
    <3> HIDE DEF m, n
    <3>5. DOMAIN m = DOMAIN n /\ m.writes = n.writes /\ m.adds = n.adds /\ m.to = n.to
      BY <3>1, <3>4
    <3>6. TextShape(m)
      BY <3>2, <3>3, <3>5 DEF TextShape
    <3> QED
      BY <3>1, <3>3, <3>5, <3>6 DEF TextNode, m, n
  <2> QED
    BY <2>3
<1> QED
  BY <1>2, <1>3

LEMMA TextFlowFacts ==
  ASSUME NEW c \in Config, HasFlow(c)
  PROVE  FlowFacts(TextFlow(c))
<1>1. Valid(FlowOf[c])
  BY Shape DEF HasFlow
<1>2. StaysValid(FlowOf[c], "text")
  BY <1>1, PrunedStays
<1> QED
  BY <1>2, TextNodes DEF StaysValid, FlowFacts, TextFlow, TextNode

\* Where an exit of f may lead.
ExitOn(f, id) == id = None \/ (id \in Ids(f) /\ LedBack(f, id))

NodeFacts(f, n) ==
  /\ NodeShape(n) /\ TextShape(n) /\ ObjectivesOK(n)
  /\ \A j \in DOMAIN n.exits : ExitOn(f, n.exits[j].to)

LEMMA NodeAtFacts ==
  ASSUME NEW f, FlowFacts(f), NEW id \in Ids(f)
  PROVE  id # None /\ NodeAt(f, id).id = id /\ NodeFacts(f, NodeAt(f, id))
<1>1. PICK i \in DOMAIN f.nodes : f.nodes[i] = NodeAt(f, id) /\ f.nodes[i].id = id
  BY NodeFound
<1>2. NodeShape(f.nodes[i]) /\ TextShape(f.nodes[i]) /\ ObjectivesOK(f.nodes[i])
  BY <1>1 DEF FlowFacts
<1>3. \A j \in DOMAIN f.nodes[i].exits : ExitOn(f, f.nodes[i].exits[j].to)
  BY <1>1 DEF FlowFacts, TargetsOK, ExitOn, LedBack
<1>4. id # None
  BY <1>1, <1>2 DEF NodeShape
<1> QED
  BY <1>1, <1>2, <1>3, <1>4 DEF NodeFacts

-----------------------------------------------------------------------------
(* What the steps of a turn do to their copy of the row                      *)

RowFields == {"status", "agent", "version", "node", "armed", "progress", "known", "tags",
              "turns", "here", "condensed"}

Answers == [met : BOOLEAN, attempts : Nat, skipped : BOOLEAN]

\* The progress is about the objectives of the node that is armed.
Armed(r, f) ==
  /\ r.armed = None => r.progress = <<>>
  /\ r.armed # None => /\ r.armed \in Ids(f)
                       /\ r.progress \in [DOMAIN NodeAt(f, r.armed).objectives -> Answers]

RowTyped(r, f) ==
  DOMAIN r = RowFields /\ r.known \subseteq Field /\ r.tags \subseteq Tag /\ Armed(r, f)

\* What only the end of a turn writes.
Same(r, s) ==
  /\ s.status = r.status /\ s.agent = r.agent /\ s.version = r.version /\ s.node = r.node
  /\ s.turns = r.turns /\ s.here = r.here /\ s.condensed = r.condensed

LEMMA ArmOK ==
  ASSUME NEW f, FlowFacts(f), NEW id \in Ids(f), NEW r, RowTyped(r, f)
  PROVE  LET s == Arm(r, NodeAt(f, id))
         IN RowTyped(s, f) /\ Same(r, s) /\ s.armed = id /\ s.known = r.known /\ s.tags = r.tags
<1> DEFINE n == NodeAt(f, id)
           s == Arm(r, n)
           p == [i \in DOMAIN n.objectives |->
                   [met |-> n.objectives[i].parts = <<>> /\ n.objectives[i].ifKnown
                              /\ n.objectives[i].field \in r.known,
                    attempts |-> 0, skipped |-> n.objectives[i].parts # <<>>]]
<1>1. id # None /\ n.id = id /\ NodeFacts(f, n)
  BY NodeAtFacts
<1>2. \A i \in DOMAIN n.objectives : p[i] \in Answers
  <2> SUFFICES ASSUME NEW i \in DOMAIN n.objectives PROVE p[i] \in Answers
    OBVIOUS
  <2> DEFINE m == n.objectives[i].parts = <<>> /\ n.objectives[i].ifKnown /\ n.objectives[i].field \in r.known
             k == n.objectives[i].parts # <<>>
  <2>1. m \in BOOLEAN /\ k \in BOOLEAN
    OBVIOUS
  <2>2. p[i] = [met |-> m, attempts |-> 0, skipped |-> k]
    OBVIOUS
  <2> HIDE DEF m, k, p, n
  <2> QED
    BY <2>1, <2>2 DEF Answers
<1>3. p \in [DOMAIN n.objectives -> Answers]
  <2>1. p = [i \in DOMAIN n.objectives |-> p[i]]
    OBVIOUS
  <2> HIDE DEF p
  <2> QED
    BY <1>2, <2>1
<1>4. s = [r EXCEPT !.armed = n.id, !.progress = p]
  BY DEF Arm
<1> HIDE DEF n, s, p
<1>5. DOMAIN r = RowFields
  BY DEF RowTyped
<1>6. /\ DOMAIN s = RowFields /\ s.armed = id /\ s.progress = p
      /\ s.known = r.known /\ s.tags = r.tags /\ Same(r, s)
  BY <1>1, <1>4, <1>5 DEF RowFields, Same
<1>7. RowTyped(s, f)
  BY <1>1, <1>3, <1>6 DEF RowTyped, Armed, n
<1> QED
  BY <1>6, <1>7 DEF s, n

LEMMA ExitOfOK ==
  ASSUME NEW f, FlowFacts(f), NEW id \in Ids(f), NEW tags
  PROVE  ExitOn(f, ExitOf(NodeAt(f, id), tags))
<1> DEFINE n == NodeAt(f, id)
           open == {i \in DOMAIN n.exits : Allowed(n.exits[i], tags)}
<1>1. NodeFacts(f, n)
  BY NodeAtFacts
<1>2. CASE open = {}
  BY <1>2 DEF ExitOf, ExitOn
<1>3. CASE open # {}
  <2>1. open \subseteq Nat
    BY <1>1, Lists DEF NodeFacts, NodeShape
  <2>2. \E j \in open : \A k \in open : j <= k
    BY <1>3, <2>1, LeastNumber
  <2>3. PICK j \in open : j = Min(open)
    BY <2>2 DEF Min
  <2>4. ExitOf(n, tags) = n.exits[j].to
    BY <1>3, <2>3 DEF ExitOf
  <2> QED
    BY <1>1, <2>4 DEF NodeFacts
<1> QED
  BY <1>2, <1>3

-----------------------------------------------------------------------------
(* The ways out of a node                                                    *)

WayKinds == {"on", "end", "agent", "handoff", "unsupported"}

\* A way x of a turn that began with copy r: it has come to a node an exit leads to.
WayOK(f, r, x) ==
  /\ DOMAIN x = {"kind", "at", "r", "said"}
  /\ x.kind \in WayKinds /\ x.said \in BOOLEAN
  /\ ExitOn(f, x.at)
  /\ x.kind \in {"agent", "handoff", "unsupported"} => x.at # None
  /\ x.kind = "handoff" => NodeAt(f, x.at).kind = "handoff"
  /\ RowTyped(x.r, f) /\ Same(r, x.r)

WaysOK(f, r, X) == \A x \in X : WayOK(f, r, x)

\* A change of the copy on a way that leaves the row as typed as it was.
LEMMA WayOn ==
  ASSUME NEW f, NEW r, NEW x, WayOK(f, r, x), NEW to, ExitOn(f, to), NEW s, RowTyped(s, f), Same(x.r, s),
         NEW said \in BOOLEAN, NEW y, y = [x EXCEPT !.at = to, !.r = s, !.said = said], x.kind = "on"
  PROVE  WayOK(f, r, y)
<1>1. DOMAIN y = {"kind", "at", "r", "said"} /\ y.kind = "on" /\ y.at = to /\ y.r = s /\ y.said = said
  BY DEF WayOK
<1>2. Same(r, s)
  BY DEF WayOK, Same
<1> QED
  BY <1>1, <1>2 DEF WayOK, WayKinds

\* A way that stops where it is.
LEMMA WayStops ==
  ASSUME NEW f, NEW r, NEW x, WayOK(f, r, x),
         NEW k \in WayKinds \ {"on"}, k # "end" => x.at # None,
         k = "handoff" => NodeAt(f, x.at).kind = "handoff"
  PROVE  WayOK(f, r, [x EXCEPT !.kind = k]) /\ [x EXCEPT !.kind = k].kind # "on"
<1> DEFINE y == [x EXCEPT !.kind = k]
<1>1. DOMAIN y = {"kind", "at", "r", "said"} /\ y.kind = k /\ y.at = x.at /\ y.r = x.r /\ y.said = x.said
  BY DEF WayOK
<1> HIDE DEF y
<1>2. WayOK(f, r, y) /\ y.kind # "on"
  BY <1>1 DEF WayOK, WayKinds
<1> QED
  BY <1>2 DEF y

\* One turn of resolveTarget's loop; the sixth is the last.
LEMMA HopOK ==
  ASSUME NEW f, FlowFacts(f), NEW r, NEW x, WayOK(f, r, x), NEW h, NEW y \in Hop(f, x, h)
  PROVE  WayOK(f, r, y) /\ (h = 6 => y.kind # "on")
<1> DEFINE n    == NodeAt(f, x.at)
           next == IF n.exits = <<>> THEN None ELSE n.exits[1].to
           open == {i \in DOMAIN n.exits : Allowed(n.exits[i], x.r.tags)}
<1>1. CASE x.kind # "on"
  <2>1. y = x
    BY <1>1 DEF Hop
  <2> QED
    BY <1>1, <2>1
<1>2. CASE x.kind = "on" /\ x.at = None
  <2>1. y = [x EXCEPT !.kind = "end"]
    BY <1>2 DEF Hop
  <2> QED
    BY <2>1, WayStops DEF WayKinds
<1>3. CASE x.kind = "on" /\ x.at # None
  <2>1. x.at \in Ids(f)
    BY <1>3 DEF WayOK, ExitOn
  <2>2. NodeFacts(f, n)
    BY <2>1, NodeAtFacts
  <2>3. ExitOn(f, next)
    <3>1. CASE n.exits = <<>>
      BY <3>1 DEF ExitOn
    <3>2. CASE n.exits # <<>>
      <4>1. 1 \in DOMAIN n.exits
        <5>1. IsList(n.exits)
          BY <2>2 DEF NodeFacts, NodeShape
        <5>2. \A s : IsList(s) /\ s # <<>> => 1 \in DOMAIN s
          BY DEF IsList
        <5> QED
          BY <3>2, <5>1, <5>2
      <4> QED
        BY <2>2, <3>2, <4>1 DEF NodeFacts
    <3> QED
      BY <3>1, <3>2
  <2>4. /\ DOMAIN x = {"kind", "at", "r", "said"} /\ RowTyped(x.r, f) /\ DOMAIN x.r = RowFields
        /\ x.said \in BOOLEAN
    BY DEF WayOK, RowTyped
  <2>5. CASE n.kind \in {"agent", "stop_responding"}
    <3>1. y = [x EXCEPT !.kind = "agent"]
      BY <1>3, <2>5 DEF Hop
    <3> QED
      BY <1>3, <3>1, WayStops DEF WayKinds
  <2>6. CASE n.kind \notin {"agent", "stop_responding"} /\ h = 6
    <3>1. y = [x EXCEPT !.kind = "end"]
      BY <1>3, <2>6 DEF Hop
    <3> QED
      BY <3>1, WayStops DEF WayKinds
  <2>7. CASE n.kind \notin {"agent", "stop_responding"} /\ h # 6
    <3>1. CASE n.kind = "handoff"
      <4>1. y = [x EXCEPT !.kind = "handoff"]
        BY <1>3, <2>7, <3>1 DEF Hop
      <4> QED
        BY <1>3, <3>1, <4>1, WayStops DEF WayKinds
    <3>2. CASE n.kind = "transfer"
      <4>1. y = [x EXCEPT !.kind = "unsupported"]
        BY <1>3, <2>7, <3>2 DEF Hop
      <4> QED
        BY <1>3, <4>1, WayStops DEF WayKinds
    <3>3. CASE n.kind = "set_field"
      <4> DEFINE s == [x.r EXCEPT !.known = x.r.known \cup n.writes]
      <4>1. y = [[x EXCEPT !.at = next] EXCEPT !.r.known = @ \cup n.writes]
        BY <1>3, <2>7, <3>3 DEF Hop
      <4>2. y = [x EXCEPT !.at = next, !.r = s, !.said = x.said]
        BY <2>4, <4>1
      <4>3. RowTyped(s, f) /\ Same(x.r, s)
        BY <2>2, <2>4 DEF RowTyped, Same, RowFields, Armed, NodeFacts, TextShape
      <4> HIDE DEF s, next, n
      <4> QED
        BY <1>3, <2>3, <2>4, <2>7, <4>2, <4>3, WayOn
    <3>4. CASE n.kind = "modify_tags"
      <4> DEFINE s == [x.r EXCEPT !.tags = (x.r.tags \cup n.adds) \ n.removes]
      <4>1. y = [[x EXCEPT !.at = next] EXCEPT !.r.tags = (@ \cup n.adds) \ n.removes]
        BY <1>3, <2>7, <3>4 DEF Hop
      <4>2. y = [x EXCEPT !.at = next, !.r = s, !.said = x.said]
        BY <2>4, <4>1
      <4>3. RowTyped(s, f) /\ Same(x.r, s)
        BY <2>2, <2>4 DEF RowTyped, Same, RowFields, Armed, NodeFacts, TextShape
      <4> HIDE DEF s, next, n
      <4> QED
        BY <1>3, <2>3, <2>4, <2>7, <4>2, <4>3, WayOn
    <3>5. CASE n.kind = "statement"
      <4>1. y = [[x EXCEPT !.at = next] EXCEPT !.said = TRUE]
        BY <1>3, <2>7, <3>5 DEF Hop
      <4>2. y = [x EXCEPT !.at = next, !.r = x.r, !.said = TRUE]
        BY <2>4, <4>1
      <4>3. RowTyped(x.r, f) /\ Same(x.r, x.r)
        BY <2>4 DEF Same
      <4> HIDE DEF next, n
      <4> QED
        BY <1>3, <2>3, <2>4, <2>7, <4>2, <4>3, WayOn
    <3>6. CASE n.kind = "router"
      <4>1. y \in {[x EXCEPT !.at = n.exits[i].to] : i \in IF open = {} THEN DOMAIN n.exits ELSE open}
        BY <1>3, <2>7, <3>6 DEF Hop
      <4>2. PICK i \in DOMAIN n.exits : y = [x EXCEPT !.at = n.exits[i].to]
        BY <4>1
      <4> DEFINE to == n.exits[i].to
      <4>3. ExitOn(f, to)
        BY <2>2 DEF NodeFacts
      <4>4. y = [x EXCEPT !.at = to, !.r = x.r, !.said = x.said]
        BY <2>4, <4>2
      <4>5. RowTyped(x.r, f) /\ Same(x.r, x.r)
        BY <2>4 DEF Same
      <4> HIDE DEF to, n
      <4> QED
        BY <1>3, <2>4, <2>7, <4>3, <4>4, <4>5, WayOn
    <3>7. n.kind \in Kinds
      BY <2>2 DEF NodeFacts, NodeShape
    <3> QED
      BY <2>7, <3>1, <3>2, <3>3, <3>4, <3>5, <3>6, <3>7 DEF Kinds
  <2> QED
    BY <2>5, <2>6, <2>7
<1> QED
  BY <1>1, <1>2, <1>3

LEMMA HopsOK ==
  ASSUME NEW f, FlowFacts(f), NEW r, NEW X, WaysOK(f, r, X), NEW h
  PROVE  /\ WaysOK(f, r, Hops(f, X, h))
         /\ h = 6 => \A y \in Hops(f, X, h) : y.kind # "on"
<1>1. ASSUME NEW y \in Hops(f, X, h)
      PROVE  WayOK(f, r, y) /\ (h = 6 => y.kind # "on")
  <2>1. PICK x \in X : y \in Hop(f, x, h)
    BY DEF Hops
  <2>2. WayOK(f, r, x)
    BY DEF WaysOK
  <2> QED
    BY <2>1, <2>2, HopOK
<1> QED
  BY <1>1 DEF WaysOK

\* resolveTarget is done within its six turns, and leaves the row as typed as it was.
LEMMA ResolveOK ==
  ASSUME NEW f, FlowFacts(f), NEW r, NEW s, RowTyped(s, f), Same(r, s), NEW to, ExitOn(f, to)
  PROVE  WaysOK(f, r, Resolve(f, to, s)) /\ \A y \in Resolve(f, to, s) : y.kind # "on"
<1> DEFINE X1 == Hops(f, {[kind |-> "on", at |-> to, r |-> s, said |-> FALSE]}, 1)
           X2 == Hops(f, X1, 2)
           X3 == Hops(f, X2, 3)
           X4 == Hops(f, X3, 4)
           X5 == Hops(f, X4, 5)
<1>0. WaysOK(f, r, {[kind |-> "on", at |-> to, r |-> s, said |-> FALSE]})
  <2> DEFINE x == [kind |-> "on", at |-> to, r |-> s, said |-> FALSE]
  <2>1. /\ DOMAIN x = {"kind", "at", "r", "said"} /\ x.kind = "on" /\ x.at = to /\ x.r = s
        /\ x.said = FALSE
    OBVIOUS
  <2> HIDE DEF x
  <2>2. WayOK(f, r, x)
    BY <2>1 DEF WayOK, WayKinds
  <2>3. WaysOK(f, r, {x})
    BY <2>2 DEF WaysOK
  <2> QED
    BY <2>3 DEF x
<1>1. WaysOK(f, r, X1)
  BY <1>0, HopsOK
<1>6. Resolve(f, to, s) = Hops(f, X5, 6)
  BY DEF Resolve
<1> HIDE DEF X1
<1>2. WaysOK(f, r, X2)
  BY <1>1, HopsOK
<1> HIDE DEF X2
<1>3. WaysOK(f, r, X3)
  BY <1>2, HopsOK
<1> HIDE DEF X3
<1>4. WaysOK(f, r, X4)
  BY <1>3, HopsOK
<1> HIDE DEF X4
<1>5. WaysOK(f, r, X5)
  BY <1>4, HopsOK
<1> HIDE DEF X5
<1> QED
  BY <1>5, <1>6, HopsOK

\* Ways that have come to an end.
Out(f, r, X) == WaysOK(f, r, X) /\ \A x \in X : x.kind # "on"

LEMMA OnwardOK ==
  ASSUME NEW f, FlowFacts(f), NEW r, NEW x, WayOK(f, r, x), x.kind # "on"
  PROVE  Out(f, r, Onward(f, x))
<1> DEFINE n == NodeAt(f, x.at)
           s == Arm(x.r, n)
<1>1. CASE x.kind # "agent"
  <2>1. Onward(f, x) = {x}
    BY <1>1 DEF Onward
  <2> QED
    BY <2>1 DEF Out, WaysOK
<1>2. CASE x.kind = "agent"
  <2>1. x.at \in Ids(f)
    BY <1>2 DEF WayOK, ExitOn
  <2>2. RowTyped(x.r, f) /\ Same(r, x.r) /\ DOMAIN x = {"kind", "at", "r", "said"} /\ x.said \in BOOLEAN
    BY DEF WayOK
  <2>3. RowTyped(s, f) /\ Same(x.r, s)
    BY <2>1, <2>2, ArmOK
  <2>4. Same(r, s)
    BY <2>2, <2>3 DEF Same
  <2> HIDE DEF s
  <2>5. CASE n.objectives = <<>> \/ ~Done(s, n)
    <3> DEFINE y == [x EXCEPT !.r = s]
    <3>1. Onward(f, x) = {y}
      BY <1>2, <2>5 DEF Onward, s
    <3>2. /\ DOMAIN y = {"kind", "at", "r", "said"} /\ y.kind = x.kind /\ y.at = x.at
          /\ y.r = s /\ y.said = x.said
      BY <2>2
    <3> HIDE DEF y
    <3>3. WayOK(f, r, y) /\ y.kind # "on"
      BY <2>3, <2>4, <3>2 DEF WayOK
    <3> QED
      BY <3>1, <3>3 DEF Out, WaysOK
  <2>6. CASE ~(n.objectives = <<>> \/ ~Done(s, n))
    <3> DEFINE Z == Resolve(f, ExitOf(n, s.tags), s)
    <3>1. Onward(f, x) = {[z EXCEPT !.said = @ \/ x.said] : z \in Z}
      BY <1>2, <2>6 DEF Onward, s
    <3>2. ExitOn(f, ExitOf(n, s.tags))
      BY <2>1, ExitOfOK
    <3>3. WaysOK(f, r, Z) /\ \A z \in Z : z.kind # "on"
      <4> HIDE DEF n
      <4> QED
        BY <2>3, <2>4, <3>2, ResolveOK
    <3> HIDE DEF Z
    <3>4. ASSUME NEW y \in Onward(f, x)
          PROVE  WayOK(f, r, y) /\ y.kind # "on"
      <4>1. PICK z \in Z : y = [z EXCEPT !.said = z.said \/ x.said]
        BY <3>1
      <4>2. WayOK(f, r, z) /\ z.kind # "on" /\ DOMAIN z = {"kind", "at", "r", "said"}
        BY <3>3 DEF WaysOK, WayOK
      <4> DEFINE b == z.said \/ x.said
      <4>3. b \in BOOLEAN
        OBVIOUS
      <4>4. /\ DOMAIN y = {"kind", "at", "r", "said"} /\ y.kind = z.kind /\ y.at = z.at
            /\ y.r = z.r /\ y.said = b
        <5>1. y = [z EXCEPT !.said = b]
          BY <4>1
        <5> HIDE DEF b
        <5> QED
          BY <4>2, <5>1
      <4> HIDE DEF b
      <4> QED
        BY <4>2, <4>3, <4>4 DEF WayOK
    <3> QED
      BY <3>4 DEF Out, WaysOK
  <2> QED
    BY <2>5, <2>6
<1> QED
  BY <1>1, <1>2

LEMMA OnwardsOK ==
  ASSUME NEW f, FlowFacts(f), NEW r, NEW X, Out(f, r, X)
  PROVE  Out(f, r, Onwards(f, X))
<1>1. ASSUME NEW y \in Onwards(f, X)
      PROVE  WayOK(f, r, y) /\ y.kind # "on"
  <2>1. PICK x \in X : y \in Onward(f, x)
    BY DEF Onwards
  <2>2. WayOK(f, r, x) /\ x.kind # "on"
    BY DEF Out, WaysOK
  <2>3. Out(f, r, Onward(f, x))
    BY <2>2, OnwardOK
  <2> QED
    BY <2>1, <2>3 DEF Out, WaysOK
<1> QED
  BY <1>1 DEF Out, WaysOK

\* advance always ends in an agent node, a handoff, a transfer or the end.
LEMMA AdvanceOK ==
  ASSUME NEW f, FlowFacts(f), NEW r, NEW s, RowTyped(s, f), Same(r, s), NEW id \in Ids(f)
  PROVE  Out(f, r, Advance(f, NodeAt(f, id), s))
<1> DEFINE X0 == Resolve(f, ExitOf(NodeAt(f, id), s.tags), s)
           X1 == Onwards(f, X0)
           X2 == Onwards(f, X1)
           X3 == Onwards(f, X2)
           X4 == Onwards(f, X3)
<1>a. Advance(f, NodeAt(f, id), s) = Onwards(f, X4)
  BY DEF Advance
<1>0. Out(f, r, X0)
  BY ExitOfOK, ResolveOK DEF Out
<1> HIDE DEF X0
<1>1. Out(f, r, X1)
  BY <1>0, OnwardsOK
<1> HIDE DEF X1
<1>2. Out(f, r, X2)
  BY <1>1, OnwardsOK
<1> HIDE DEF X2
<1>3. Out(f, r, X3)
  BY <1>2, OnwardsOK
<1> HIDE DEF X3
<1>4. Out(f, r, X4)
  BY <1>3, OnwardsOK
<1> HIDE DEF X4
<1> QED
  BY <1>4, <1>a, OnwardsOK

LEMMA AnswerBurnt ==
  ASSUME NEW q \in Answers, NEW b \in BOOLEAN
  PROVE  [q EXCEPT !.attempts = @ + 1, !.skipped = b] \in Answers
<1>1. PICK m \in BOOLEAN : \E k \in Nat : \E s \in BOOLEAN :
             q = [met |-> m, attempts |-> k, skipped |-> s]
  BY DEF Answers
<1>2. PICK k \in Nat : \E s \in BOOLEAN : q = [met |-> m, attempts |-> k, skipped |-> s]
  BY <1>1
<1>3. PICK s \in BOOLEAN : q = [met |-> m, attempts |-> k, skipped |-> s]
  BY <1>2
<1> DEFINE e == [q EXCEPT !.attempts = q.attempts + 1, !.skipped = b]
           z == [met |-> m, attempts |-> k + 1, skipped |-> b]
<1>5. DOMAIN q = {"met", "attempts", "skipped"} /\ q.met = m /\ q.attempts = k
  BY <1>3
<1>6. e = [i \in {"met", "attempts", "skipped"} |-> e[i]] /\ e.met = m /\ e.attempts = k + 1 /\ e.skipped = b
  BY <1>5
<1>7. z = [i \in {"met", "attempts", "skipped"} |-> z[i]] /\ z.met = m /\ z.attempts = k + 1 /\ z.skipped = b
  OBVIOUS
<1> HIDE DEF e, z
<1>8. e = z
  BY <1>6, <1>7
<1>4. [met |-> m, attempts |-> k + 1, skipped |-> b] \in Answers
  BY <1>1, <1>2 DEF Answers
<1> QED
  BY <1>4, <1>8 DEF e, z

\* A pass of the judge leaves the copy as typed as it was.
LEMMA JudgedOK ==
  ASSUME NEW f, FlowFacts(f), NEW id \in Ids(f), NEW r, RowTyped(r, f), r.armed = id,
         NEW J \in SUBSET LiveGoals(r, NodeAt(f, id)), NEW got \in [J -> BOOLEAN]
  PROVE  LET j == Judged(r, NodeAt(f, id), got)
         IN RowTyped(j, f) /\ Same(r, j) /\ j.armed = id
<1> DEFINE n == NodeAt(f, id)
           D == DOMAIN n.objectives
           left  == LiveGoals(r, n) \ DOMAIN got
           focus == {i \in left : n.objectives[i].attempts > 0 /\ \A j \in left : i <= j}
           p == [i \in DOMAIN r.progress |->
                   IF i \in DOMAIN got THEN [r.progress[i] EXCEPT !.met = TRUE]
                   ELSE IF i \in focus
                   THEN [r.progress[i] EXCEPT !.attempts = @ + 1,
                                              !.skipped = r.progress[i].attempts + 1 >= n.objectives[i].attempts]
                   ELSE r.progress[i]]
           new == {n.objectives[i].field : i \in {j \in DOMAIN got : got[j]}} \ {None}
           s == Judged(r, n, got)
<1>1. id # None /\ NodeFacts(f, n)
  BY NodeAtFacts
<1>2. r.progress \in [D -> Answers] /\ DOMAIN r = RowFields
  BY <1>1 DEF RowTyped, Armed
<1>3. s = [r EXCEPT !.progress = p, !.known = r.known \cup new]
  BY DEF Judged
<1>4. \A i \in D : p[i] \in Answers
  <2> SUFFICES ASSUME NEW i \in D PROVE p[i] \in Answers
    OBVIOUS
  <2>1. r.progress[i] \in Answers /\ i \in DOMAIN r.progress
    BY <1>2
  <2> DEFINE b == r.progress[i].attempts + 1 >= n.objectives[i].attempts
  <2>2. b \in BOOLEAN
    OBVIOUS
  <2>3. p[i] = IF i \in DOMAIN got THEN [r.progress[i] EXCEPT !.met = TRUE]
               ELSE IF i \in focus
               THEN [r.progress[i] EXCEPT !.attempts = @ + 1, !.skipped = b]
               ELSE r.progress[i]
    BY <2>1
  <2> HIDE DEF b, p, focus
  <2>4. [r.progress[i] EXCEPT !.met = TRUE] \in Answers
    BY <2>1 DEF Answers
  <2>5. [r.progress[i] EXCEPT !.attempts = @ + 1, !.skipped = b] \in Answers
    BY <2>1, <2>2, AnswerBurnt
  <2> QED
    BY <2>1, <2>3, <2>4, <2>5
<1>5. p \in [D -> Answers]
  <2>1. p = [i \in D |-> p[i]]
    BY <1>2
  <2> HIDE DEF p
  <2> QED
    BY <1>4, <2>1
<1>6. new \subseteq Field
  <2>1. \A i \in DOMAIN got : i \in D
    BY DEF LiveGoals
  <2>2. \A i \in D : n.objectives[i].field \in Field \cup {None}
    BY <1>1 DEF NodeFacts, TextShape
  <2> QED
    BY <2>1, <2>2
<1> HIDE DEF n, p, new, s
<1>7. /\ DOMAIN s = RowFields /\ s.progress = p /\ s.known = r.known \cup new
      /\ s.tags = r.tags /\ s.armed = r.armed /\ Same(r, s)
  BY <1>2, <1>3 DEF RowFields, Same
<1>8. RowTyped(s, f)
  BY <1>1, <1>5, <1>6, <1>7 DEF RowTyped, Armed, n
<1> QED
  BY <1>7, <1>8 DEF s, n

-----------------------------------------------------------------------------
(* Sums of attempts                                                          *)

\* The partial sums of v.
Sums(n, v, s) ==
  s \in [0 .. n -> Nat] /\ s[0] = 0 /\ \A i \in 1 .. n : s[i] = s[i - 1] + v[i]

LEMMA TotalSums ==
  ASSUME NEW n \in Nat, NEW v \in [1 .. n -> Nat]
  PROVE  Total(v) \in Nat /\ \E s : Sums(n, v, s) /\ Total(v) = s[n]
<1> DEFINE B(u) == [i \in 0 .. n |-> IF i = 0 THEN 0 ELSE u[i - 1] + v[i]]
           g == [i \in 1 .. n |-> [x \in Nat |-> x + v[i]]]
<1>0. Len(v) = n
  <2>1. v = [i \in 1 .. n |-> v[i]]
    OBVIOUS
  <2> QED
    BY <2>1, ListMade
<1>1. g \in [1 .. n -> [Nat -> Nat]]
  OBVIOUS
<1>2. PICK r \in [0 .. n -> Nat] : r[0] = 0 /\ \A i \in 1 .. n : r[i] = g[i][r[i - 1]]
  <2> HIDE DEF g
  <2>1. Runs(n, Nat, 0, g)
    BY <1>1, Recursion
  <2> QED
    BY <2>1 DEF Runs
<1>3. r = B(r)
  <2>1. \A i \in 1 .. n : i - 1 \in 0 .. n /\ i # 0
    OBVIOUS
  <2>2. \A i \in 1 .. n : r[i] = r[i - 1] + v[i]
    BY <1>2, <2>1
  <2>3. \A i \in 0 .. n : i # 0 => i \in 1 .. n
    OBVIOUS
  <2>4. \A i \in 0 .. n : r[i] = B(r)[i]
    BY <1>2, <2>2, <2>3
  <2>5. r = [i \in 0 .. n |-> r[i]] /\ B(r) = [i \in 0 .. n |-> B(r)[i]]
    BY <1>2
  <2> HIDE DEF B
  <2> QED
    BY <2>4, <2>5
<1> DEFINE u == CHOOSE w : w = B(w)
<1>4. u = B(u)
  BY <1>3
<1>5. Total(v) = u[n]
  BY <1>0 DEF Total
<1> HIDE DEF u
<1>6. /\ u = [i \in 0 .. n |-> u[i]] /\ u[0] = 0
      /\ \A i \in 1 .. n : u[i] = u[i - 1] + v[i]
  <2>1. \A i \in 1 .. n : i \in 0 .. n /\ i # 0
    OBVIOUS
  <2>2. 0 \in 0 .. n
    OBVIOUS
  <2> QED
    BY <1>4, <2>1, <2>2
<1> DEFINE S == {i \in 0 .. n : u[i] \in Nat}
<1>7. \A i \in 0 .. n : i \in S
  <2>1. 0 \in S
    BY <1>6
  <2>2. \A i \in 1 .. n : i - 1 \in S => i \in S
    <3> SUFFICES ASSUME NEW i \in 1 .. n, u[i - 1] \in Nat PROVE u[i] \in Nat
      OBVIOUS
    <3>1. u[i] = u[i - 1] + v[i] /\ v[i] \in Nat
      BY <1>6
    <3> QED
      BY <3>1
  <2> HIDE DEF S
  <2> QED
    BY <2>1, <2>2, InductionUpTo
<1>8. \A i \in 0 .. n : u[i] \in Nat
  BY <1>7
<1>9. Sums(n, v, u)
  BY <1>6, <1>8 DEF Sums
<1> QED
  BY <1>5, <1>8, <1>9

LEMMA TotalZero ==
  ASSUME NEW n \in Nat, NEW v \in [1 .. n -> Nat], \A i \in 1 .. n : v[i] = 0
  PROVE  Total(v) = 0
<1>1. PICK s : Sums(n, v, s) /\ Total(v) = s[n]
  BY TotalSums
<1> DEFINE S == {i \in 0 .. n : s[i] = 0}
<1>2. 0 \in S
  BY <1>1 DEF Sums
<1>3. \A i \in 1 .. n : i - 1 \in S => i \in S
  BY <1>1 DEF Sums
<1>4. \A i \in 0 .. n : i \in S
  <2> HIDE DEF S
  <2> QED
    BY <1>2, <1>3, InductionUpTo
<1> QED
  BY <1>1, <1>4

LEMMA TotalOneMore ==
  ASSUME NEW n \in Nat, NEW v \in [1 .. n -> Nat], NEW w \in [1 .. n -> Nat], NEW m \in 1 .. n,
         w[m] = v[m] + 1, \A i \in 1 .. n : i # m => w[i] = v[i]
  PROVE  Total(w) = Total(v) + 1
<1>1. PICK s : Sums(n, v, s) /\ Total(v) = s[n]
  BY TotalSums
<1>2. PICK t : Sums(n, w, t) /\ Total(w) = t[n]
  BY TotalSums
<1> DEFINE S == {i \in 0 .. n : t[i] = s[i] + (IF m <= i THEN 1 ELSE 0)}
<1>3. 0 \in S
  BY <1>1, <1>2 DEF Sums
<1>4. \A i \in 1 .. n : i - 1 \in S => i \in S
  <2> SUFFICES ASSUME NEW i \in 1 .. n, i - 1 \in S PROVE i \in S
    OBVIOUS
  <2>1. /\ s[i] = s[i - 1] + v[i] /\ t[i] = t[i - 1] + w[i]
        /\ s[i - 1] \in Nat /\ t[i - 1] \in Nat /\ v[i] \in Nat /\ w[i] \in Nat
    BY <1>1, <1>2 DEF Sums
  <2>2. t[i - 1] = s[i - 1] + (IF m <= i - 1 THEN 1 ELSE 0)
    OBVIOUS
  <2>3. i \in 0 .. n
    OBVIOUS
  <2>4. CASE i = m
    BY <2>1, <2>2, <2>3, <2>4
  <2>5. CASE i # m
    <3>1. w[i] = v[i] /\ (m <= i - 1 <=> m <= i)
      BY <2>5
    <3> QED
      BY <2>1, <2>2, <2>3, <3>1
  <2> QED
    BY <2>4, <2>5
<1>5. \A i \in 0 .. n : i \in S
  <2> HIDE DEF S
  <2> QED
    BY <1>3, <1>4, InductionUpTo
<1>6. n \in S /\ m <= n
  BY <1>5
<1> QED
  BY <1>1, <1>2, <1>6

LEMMA TotalLess ==
  ASSUME NEW n \in Nat, NEW v \in [1 .. n -> Nat], NEW w \in [1 .. n -> Nat], NEW m \in 1 .. n,
         v[m] < w[m], \A i \in 1 .. n : v[i] <= w[i]
  PROVE  Total(v) < Total(w)
<1>1. PICK s : Sums(n, v, s) /\ Total(v) = s[n]
  BY TotalSums
<1>2. PICK t : Sums(n, w, t) /\ Total(w) = t[n]
  BY TotalSums
<1> DEFINE S == {i \in 0 .. n : s[i] + (IF m <= i THEN 1 ELSE 0) <= t[i]}
<1>3. 0 \in S
  BY <1>1, <1>2 DEF Sums
<1>4. \A i \in 1 .. n : i - 1 \in S => i \in S
  <2> SUFFICES ASSUME NEW i \in 1 .. n, i - 1 \in S PROVE i \in S
    OBVIOUS
  <2>1. /\ s[i] = s[i - 1] + v[i] /\ t[i] = t[i - 1] + w[i]
        /\ s[i - 1] \in Nat /\ t[i - 1] \in Nat /\ v[i] \in Nat /\ w[i] \in Nat
    BY <1>1, <1>2 DEF Sums
  <2>2. s[i - 1] + (IF m <= i - 1 THEN 1 ELSE 0) <= t[i - 1]
    OBVIOUS
  <2>3. i \in 0 .. n /\ v[i] <= w[i]
    OBVIOUS
  <2>4. CASE i = m
    BY <2>1, <2>2, <2>3, <2>4
  <2>5. CASE i # m
    <3>1. CASE m <= i
      <4>1. m <= i - 1
        BY <2>5, <3>1
      <4>2. s[i - 1] + 1 <= t[i - 1]
        BY <2>2, <4>1
      <4>3. \A a, b, c, d \in Nat : a + 1 <= b /\ c <= d => (a + c) + 1 <= b + d
        OBVIOUS
      <4>4. (s[i - 1] + v[i]) + 1 <= t[i - 1] + w[i]
        BY <2>1, <2>3, <4>2, <4>3
      <4>5. s[i] + 1 <= t[i]
        BY <2>1, <4>4, Zenon
      <4> QED
        BY <2>3, <3>1, <4>5
    <3>2. CASE ~(m <= i)
      <4>1. ~(m <= i - 1)
        BY <3>2
      <4> QED
        BY <2>1, <2>2, <2>3, <3>2, <4>1
    <3> QED
      BY <3>1, <3>2
  <2> QED
    BY <2>4, <2>5
<1>5. \A i \in 0 .. n : i \in S
  <2> HIDE DEF S
  <2> QED
    BY <1>3, <1>4, InductionUpTo
<1>6. n \in S /\ m <= n
  BY <1>5
<1>7. s[n] + 1 <= t[n] /\ s[n] \in Nat /\ t[n] \in Nat
  BY <1>1, <1>2, <1>6 DEF Sums
<1> QED
  BY <1>1, <1>2, <1>7

-----------------------------------------------------------------------------
(* A contact's patience at the entry of a flow                               *)

Attempts(r) == [i \in DOMAIN r.progress |-> r.progress[i].attempts]

\* Every turn but the last k has burnt an attempt, and no question has more than it may.
Burnt(r, n, k) ==
  /\ r.here <= Total(Attempts(r)) + k
  /\ \A i \in DOMAIN n.objectives :
       /\ Attempts(r)[i] <= Limits(n)[i]
       /\ n.objectives[i].parts # <<>> => r.progress[i].skipped
       /\ ~Settled(r.progress[i]) => Attempts(r)[i] < Limits(n)[i]

\* The types that sums of attempts need.
LEMMA AttemptsType ==
  ASSUME NEW f, FlowFacts(f), NEW id \in Ids(f), NEW r, RowTyped(r, f), r.armed = id
  PROVE  LET n == NodeAt(f, id)
         IN /\ Len(n.objectives) \in Nat /\ DOMAIN n.objectives = 1 .. Len(n.objectives)
            /\ r.progress \in [1 .. Len(n.objectives) -> Answers]
            /\ Attempts(r) \in [1 .. Len(n.objectives) -> Nat]
            /\ Limits(n) \in [1 .. Len(n.objectives) -> Nat]
            /\ \A i \in 1 .. Len(n.objectives) : n.objectives[i].attempts \in Nat
<1> DEFINE n == NodeAt(f, id)
           k == Len(n.objectives)
<1>1. id # None /\ NodeFacts(f, n)
  BY NodeAtFacts
<1>2. k \in Nat /\ DOMAIN n.objectives = 1 .. k
  BY <1>1, Lists DEF NodeFacts, NodeShape
<1>3. r.progress \in [1 .. k -> Answers]
  BY <1>1, <1>2 DEF RowTyped, Armed
<1>4. \A i \in 1 .. k : n.objectives[i].attempts \in Nat
  BY <1>1, <1>2 DEF NodeFacts, TextShape
<1> HIDE DEF n, k
<1>5. Attempts(r) \in [1 .. k -> Nat]
  BY <1>3 DEF Attempts, Answers
<1>6. Limits(n) \in [1 .. k -> Nat]
  BY <1>2, <1>4 DEF Limits
<1> QED
  BY <1>2, <1>3, <1>4, <1>5, <1>6 DEF n, k

\* A node that has just been armed has burnt nothing.
LEMMA FreshlyBurnt ==
  ASSUME NEW f, FlowFacts(f), NEW id \in Ids(f), Limited(f, NodeAt(f, id)),
         NEW r, RowTyped(r, f), r.here = 1
  PROVE  Burnt(Arm(r, NodeAt(f, id)), NodeAt(f, id), 1)
<1> DEFINE n == NodeAt(f, id)
           s == Arm(r, n)
           k == Len(n.objectives)
<1>1. RowTyped(s, f) /\ Same(r, s) /\ s.armed = id
  BY ArmOK
<1>2. DOMAIN r = RowFields
  BY DEF RowTyped
<1>3. s.progress = [i \in DOMAIN n.objectives |->
                      [met |-> n.objectives[i].parts = <<>> /\ n.objectives[i].ifKnown
                                 /\ n.objectives[i].field \in r.known,
                       attempts |-> 0, skipped |-> n.objectives[i].parts # <<>>]]
  BY <1>2 DEF Arm, RowFields
<1> HIDE DEF s
<1>4. /\ k \in Nat /\ DOMAIN n.objectives = 1 .. k
      /\ s.progress \in [1 .. k -> Answers]
      /\ Attempts(s) \in [1 .. k -> Nat] /\ Limits(n) \in [1 .. k -> Nat]
  BY <1>1, AttemptsType
<1>5. \A i \in 1 .. k : /\ Attempts(s)[i] = 0
                        /\ n.objectives[i].parts # <<>> => s.progress[i].skipped
                        /\ n.objectives[i].parts # <<>> => Settled(s.progress[i])
  <2> SUFFICES ASSUME NEW i \in 1 .. k
               PROVE  /\ Attempts(s)[i] = 0
                      /\ n.objectives[i].parts # <<>> => s.progress[i].skipped
                      /\ n.objectives[i].parts # <<>> => Settled(s.progress[i])
    OBVIOUS
  <2>1. s.progress[i] = [met |-> n.objectives[i].parts = <<>> /\ n.objectives[i].ifKnown
                                   /\ n.objectives[i].field \in r.known,
                         attempts |-> 0, skipped |-> n.objectives[i].parts # <<>>]
    BY <1>3, <1>4
  <2>2. s.progress[i].attempts = 0
    BY <2>1
  <2>3. n.objectives[i].parts # <<>> => s.progress[i].skipped
    <3> DEFINE b == n.objectives[i].parts # <<>>
    <3>1. s.progress[i].skipped = b
      BY <2>1
    <3>2. b => s.progress[i].skipped
      <4> HIDE DEF b
      <4> QED
        BY <3>1, Zenon
    <3> QED
      BY <3>2
  <2>4. Attempts(s)[i] = s.progress[i].attempts
    BY <1>4 DEF Attempts
  <2> QED
    BY <2>2, <2>3, <2>4 DEF Settled
<1>6. \A i \in 1 .. k : /\ Limits(n)[i] \in Nat
                        /\ n.objectives[i].parts = <<>> => 0 < Limits(n)[i]
  BY <1>4 DEF Limits, Limited
<1>7. Total(Attempts(s)) = 0
  <2> HIDE DEF k, n
  <2> QED
    BY <1>4, <1>5, TotalZero
<1>8. s.here = 1
  BY <1>1 DEF Same
<1> HIDE DEF n, k
<1>9. Burnt(s, n, 1)
  BY <1>4, <1>5, <1>6, <1>7, <1>8 DEF Burnt
<1> QED
  BY <1>9 DEF s, n

\* A pass of the judge that does not let the contact go has burnt an attempt.
LEMMA PassBurns ==
  ASSUME NEW f, FlowFacts(f), NEW id \in Ids(f), Limited(f, NodeAt(f, id)),
         NEW r, RowTyped(r, f), r.armed = id, r.here \in Nat, Burnt(r, NodeAt(f, id), 1),
         NEW J \in SUBSET LiveGoals(r, NodeAt(f, id)), NEW got \in [J -> BOOLEAN],
         ~Done(Judged(r, NodeAt(f, id), got), NodeAt(f, id))
  PROVE  Burnt(Judged(r, NodeAt(f, id), got), NodeAt(f, id), 0)
<1> DEFINE n == NodeAt(f, id)
           k == Len(n.objectives)
           s == Judged(r, n, got)
           left  == LiveGoals(r, n) \ DOMAIN got
           focus == {i \in left : n.objectives[i].attempts > 0 /\ \A j \in left : i <= j}
<1>1. RowTyped(s, f) /\ Same(r, s) /\ s.armed = id
  BY JudgedOK
<1>2. DOMAIN r = RowFields
  BY DEF RowTyped
<1>3. s.progress = [i \in DOMAIN r.progress |->
                      IF i \in DOMAIN got THEN [r.progress[i] EXCEPT !.met = TRUE]
                      ELSE IF i \in focus
                      THEN [r.progress[i] EXCEPT !.attempts = @ + 1,
                                                 !.skipped = r.progress[i].attempts + 1 >= n.objectives[i].attempts]
                      ELSE r.progress[i]]
  BY <1>2 DEF Judged, RowFields
<1> HIDE DEF s
<1>4. /\ k \in Nat /\ DOMAIN n.objectives = 1 .. k
      /\ r.progress \in [1 .. k -> Answers]
      /\ Attempts(r) \in [1 .. k -> Nat] /\ Limits(n) \in [1 .. k -> Nat]
      /\ \A i \in 1 .. k : n.objectives[i].attempts \in Nat
  BY AttemptsType
<1>5. Attempts(s) \in [1 .. k -> Nat] /\ s.progress \in [1 .. k -> Answers]
  BY <1>1, AttemptsType
<1>6. DOMAIN got \subseteq LiveGoals(r, n) /\ LiveGoals(r, n) = {i \in 1 .. k : ~Settled(r.progress[i])}
  BY <1>4 DEF LiveGoals
<1>7. \A i \in 1 .. k :
        /\ Attempts(r)[i] = r.progress[i].attempts /\ Attempts(s)[i] = s.progress[i].attempts
        /\ Attempts(r)[i] \in Nat /\ r.progress[i].attempts \in Nat
        /\ DOMAIN r.progress[i] = {"met", "attempts", "skipped"}
  BY <1>4, <1>5 DEF Attempts, Answers
<1>8. \A i \in 1 .. k :
        /\ i \in DOMAIN got => /\ s.progress[i].met /\ Attempts(s)[i] = Attempts(r)[i]
                               /\ s.progress[i].skipped = r.progress[i].skipped
        /\ i \in focus => /\ Attempts(s)[i] = Attempts(r)[i] + 1
                          /\ s.progress[i].skipped <=> Attempts(r)[i] + 1 >= n.objectives[i].attempts
                          /\ i \notin DOMAIN got
        /\ i \notin focus /\ i \notin DOMAIN got => s.progress[i] = r.progress[i]
  <2> SUFFICES ASSUME NEW i \in 1 .. k
               PROVE  /\ i \in DOMAIN got => /\ s.progress[i].met /\ Attempts(s)[i] = Attempts(r)[i]
                                             /\ s.progress[i].skipped = r.progress[i].skipped
                      /\ i \in focus => /\ Attempts(s)[i] = Attempts(r)[i] + 1
                                        /\ s.progress[i].skipped <=> Attempts(r)[i] + 1 >= n.objectives[i].attempts
                                        /\ i \notin DOMAIN got
                      /\ i \notin focus /\ i \notin DOMAIN got => s.progress[i] = r.progress[i]
    OBVIOUS
  <2>1. i \in DOMAIN r.progress
    BY <1>4
  <2>2. i \in focus => i \notin DOMAIN got
    OBVIOUS
  <2> HIDE DEF focus, n, k
  <2>3. CASE i \in DOMAIN got
    <3>1. s.progress[i] = [r.progress[i] EXCEPT !.met = TRUE]
      BY <1>3, <2>1, <2>3
    <3> QED
      BY <1>7, <2>2, <2>3, <3>1
  <2>4. CASE i \in focus
    <3>1. s.progress[i] = [r.progress[i] EXCEPT !.attempts = @ + 1,
                             !.skipped = r.progress[i].attempts + 1 >= n.objectives[i].attempts]
      BY <1>3, <2>1, <2>2, <2>4
    <3> QED
      BY <1>7, <2>2, <2>4, <3>1
  <2>5. CASE i \notin focus /\ i \notin DOMAIN got
    BY <1>3, <2>1, <2>5
  <2> QED
    BY <2>3, <2>4, <2>5
<1>9. \A i \in 1 .. k :
        /\ Attempts(r)[i] <= Limits(n)[i]
        /\ n.objectives[i].parts # <<>> => r.progress[i].skipped
        /\ ~Settled(r.progress[i]) => Attempts(r)[i] < Limits(n)[i]
  BY <1>4 DEF Burnt
<1>10. \A i \in LiveGoals(r, n) :
         /\ i \in 1 .. k /\ n.objectives[i].parts = <<>> /\ n.objectives[i].attempts > 0
         /\ Limits(n)[i] = n.objectives[i].attempts /\ Attempts(r)[i] < Limits(n)[i]
  BY <1>4, <1>6, <1>9 DEF Settled, Limits, Limited
<1>11. PICK m \in 1 .. k : m \in focus /\ \A i \in focus : i = m
  <2>1. PICK i \in DOMAIN n.objectives : ~Settled(s.progress[i])
    BY DEF Done, s
  <2>2. i \in left
    BY <1>4, <1>6, <1>8, <2>1 DEF Settled
  <2>3. left \subseteq Nat
    BY <1>6
  <2>4. PICK m \in left : \A j \in left : m <= j
    BY <2>2, <2>3, LeastNumber
  <2>5. m \in focus /\ m \in 1 .. k
    BY <1>10, <2>4
  <2>6. \A j \in focus : j = m
    BY <2>3, <2>4
  <2> QED
    BY <2>5, <2>6
<1>12. m \in LiveGoals(r, n)
  BY <1>11
<1>13. Total(Attempts(s)) = Total(Attempts(r)) + 1
  <2>1. Attempts(s)[m] = Attempts(r)[m] + 1
    BY <1>8, <1>11
  <2>2. \A i \in 1 .. k : i # m => Attempts(s)[i] = Attempts(r)[i]
    <3> HIDE DEF focus, k, n
    <3> QED
      BY <1>7, <1>8, <1>11
  <2> HIDE DEF k, n
  <2> QED
    BY <1>4, <1>5, <1>11, <2>1, <2>2, TotalOneMore
<1>14. s.here <= Total(Attempts(s)) + 0
  <2>1. s.here = r.here /\ r.here <= Total(Attempts(r)) + 1
    BY <1>1 DEF Same, Burnt
  <2>2. Total(Attempts(r)) \in Nat
    <3> HIDE DEF k, n
    <3> QED
      BY <1>4, TotalSums
  <2> QED
    BY <1>13, <2>1, <2>2
<1>15. ASSUME NEW i \in 1 .. k
       PROVE  /\ Attempts(s)[i] <= Limits(n)[i]
              /\ n.objectives[i].parts # <<>> => s.progress[i].skipped
              /\ ~Settled(s.progress[i]) => Attempts(s)[i] < Limits(n)[i]
  <2>0. Attempts(r)[i] \in Nat /\ Limits(n)[i] \in Nat
    BY <1>4
  <2>1. CASE i \in DOMAIN got
    BY <1>8, <1>9, <2>0, <2>1 DEF Settled
  <2>2. CASE i \in focus
    <3>1. i \in LiveGoals(r, n)
      BY <2>2
    <3> HIDE DEF focus, n, k
    <3> QED
      BY <1>8, <1>10, <2>0, <2>2, <3>1 DEF Settled
  <2>3. CASE i \notin focus /\ i \notin DOMAIN got
    <3>1. s.progress[i] = r.progress[i] /\ Attempts(s)[i] = Attempts(r)[i]
      <4> HIDE DEF focus, n, k
      <4> QED
        BY <1>7, <1>8, <2>3
    <3> QED
      BY <1>9, <3>1
  <2> QED
    BY <2>1, <2>2, <2>3
<1>16. Burnt(s, n, 0)
  <2> HIDE DEF k, n, focus
  <2> QED
    BY <1>4, <1>14, <1>15 DEF Burnt
<1> QED
  BY <1>16 DEF s

-----------------------------------------------------------------------------
(* What a turn can write                                                     *)

Histories == history \in [Agent -> Seq(Config)]

\* A row, or a copy of one, stands in the flow of its own pinned version.
RowOK(r) ==
  /\ r.status \in {"active", "ended"}
  /\ r.agent \in Agent /\ r.version \in 1 .. Len(history[r.agent])
  /\ r.turns \in Nat /\ r.here \in Nat /\ r.condensed \in Nat
  /\ RowTyped(r, TextFlow(Pinned(r)))
  /\ HasFlow(Pinned(r)) => r.node \in Ids(TextFlow(Pinned(r))) \cup {None}
  /\ ~HasFlow(Pinned(r)) => r.node = None /\ r.armed = None

\* At the entry of its flow, when it only asks questions with a limit.
AtLimitedEntry(r) ==
  /\ r.status = "active" /\ HasFlow(Pinned(r)) /\ r.node # None
  /\ r.node = TextFlow(Pinned(r)).entry
  /\ Limited(TextFlow(Pinned(r)), NodeAt(TextFlow(Pinned(r)), r.node))

\* There, every turn but the last k has burnt an attempt, and something is still to ask.
Patient(r, k) ==
  AtLimitedEntry(r) =>
    LET n == NodeAt(TextFlow(Pinned(r)), r.node)
    IN \/ r.armed = None /\ r.here = k
       \/ r.armed = r.node /\ Burnt(r, n, k) /\ ~Done(r, n)

LEMMA PinnedFlow ==
  ASSUME Histories, NEW r, RowOK(r)
  PROVE  Pinned(r) \in Config /\ (HasFlow(Pinned(r)) => FlowFacts(TextFlow(Pinned(r))))
<1>1. Pinned(r) \in Config
  BY DEF Histories, RowOK, Pinned
<1> QED
  BY <1>1, TextFlowFacts

LEMMA EntryIn ==
  ASSUME NEW c \in Config
  PROVE  /\ HasFlow(c) => EntryOf(c) \in Ids(TextFlow(c)) \cup {None}
         /\ ~HasFlow(c) => EntryOf(c) = None
  BY TextFlowFacts DEF EntryOf, FlowFacts

\* A result x of a turn with copy r.
ResultOK(r, x) ==
  /\ x.said \in BOOLEAN /\ x.asked \in BOOLEAN
  /\ RowOK(x.row) /\ x.row.turns = r.turns /\ x.row.condensed = r.condensed
  /\ x.said \/ x.asked \/ x.row.status = "ended"
  /\ Patient(r, 1) => Patient(x.row, 0)

\* A row in the same version that ends, goes nowhere or goes where an exit leads.
LEMMA SameFlow ==
  ASSUME Histories, NEW r, RowOK(r), NEW f, f = TextFlow(Pinned(r)), HasFlow(Pinned(r)),
         NEW s, RowTyped(s, f), s.status \in {"active", "ended"},
         s.agent = r.agent, s.version = r.version, s.turns = r.turns, s.here = r.here,
         s.condensed = r.condensed,
         s.node \in Ids(f) \cup {None},
         s.status = "ended" \/ ExitOn(f, s.node)
  PROVE  RowOK(s) /\ Patient(s, 0)
<1>1. Pinned(s) = Pinned(r)
  BY DEF Pinned
<1>2. RowOK(s)
  BY <1>1 DEF RowOK
<1>3. ~AtLimitedEntry(s)
  BY <1>1 DEF AtLimitedEntry, Limited, ExitOn
<1> QED
  BY <1>2, <1>3 DEF Patient

\* performHandoff
LEMMA SwitchOK ==
  ASSUME Histories, NEW r, RowOK(r), NEW f, f = TextFlow(Pinned(r)), HasFlow(Pinned(r)),
         NEW s, RowTyped(s, f), Same(r, s), NEW id \in Ids(f), NodeAt(f, id).kind = "handoff",
         NEW said \in BOOLEAN
  PROVE  ResultOK(r, [Switch(s, NodeAt(f, id)) EXCEPT !.said = said])
<1> DEFINE n  == NodeAt(f, id)
           to == n.to
           v  == Len(history[to])
           x  == [Switch(s, n) EXCEPT !.said = said]
<1>0. Pinned(r) \in Config /\ FlowFacts(f)
  BY PinnedFlow
<1>1. n.id = id /\ NodeFacts(f, n) /\ to \in Agent
  BY <1>0, NodeAtFacts DEF NodeFacts, TextShape
<1>2. DOMAIN s = RowFields
  BY DEF RowTyped
<1>3. CASE to \in deleted \/ v = 0
  <2> DEFINE e == [s EXCEPT !.node = n.id, !.status = "ended"]
  <2>1. Switch(s, n) = [row |-> e, said |-> FALSE, asked |-> FALSE]
    BY <1>3 DEF Switch, Result
  <2>2. x.row = e /\ x.said = said /\ x.asked = FALSE
    BY <2>1
  <2>3. /\ e.status = "ended" /\ e.node = id /\ e.agent = r.agent /\ e.version = r.version
        /\ e.turns = r.turns /\ e.here = r.here /\ e.condensed = r.condensed
        /\ DOMAIN e = RowFields /\ e.known = s.known /\ e.tags = s.tags
        /\ e.armed = s.armed /\ e.progress = s.progress
    BY <1>1, <1>2 DEF RowFields, Same
  <2> HIDE DEF e, x, n
  <2>4. RowTyped(e, f)
    BY <2>3 DEF RowTyped, Armed
  <2>5. RowOK(e) /\ Patient(e, 0)
    BY <2>3, <2>4, SameFlow
  <2> QED
    BY <2>2, <2>3, <2>5 DEF ResultOK, x, n
<1>4. CASE ~(to \in deleted \/ v = 0)
  <2> DEFINE c == history[to][v]
             e == [s EXCEPT !.agent = to, !.version = v, !.node = EntryOf(c),
                            !.armed = None, !.progress = <<>>, !.here = 0]
  <2>1. Switch(s, n) = [row |-> e, said |-> FALSE, asked |-> TRUE]
    BY <1>4 DEF Switch, Result
  <2>2. x.row = e /\ x.said = said /\ x.asked = TRUE
    BY <2>1
  <2>3. v \in 1 .. Len(history[to]) /\ c \in Config
    BY <1>1, <1>4 DEF Histories
  <2>4. /\ e.status = r.status /\ e.node = EntryOf(c) /\ e.agent = to /\ e.version = v
        /\ e.turns = r.turns /\ e.here = 0 /\ e.condensed = r.condensed
        /\ DOMAIN e = RowFields /\ e.known = s.known /\ e.tags = s.tags
        /\ e.armed = None /\ e.progress = <<>>
    BY <1>1, <1>2 DEF RowFields, Same
  <2>6. (HasFlow(c) => EntryOf(c) \in Ids(TextFlow(c)) \cup {None}) /\ (~HasFlow(c) => EntryOf(c) = None)
    BY <2>3, EntryIn
  <2> HIDE DEF e, x, c, n, to, v
  <2>7. Pinned(e) = c
    BY <2>4 DEF Pinned, c
  <2>8. RowTyped(e, TextFlow(c))
    BY <2>4 DEF RowTyped, Armed
  <2>9. RowOK(e)
    BY <1>1, <2>3, <2>4, <2>6, <2>7, <2>8 DEF RowOK
  <2>10. Patient(e, 0)
    BY <2>4 DEF Patient
  <2> QED
    BY <2>2, <2>4, <2>9, <2>10 DEF ResultOK, x, n
<1> QED
  BY <1>3, <1>4

\* e is s with another node and status.
Written(s, e, at, st) ==
  /\ DOMAIN e = RowFields /\ e.node = at /\ e.status = st
  /\ e.agent = s.agent /\ e.version = s.version /\ e.turns = s.turns /\ e.here = s.here
  /\ e.condensed = s.condensed
  /\ e.known = s.known /\ e.tags = s.tags /\ e.armed = s.armed /\ e.progress = s.progress

LEMMA WrittenOK ==
  ASSUME Histories, NEW r, RowOK(r), NEW f, f = TextFlow(Pinned(r)), HasFlow(Pinned(r)),
         NEW s, RowTyped(s, f), Same(r, s), NEW at, ExitOn(f, at), NEW st, st \in {r.status, "ended"},
         NEW x, Written(s, x.row, at, st), x.said \in BOOLEAN, x.asked \in BOOLEAN,
         x.said \/ x.asked \/ st = "ended"
  PROVE  ResultOK(r, x)
<1> DEFINE e == x.row
<1>1. /\ e.agent = r.agent /\ e.version = r.version /\ e.turns = r.turns /\ e.here = r.here
      /\ e.condensed = r.condensed
      /\ e.node = at /\ e.status = st
  BY DEF Written, Same
<1>2. RowTyped(e, f)
  BY DEF Written, RowTyped, Armed
<1>3. st \in {"active", "ended"}
  BY DEF RowOK
<1> HIDE DEF e
<1>4. RowOK(e) /\ Patient(e, 0)
  BY <1>1, <1>2, <1>3, SameFlow DEF ExitOn
<1> QED
  BY <1>1, <1>4 DEF ResultOK, e

\* A way out leaves a row in its flow, and the contact hears something or it has ended.
LEMMA LeaveOK ==
  ASSUME Histories, NEW r, RowOK(r), NEW c, c = Pinned(r), HasFlow(c), NEW f, f = TextFlow(c),
         NEW x, WayOK(f, r, x), x.kind # "on", NEW bye \in BOOLEAN
  PROVE  ResultOK(r, Leave(c, x, bye))
<1> DEFINE y   == Leave(c, x, bye)
           s   == x.r
           end == [x.r EXCEPT !.status = "ended"]
<1>1. /\ DOMAIN s = RowFields /\ RowTyped(s, f) /\ Same(r, s) /\ x.said \in BOOLEAN
      /\ ExitOn(f, x.at) /\ x.kind \in WayKinds \ {"on"}
  BY DEF WayOK, RowTyped
<1>2. s.status = r.status /\ ExitOn(f, None)
  BY <1>1 DEF Same, ExitOn
<1>3. CASE x.kind = "agent"
  <2>1. y = [row |-> [s EXCEPT !.node = x.at], said |-> x.said, asked |-> TRUE]
    BY <1>3 DEF Leave, Result
  <2> HIDE DEF y, s
  <2>2. Written(s, y.row, x.at, r.status) /\ y.said = x.said /\ y.asked = TRUE
    BY <1>1, <1>2, <2>1 DEF Written, RowFields
  <2>3. ResultOK(r, y)
    BY <1>1, <2>2, WrittenOK
  <2> QED
    BY <2>3 DEF y
<1>4. CASE x.kind = "end" /\ c \in Continues
  <2> DEFINE st == IF bye THEN "ended" ELSE s.status
  <2>1. y = [row |-> [s EXCEPT !.node = None, !.status = st], said |-> x.said, asked |-> TRUE]
    BY <1>4 DEF Leave, Result
  <2>2. st \in {r.status, "ended"}
    BY <1>2
  <2> HIDE DEF y, s, st
  <2>3. Written(s, y.row, None, st) /\ y.said = x.said /\ y.asked = TRUE
    BY <1>1, <2>1 DEF Written, RowFields
  <2>4. ResultOK(r, y)
    BY <1>1, <1>2, <2>2, <2>3, WrittenOK
  <2> QED
    BY <2>4 DEF y
<1>5. CASE x.kind = "end" /\ c \notin Continues
  <2>1. y = [row |-> [end EXCEPT !.node = None], said |-> x.said, asked |-> FALSE]
    BY <1>5 DEF Leave, Result
  <2>2. Written(s, [end EXCEPT !.node = None], None, "ended")
    <3> HIDE DEF y
    <3> QED
      BY <1>1 DEF Written, RowFields
  <2> HIDE DEF y, s
  <2>3. Written(s, y.row, None, "ended") /\ y.said = x.said /\ y.asked = FALSE
    BY <2>1, <2>2
  <2>4. ResultOK(r, y)
    BY <1>1, <1>2, <2>3, WrittenOK
  <2> QED
    BY <2>4 DEF y
<1>6. CASE x.kind = "unsupported"
  <2>1. y = [row |-> [end EXCEPT !.node = x.at], said |-> x.said, asked |-> FALSE]
    BY <1>6 DEF Leave, Result
  <2>2. Written(s, [end EXCEPT !.node = x.at], x.at, "ended")
    <3> HIDE DEF y
    <3> QED
      BY <1>1 DEF Written, RowFields
  <2> HIDE DEF y, s
  <2>3. Written(s, y.row, x.at, "ended") /\ y.said = x.said /\ y.asked = FALSE
    BY <2>1, <2>2
  <2>4. ResultOK(r, y)
    BY <1>1, <2>3, WrittenOK
  <2> QED
    BY <2>4 DEF y
<1>7. CASE x.kind = "handoff"
  <2>1. y = [Switch(s, NodeAt(f, x.at)) EXCEPT !.said = x.said]
    BY <1>7 DEF Leave
  <2>2. x.at \in Ids(f) /\ NodeAt(f, x.at).kind = "handoff"
    BY <1>7 DEF WayOK, ExitOn
  <2>3. ResultOK(r, [Switch(s, NodeAt(f, x.at)) EXCEPT !.said = x.said])
    <3> HIDE DEF y, s
    <3> QED
      BY <1>1, <2>2, SwitchOK
  <2> QED
    BY <2>1, <2>3
<1> QED
  BY <1>1, <1>3, <1>4, <1>5, <1>6, <1>7 DEF WayKinds

\* runTurn: every result of a turn with copy r of a row.
LEMMA ResultsOK ==
  ASSUME Histories, NEW r, RowOK(r), NEW bye \in BOOLEAN, NEW x \in Results(Pinned(r), r, bye)
  PROVE  ResultOK(r, x)
<1> DEFINE c == Pinned(r)
           f == TextFlow(c)
<1>1. c \in Config /\ (HasFlow(c) => FlowFacts(f))
  BY PinnedFlow
<1>2. DOMAIN r = RowFields /\ RowTyped(r, f) /\ r.status \in {"active", "ended"}
  BY DEF RowOK, RowTyped
<1>3. CASE HasFlow(c) /\ r.node \in Ids(f)
  <2> DEFINE n == NodeAt(f, r.node)
             s == IF r.armed = n.id THEN r ELSE Arm(r, n)
             judged == {Judged(s, n, got) : got \in UNION {[J -> BOOLEAN] : J \in SUBSET LiveGoals(s, n)}}
             stay == {j \in judged : n.objectives = <<>> \/ ~Done(j, n)}
  <2>1. x \in {Result(j, FALSE, TRUE) : j \in stay}
              \cup {Leave(c, w, bye) : w \in UNION {Advance(f, n, j) : j \in judged \ stay}}
    BY <1>3 DEF Results
  <2>2. r.node # None /\ n.id = r.node /\ NodeFacts(f, n)
    BY <1>1, <1>3, NodeAtFacts
  <2>3. RowTyped(s, f) /\ Same(r, s) /\ s.armed = r.node
    <3>1. CASE r.armed = n.id
      BY <1>2, <2>2, <3>1 DEF Same
    <3>2. CASE r.armed # n.id
      BY <1>1, <1>2, <1>3, <3>2, ArmOK
    <3> QED
      BY <3>1, <3>2
  <2> HIDE DEF s
  <2>4. ASSUME NEW j \in judged
        PROVE  /\ RowTyped(j, f) /\ Same(r, j) /\ j.armed = r.node
               /\ \E J \in SUBSET LiveGoals(s, n) : \E got \in [J -> BOOLEAN] : j = Judged(s, n, got)
    <3>1. PICK J \in SUBSET LiveGoals(s, n) : \E got \in [J -> BOOLEAN] : j = Judged(s, n, got)
      OBVIOUS
    <3>2. PICK got \in [J -> BOOLEAN] : j = Judged(s, n, got)
      BY <3>1
    <3>3. RowTyped(j, f) /\ Same(s, j) /\ j.armed = r.node
      BY <1>1, <1>3, <2>3, <3>2, JudgedOK
    <3>4. Same(r, j)
      BY <2>3, <3>3 DEF Same
    <3> QED
      BY <3>1, <3>3, <3>4
  <2>5. ASSUME NEW j \in stay, x = Result(j, FALSE, TRUE)
        PROVE  ResultOK(r, x)
    <3>1. RowTyped(j, f) /\ Same(r, j) /\ j.armed = r.node
      BY <2>4
    <3>2. x.row = j /\ x.said = FALSE /\ x.asked = TRUE
      BY <2>5 DEF Result
    <3>3. Pinned(j) = c
      BY <3>1 DEF Same, Pinned
    <3>4. RowOK(j)
      BY <1>2, <1>3, <3>1, <3>3 DEF RowOK, Same
    <3>5. ASSUME Patient(r, 1), AtLimitedEntry(j)
          PROVE  j.armed = j.node /\ Burnt(j, n, 0) /\ ~Done(j, n)
      <4>1. AtLimitedEntry(r) /\ Limited(f, n) /\ j.node = r.node
        BY <3>1, <3>3, <3>5 DEF AtLimitedEntry, Same
      <4>2. ~Done(j, n)
        BY <4>1 DEF Limited
      <4>3. ASSUME Burnt(s, n, 1)
            PROVE  Burnt(j, n, 0)
        <5>1. PICK J \in SUBSET LiveGoals(s, n) : \E got \in [J -> BOOLEAN] : j = Judged(s, n, got)
          BY <2>4
        <5>2. PICK got \in [J -> BOOLEAN] : j = Judged(s, n, got)
          BY <5>1
        <5>3. s.here \in Nat
          BY <2>3 DEF RowOK, Same
        <5>4. ~Done(Judged(s, n, got), n)
          BY <4>2, <5>2
        <5>5. Burnt(Judged(s, n, got), n, 0)
          BY <1>1, <1>3, <2>3, <4>1, <4>3, <5>3, <5>4, PassBurns
        <5> QED
          BY <5>2, <5>5
      <4>4. CASE r.armed = None /\ r.here = 1
        <5>1. s = Arm(r, n)
          BY <2>2, <4>4 DEF s
        <5>2. Burnt(s, n, 1)
          BY <1>1, <1>2, <1>3, <4>1, <4>4, <5>1, FreshlyBurnt
        <5> QED
          BY <3>1, <4>1, <4>2, <4>3, <5>2 DEF Same
      <4>5. CASE r.armed = r.node /\ Burnt(r, n, 1)
        <5>1. s = r
          BY <2>2, <4>5 DEF s
        <5> QED
          BY <3>1, <4>1, <4>2, <4>5, <4>3, <5>1 DEF Same
      <4> QED
        BY <3>5, <4>1, <4>4, <4>5 DEF Patient
    <3>6. Patient(r, 1) => Patient(j, 0)
      <4>1. AtLimitedEntry(j) => NodeAt(TextFlow(Pinned(j)), j.node) = n
        BY <3>1, <3>3 DEF Same
      <4> QED
        BY <3>5, <4>1 DEF Patient
    <3> QED
      BY <3>1, <3>2, <3>4, <3>6 DEF ResultOK, Same
  <2>6. ASSUME NEW j \in judged, NEW w \in Advance(f, n, j), x = Leave(c, w, bye)
        PROVE  ResultOK(r, x)
    <3>1. Out(f, r, Advance(f, n, j))
      BY <1>1, <1>3, <2>4, AdvanceOK
    <3>2. WayOK(f, r, w) /\ w.kind # "on"
      BY <3>1 DEF Out, WaysOK
    <3> QED
      BY <1>3, <2>6, <3>2, LeaveOK
  <2> QED
    BY <2>1, <2>5, <2>6
<1>4. CASE ~(HasFlow(c) /\ r.node \in Ids(f))
  <2>1. ~HasFlow(c) \/ r.node = None
    BY <1>4 DEF RowOK
  <2>2. CASE c \in Continues /\ HasFlow(c) /\ r.node = None
    <3> DEFINE e == [r EXCEPT !.status = IF bye THEN "ended" ELSE @]
    <3>1. x = [row |-> e, said |-> FALSE, asked |-> TRUE]
      BY <1>4, <2>2 DEF Results, Result
    <3>2. Written(r, e, None, IF bye THEN "ended" ELSE r.status)
      BY <1>2, <2>2 DEF Written, RowFields
    <3> HIDE DEF e
    <3>3. Same(r, r) /\ ExitOn(f, None) /\ (IF bye THEN "ended" ELSE r.status) \in {r.status, "ended"}
      BY DEF Same, ExitOn
    <3>4. Written(r, x.row, None, IF bye THEN "ended" ELSE r.status) /\ x.said = FALSE /\ x.asked = TRUE
      BY <3>1, <3>2
    <3> QED
      BY <1>2, <2>2, <3>3, <3>4, WrittenOK
  <2>3. CASE ~(c \in Continues /\ HasFlow(c) /\ r.node = None)
    <3>1. x = [row |-> r, said |-> FALSE, asked |-> TRUE]
      BY <1>4, <2>3 DEF Results, Result
    <3>2. ~AtLimitedEntry(r)
      BY <2>1 DEF AtLimitedEntry
    <3> QED
      BY <3>1, <3>2 DEF ResultOK, Patient
  <2> QED
    BY <2>2, <2>3
<1> QED
  BY <1>3, <1>4

-----------------------------------------------------------------------------
(* The inductive invariants                                                  *)

\* Histories only grow.
Grown ==
  \A a \in Agent : /\ Len(history[a]) <= Len(history'[a])
                   /\ \A v \in 1 .. Len(history[a]) : history'[a][v] = history[a][v]

LEMMA HistoriesGrow ==
  ASSUME Histories, EditAgents \/ UNCHANGED history
  PROVE  Histories' /\ Grown
<1>1. CASE UNCHANGED history
  BY <1>1 DEF Histories, Grown
<1>2. CASE EditAgents
  <2>1. PICK a \in Agent : Catalog!Delete(a) \/ Catalog!Edit(a)
    BY <1>2 DEF EditAgents
  <2>2. CASE Catalog!Delete(a)
    BY <2>2 DEF Catalog!Delete, Histories, Grown
  <2>3. CASE Catalog!Edit(a)
    <3>1. PICK p \in Edits : history' = [history EXCEPT ![a] = Append(history[a], p)]
      BY <2>3 DEF Catalog!Edit, Catalog!Publish, Instead
    <3>2. p \in Config /\ history[a] \in Seq(Config)
      BY Shape DEF Histories
    <3>3. Append(history[a], p) \in Seq(Config)
      BY <3>2
    <3>4. Histories'
      BY <3>1, <3>3 DEF Histories
    <3>5. \A b \in Agent : history[b] \in Seq(Config)
      BY DEF Histories
    <3>6. Grown
      BY <3>1, <3>2, <3>5 DEF Grown, Histories
    <3> QED
      BY <3>4, <3>6
  <2> QED
    BY <2>1, <2>2, <2>3
<1> QED
  BY <1>1, <1>2

LEMMA RowStays ==
  ASSUME Histories, Grown, NEW r, RowOK(r)
  PROVE  /\ RowOK(r)'
         /\ \A k : Patient(r, k) <=> Patient(r, k)'
<1>1. Pinned(r)' = Pinned(r) /\ r.version \in 1 .. Len(history'[r.agent])
  BY DEF Histories, Grown, RowOK, Pinned
<1>2. RowOK(r)'
  BY <1>1 DEF RowOK
<1>3. AtLimitedEntry(r)' <=> AtLimitedEntry(r)
  BY <1>1 DEF AtLimitedEntry
<1> QED
  BY <1>1, <1>2, <1>3 DEF Patient

\* The turns a request has counted but not judged.
Owed(x) == IF x.stage = "loaded" THEN 1 ELSE 0

\* What a request holds at each stage of its turn.
RequestOK(x) ==
  /\ DOMAIN x = {"stage", "copy", "seen", "said", "replied", "failed"}
  /\ x.stage \in {"read", "ending", "loaded", "ran"}
  /\ RowOK(x.copy) /\ x.seen \in Nat
  /\ x.stage \in {"read", "ending"} => x.copy.turns < arrivals /\ x.copy.condensed <= messages
  /\ x.stage = "loaded" => /\ x.copy.turns <= arrivals /\ x.copy.condensed <= messages
                           /\ x.seen <= messages + 1
  /\ x.stage = "ran" =>
       /\ x.copy.turns <= arrivals
       /\ x.copy.condensed <= messages + IF x.said \/ x.replied THEN 2 ELSE 1
       /\ x.said \/ x.replied \/ x.copy.status = "ended" \/ x.failed

Counters == messages \in Nat /\ arrivals \in 0 .. MaxArrivals

Begun == row # Idle \/ \E t \in Request : turn[t] # Idle

Rows == Begun => RowOK(row) /\ row.turns <= arrivals /\ row.condensed <= messages

Requests ==
  /\ DOMAIN turn = Request /\ turn = [t \in Request |-> turn[t]]
  /\ \A t \in Request : turn[t] # Idle => RequestOK(turn[t])

IInv == Histories /\ history[First] # <<>> /\ Counters /\ Rows /\ Requests

\* What every step does to the agents and the counters; it takes nothing from what a
\* request holds.
Upward ==
  /\ Histories /\ Grown /\ Counters /\ Counters'
  /\ messages <= messages' /\ arrivals <= arrivals'

LEMMA RequestStays ==
  ASSUME Upward, NEW x, RequestOK(x)
  PROVE  RequestOK(x)'
<1>1. RowOK(x.copy)'
  BY RowStays DEF RequestOK, Upward
<1>2. /\ messages <= messages' /\ arrivals <= arrivals'
      /\ messages \in Nat /\ messages' \in Nat /\ arrivals \in Nat /\ arrivals' \in Nat
  BY Shape DEF Counters, Upward
<1>3. x.copy.turns \in Nat /\ x.copy.condensed \in Nat
  BY DEF RequestOK, RowOK
<1> QED
  BY <1>1, <1>2, <1>3 DEF RequestOK

LEMMA RequestsStay ==
  ASSUME Upward, Requests, NEW t \in Request, NEW x, x # Idle => RequestOK(x)', Set(t, x)
  PROVE  Requests'
<1>1. turn' = [turn EXCEPT ![t] = x] /\ DOMAIN turn = Request
  BY DEF Set, Requests
<1>2. \A u \in Request : turn'[u] = IF u = t THEN x ELSE turn[u]
  BY <1>1
<1>3. ASSUME NEW u \in Request, turn'[u] # Idle
      PROVE  RequestOK(turn[u])'
  <2>1. CASE u = t
    BY <1>2, <1>3, <2>1
  <2>2. CASE u # t
    <3>1. PICK y : y = turn[u]
      OBVIOUS
    <3>2. turn'[u] = y /\ RequestOK(y)
      BY <1>2, <1>3, <2>2, <3>1 DEF Requests
    <3>3. RequestOK(y)'
      BY <3>2, RequestStays
    <3> QED
      BY <3>2, <3>3
  <2> QED
    BY <2>1, <2>2
<1>4. turn' = [u \in Request |-> turn'[u]]
  BY <1>1
<1> QED
  BY <1>1, <1>3, <1>4 DEF Requests

LEMMA RequestsKept ==
  ASSUME Upward, Requests, UNCHANGED turn
  PROVE  Requests'
<1>1. ASSUME NEW u \in Request, turn'[u] # Idle
      PROVE  RequestOK(turn[u])'
  <2>1. PICK y : y = turn[u]
    OBVIOUS
  <2>2. turn'[u] = y /\ RequestOK(y)
    BY <1>1, <2>1 DEF Requests
  <2>3. RequestOK(y)'
    BY <2>2, RequestStays
  <2> QED
    BY <2>2, <2>3
<1> QED
  BY <1>1 DEF Requests

LEMMA RowsKept ==
  ASSUME Upward, Rows, UNCHANGED row, Begun' => Begun
  PROVE  Rows'
<1> SUFFICES ASSUME Begun'
             PROVE  (RowOK(row) /\ row.turns <= arrivals /\ row.condensed <= messages)'
  BY DEF Rows
<1>1. PICK r : r = row
  OBVIOUS
<1>2. row' = r /\ RowOK(r) /\ r.turns <= arrivals /\ r.condensed <= messages
  BY <1>1 DEF Rows
<1>3. RowOK(r)'
  BY <1>2, RowStays DEF Upward
<1>4. r.turns <= arrivals' /\ r.condensed <= messages'
  <2>1. /\ messages <= messages' /\ arrivals <= arrivals'
        /\ messages \in Nat /\ messages' \in Nat /\ arrivals \in Nat /\ arrivals' \in Nat
    BY Shape DEF Counters, Upward
  <2>2. r.turns \in Nat /\ r.condensed \in Nat
    BY <1>2 DEF RowOK
  <2> QED
    BY <1>2, <2>1, <2>2
<1> QED
  BY <1>2, <1>3, <1>4

LEMMA InitOK == ASSUME Init PROVE IInv
<1>1. Histories /\ history[First] # <<>>
  BY Shape DEF Init, Histories
<1>2. Counters /\ Rows
  BY Shape DEF Init, Counters, Rows, Begun
<1>3. Requests
  BY DEF Init, Requests
<1> QED
  BY <1>1, <1>2, <1>3 DEF IInv

\* A step that leaves the agents alone.
LEMMA AgentsStay ==
  ASSUME IInv, UNCHANGED history, Counters', messages <= messages', arrivals <= arrivals'
  PROVE  Upward /\ Histories' /\ history'[First] # <<>>
<1>1. Histories' /\ Grown
  BY HistoriesGrow DEF IInv
<1> QED
  BY <1>1 DEF IInv, Upward

LEMMA CountersStay ==
  ASSUME Counters, UNCHANGED <<messages, arrivals>>
  PROVE  Counters' /\ messages <= messages' /\ arrivals <= arrivals'
<1>1. messages \in Nat /\ arrivals \in Nat
  BY Shape DEF Counters
<1> QED
  BY <1>1 DEF Counters

\* The row that opens a conversation.
LEMMA OpenedRow ==
  ASSUME IInv, Open
  PROVE  /\ RowOK(row') /\ row'.turns = 0 /\ row'.condensed = 0
         /\ Patient(row', 0)
<1>1. PICK known \in OnFile :
        row' = [status |-> "active", agent |-> First, version |-> Len(history[First]),
                node |-> EntryOf(history[First][Len(history[First])]), armed |-> None,
                progress |-> <<>>, known |-> known, tags |-> {}, turns |-> 0, here |-> 0,
                condensed |-> 0]
  BY DEF Open
<1> DEFINE v == Len(history[First])
           c == history[First][v]
<1>2. PICK r : r = row'
  OBVIOUS
<1>3. /\ r.status = "active" /\ r.agent = First /\ r.version = v /\ r.node = EntryOf(c)
      /\ r.armed = None /\ r.progress = <<>> /\ r.known = known /\ r.tags = {}
      /\ r.turns = 0 /\ r.here = 0 /\ r.condensed = 0 /\ DOMAIN r = RowFields
  BY <1>1, <1>2 DEF RowFields
<1>4. First \in Agent /\ known \subseteq Field
  BY <1>1, Shape
<1>5. v \in 1 .. Len(history[First]) /\ c \in Config
  BY <1>4 DEF IInv, Histories
<1> HIDE DEF c, v
<1>6. Pinned(r) = c
  BY <1>3 DEF Pinned, c
<1>7. RowTyped(r, TextFlow(c))
  BY <1>3, <1>4 DEF RowTyped, Armed
<1>8. RowOK(r)
  BY <1>3, <1>4, <1>5, <1>6, <1>7, EntryIn DEF RowOK
<1>9. Patient(r, 0)
  BY <1>3 DEF Patient
<1> QED
  BY <1>2, <1>3, <1>8, <1>9

LEMMA OpenOK == ASSUME IInv, Open PROVE IInv'
<1>1. UNCHANGED <<history, deleted, messages, turn, arrivals>>
  BY DEF Open
<1>2. Counters' /\ messages <= messages' /\ arrivals <= arrivals'
  BY <1>1, CountersStay DEF IInv
<1>3. Upward /\ Histories' /\ history'[First] # <<>>
  BY <1>1, <1>2, AgentsStay
<1>4. Requests'
  BY <1>1, <1>3, RequestsKept DEF IInv
<1>5. PICK r : r = row'
  OBVIOUS
<1>6. RowOK(r) /\ r.turns = 0 /\ r.condensed = 0
  BY <1>5, OpenedRow
<1>7. RowOK(r)'
  BY <1>3, <1>6, RowStays DEF Upward
<1>8. Rows'
  <2>1. r.turns <= arrivals' /\ r.condensed <= messages'
    BY <1>2, <1>6, Shape DEF Counters
  <2> QED
    BY <1>5, <1>7, <2>1 DEF Rows
<1> QED
  BY <1>2, <1>3, <1>4, <1>8 DEF IInv

LEMMA ArriveOK ==
  ASSUME IInv, NEW t \in Request, NEW kind \in {"read", "ending"}, Arrive(t, kind)
  PROVE  IInv'
<1>1. /\ row # Idle /\ arrivals < MaxArrivals /\ arrivals' = arrivals + 1
      /\ UNCHANGED <<history, deleted, row, messages>>
  BY DEF Arrive
<1>2. arrivals \in Nat /\ messages \in Nat /\ MaxArrivals \in Nat
  BY Shape DEF IInv, Counters
<1>3. Counters' /\ messages <= messages' /\ arrivals <= arrivals'
  BY <1>1, <1>2, Shape DEF IInv, Counters
<1>4. Upward /\ Histories' /\ history'[First] # <<>>
  BY <1>1, <1>3, AgentsStay
<1>5. PICK x : x = [stage |-> kind, copy |-> row, seen |-> 0, said |-> FALSE,
                    replied |-> FALSE, failed |-> FALSE]
  OBVIOUS
<1>6. Set(t, x)
  BY <1>5 DEF Arrive
<1>7. RequestOK(x)'
  <2>1. x.copy = row /\ RowOK(x.copy) /\ row.turns <= arrivals /\ row.condensed <= messages
    BY <1>1, <1>5 DEF IInv, Rows, Begun
  <2>2. RowOK(x.copy)'
    BY <1>4, <2>1, RowStays DEF Upward
  <2>3. x.copy.turns < arrivals' /\ x.copy.condensed <= messages'
    <3>1. x.copy.turns \in Nat /\ x.copy.condensed \in Nat
      BY <2>1 DEF RowOK
    <3> QED
      BY <1>1, <1>2, <2>1, <3>1
  <2> QED
    BY <1>5, <2>2, <2>3 DEF RequestOK
<1>8. Requests'
  BY <1>4, <1>6, <1>7, RequestsStay DEF IInv
<1>9. Rows'
  BY <1>1, <1>4, RowsKept DEF IInv, Begun
<1> QED
  BY <1>3, <1>4, <1>8, <1>9 DEF IInv

\* A request's step that writes only what it holds.
LEMMA OwnStep ==
  ASSUME IInv, UNCHANGED <<history, deleted, row, messages, arrivals>>,
         NEW t \in Request, turn[t] # Idle, NEW x, Set(t, x), x # Idle => RequestOK(x)
  PROVE  IInv'
<1>1. Counters' /\ messages <= messages' /\ arrivals <= arrivals'
  BY CountersStay DEF IInv
<1>2. Upward /\ Histories' /\ history'[First] # <<>>
  BY <1>1, AgentsStay
<1>3. x # Idle => RequestOK(x)'
  BY <1>2, RequestStays
<1>4. Requests'
  BY <1>2, <1>3, RequestsStay DEF IInv
<1>5. Rows'
  BY <1>2, RowsKept DEF IInv, Begun
<1> QED
  BY <1>1, <1>2, <1>4, <1>5 DEF IInv

\* A copy of the row with other counters; a turn that is counted is owed.
LEMMA Recounted ==
  ASSUME Histories, NEW r, RowOK(r), NEW s, DOMAIN s = RowFields,
         s.turns \in Nat, s.here \in Nat, s.condensed \in Nat,
         \A k \in RowFields \ {"turns", "here", "condensed"} : s[k] = r[k]
  PROVE  /\ RowOK(s) /\ Pinned(s) = Pinned(r)
         /\ s.here = r.here /\ Patient(r, 0) => Patient(s, 0)
         /\ s.here = r.here + 1 /\ Patient(r, 0) => Patient(s, 1)
<1>1. /\ s.status = r.status /\ s.agent = r.agent /\ s.version = r.version /\ s.node = r.node
      /\ s.armed = r.armed /\ s.progress = r.progress /\ s.known = r.known /\ s.tags = r.tags
  BY DEF RowFields
<1>2. Pinned(s) = Pinned(r)
  BY <1>1 DEF Pinned
<1>3. RowOK(s)
  BY <1>1, <1>2 DEF RowOK, RowTyped, Armed
<1>4. ASSUME Patient(r, 0), NEW k \in {0, 1}, s.here = r.here + k
      PROVE  Patient(s, k)
  <2> DEFINE f == TextFlow(Pinned(r))
             n == NodeAt(f, r.node)
  <2> SUFFICES ASSUME AtLimitedEntry(s)
               PROVE  \/ s.armed = None /\ s.here = k
                      \/ s.armed = s.node /\ Burnt(s, n, k) /\ ~Done(s, n)
    BY <1>1, <1>2 DEF Patient
  <2>1. AtLimitedEntry(r)
    BY <1>1, <1>2 DEF AtLimitedEntry
  <2>2. HasFlow(Pinned(r)) /\ r.node # None /\ r.node \in Ids(f) /\ RowTyped(r, f) /\ r.here \in Nat
    BY <2>1 DEF AtLimitedEntry, RowOK
  <2>3. FlowFacts(f)
    BY <2>2, PinnedFlow
  <2>4. \/ r.armed = None /\ r.here = 0
        \/ r.armed = r.node /\ Burnt(r, n, 0) /\ ~Done(r, n)
    BY <1>4, <2>1 DEF Patient
  <2>5. CASE r.armed = None /\ r.here = 0
    BY <1>1, <1>4, <2>5
  <2>6. CASE r.armed = r.node /\ Burnt(r, n, 0) /\ ~Done(r, n)
    <3>1. Len(n.objectives) \in Nat /\ Attempts(r) \in [1 .. Len(n.objectives) -> Nat]
      BY <2>2, <2>3, <2>6, AttemptsType
    <3>2. Total(Attempts(r)) \in Nat
      <4> HIDE DEF n
      <4> QED
        BY <3>1, TotalSums
    <3>3. Attempts(s) = Attempts(r)
      BY <1>1 DEF Attempts
    <3>4. Burnt(s, n, k)
      <4>1. r.here <= Total(Attempts(r)) + 0
        BY <2>6 DEF Burnt
      <4>2. s.here <= Total(Attempts(s)) + k
        BY <1>4, <2>2, <3>2, <3>3, <4>1
      <4> QED
        BY <1>1, <2>6, <3>3, <4>2 DEF Burnt
    <3>5. ~Done(s, n)
      BY <1>1, <2>6 DEF Done
    <3> QED
      BY <1>1, <2>6, <3>4, <3>5
  <2> QED
    BY <2>4, <2>5, <2>6
<1>5. s.here = r.here /\ Patient(r, 0) => Patient(s, 0)
  <2>1. r.here \in Nat
    BY DEF RowOK
  <2> QED
    BY <1>4, <2>1
<1>6. s.here = r.here + 1 /\ Patient(r, 0) => Patient(s, 1)
  BY <1>4
<1> QED
  BY <1>2, <1>3, <1>5, <1>6

\* What a request holds before (y) and after (x) its turn is counted.
LoadedOK(y, x) ==
  x # Idle => RequestOK(x) /\ (Patient(y.copy, Owed(y)) => Patient(x.copy, Owed(x)))

LEMMA Loads == ASSUME IInv, NEW t \in Request, Load(t)
               PROVE  \E x : Set(t, x) /\ LoadedOK(turn[t], x)
<1>1. turn[t] # Idle /\ turn[t].stage = "read" /\ UNCHANGED <<history, deleted, row, messages, arrivals>>
  BY DEF Load
<1>2. PICK y : y = turn[t]
  OBVIOUS
<1>3. RequestOK(y) /\ y.stage = "read"
  BY <1>1, <1>2 DEF IInv, Requests
<1>4. CASE Set(t, Idle)
  BY <1>4 DEF LoadedOK
<1>5. CASE ~Set(t, Idle)
  <2> DEFINE x == [y EXCEPT !.stage = "loaded", !.seen = messages + 1,
                            !.copy.turns = @ + 1, !.copy.here = @ + 1]
             s == [y.copy EXCEPT !.turns = @ + 1, !.here = @ + 1]
  <2>1. Set(t, x)
    BY <1>2, <1>5 DEF Load
  <2>2. RowOK(y.copy) /\ DOMAIN y.copy = RowFields
        /\ y.copy.turns \in Nat /\ y.copy.here \in Nat /\ y.copy.condensed \in Nat
    BY <1>3 DEF RequestOK, RowOK, RowTyped
  <2>3. /\ DOMAIN s = RowFields /\ s.turns = y.copy.turns + 1 /\ s.here = y.copy.here + 1
        /\ s.condensed = y.copy.condensed
    BY <2>2 DEF RowFields
  <2>4. RowOK(s) /\ (Patient(y.copy, 0) => Patient(s, 1))
    <3>1. \A k \in RowFields \ {"turns", "here", "condensed"} : s[k] = y.copy[k]
      BY <2>2 DEF RowFields
    <3> HIDE DEF s
    <3> QED
      BY <2>2, <2>3, <3>1, Recounted DEF IInv
  <2>5. DOMAIN y = {"stage", "copy", "seen", "said", "replied", "failed"}
    BY <1>3 DEF RequestOK
  <2>6. DOMAIN x = DOMAIN y /\ x.stage = "loaded" /\ x.seen = messages + 1 /\ x.copy = s
    BY <2>5
  <2> HIDE DEF x, s
  <2>7. messages \in Nat /\ arrivals \in Nat
    BY Shape DEF IInv, Counters
  <2>8. RequestOK(x)
    BY <1>3, <2>2, <2>3, <2>4, <2>5, <2>6, <2>7 DEF RequestOK
  <2>9. Owed(y) = 0 /\ Owed(x) = 1
    BY <1>3, <2>6 DEF Owed
  <2>10. LoadedOK(y, x)
    BY <2>4, <2>6, <2>8, <2>9 DEF LoadedOK
  <2> QED
    BY <1>2, <2>1, <2>10
<1> QED
  BY <1>4, <1>5

LEMMA LoadOK == ASSUME IInv, NEW t \in Request, Load(t) PROVE IInv'
<1>1. PICK x : Set(t, x) /\ LoadedOK(turn[t], x)
  BY Loads
<1>2. turn[t] # Idle /\ UNCHANGED <<history, deleted, row, messages, arrivals>>
  BY DEF Load
<1> QED
  BY <1>1, <1>2, OwnStep DEF LoadedOK

\* What a request holds before (y) and after (z) the model calls of its turn.
RanOK(y, z) ==
  /\ RequestOK(z) /\ z.stage = "ran"
  /\ Patient(y.copy, 1) => Patient(z.copy, 0)

LEMMA RunsOn == ASSUME IInv, NEW t \in Request, Run(t)
              PROVE  \E z : Set(t, z) /\ RanOK(turn[t], z)
<1>1. turn[t] # Idle /\ turn[t].stage = "loaded" /\ UNCHANGED <<history, deleted, row, messages, arrivals>>
  BY DEF Run
<1>2. PICK y : y = turn[t]
  OBVIOUS
<1>3. RequestOK(y) /\ y.stage = "loaded" /\ RowOK(y.copy)
  BY <1>1, <1>2 DEF IInv, Requests, RequestOK
<1> DEFINE Ran(y0, fails, x) ==
             LET replied == x.asked /\ ~fails
                 seen    == y0.seen + IF x.said \/ replied THEN 1 ELSE 0
             IN /\ fails => x.asked
                /\ \E r \in Condensed(x.row, seen) :
                     Set(t, [y0 EXCEPT !.stage = "ran", !.copy = r, !.seen = seen, !.said = x.said,
                                       !.replied = replied, !.failed = fails])
<1>a. \E bye, fails \in BOOLEAN : \E x \in Results(Pinned(turn[t].copy), turn[t].copy, bye) :
        Ran(turn[t], fails, x)
  BY DEF Run
<1>b. \E bye, fails \in BOOLEAN : \E x \in Results(Pinned(y.copy), y.copy, bye) : Ran(y, fails, x)
  <2> HIDE DEF Ran
  <2> QED
    BY <1>2, <1>a
<1>4. PICK bye \in BOOLEAN : \E fails \in BOOLEAN : \E x \in Results(Pinned(y.copy), y.copy, bye) :
        Ran(y, fails, x)
  <2> HIDE DEF Ran
  <2> QED
    BY <1>b
<1>5. PICK fails \in BOOLEAN : \E x \in Results(Pinned(y.copy), y.copy, bye) : Ran(y, fails, x)
  <2> HIDE DEF Ran
  <2> QED
    BY <1>4
<1>6. PICK x \in Results(Pinned(y.copy), y.copy, bye) :
        LET replied == x.asked /\ ~fails
            seen    == y.seen + IF x.said \/ replied THEN 1 ELSE 0
        IN /\ fails => x.asked
           /\ \E r \in Condensed(x.row, seen) :
                Set(t, [y EXCEPT !.stage = "ran", !.copy = r, !.seen = seen, !.said = x.said,
                                 !.replied = replied, !.failed = fails])
  BY <1>5
<1> DEFINE replied == x.asked /\ ~fails
           heard   == x.said \/ replied
           seen    == y.seen + IF heard THEN 1 ELSE 0
<1>7. PICK r \in Condensed(x.row, seen) :
        Set(t, [y EXCEPT !.stage = "ran", !.copy = r, !.seen = seen, !.said = x.said,
                         !.replied = replied, !.failed = fails])
  BY <1>6
<1>8. ResultOK(y.copy, x)
  BY <1>3, <1>4, <1>6, ResultsOK DEF IInv
<1>9. /\ y.seen \in Nat /\ seen \in Nat /\ messages \in Nat /\ arrivals \in Nat
      /\ y.seen <= messages + 1 /\ y.copy.turns <= arrivals /\ y.copy.condensed <= messages
      /\ Window \in Nat \ {0}
      /\ seen <= messages + IF heard THEN 2 ELSE 1
  <2>1. y.seen \in Nat /\ messages \in Nat /\ arrivals \in Nat /\ y.seen <= messages + 1
    BY <1>3, Shape DEF IInv, Counters, RequestOK
  <2>2. seen \in Nat /\ seen <= messages + IF heard THEN 2 ELSE 1
    <3> HIDE DEF heard
    <3> QED
      BY <2>1
  <2> QED
    BY <1>3, <2>1, <2>2, Shape DEF RequestOK
<1> DEFINE z == [y EXCEPT !.stage = "ran", !.copy = r, !.seen = seen, !.said = x.said,
                          !.replied = replied, !.failed = fails]
<1>10. /\ DOMAIN z = DOMAIN y /\ z.stage = "ran" /\ z.copy = r /\ z.seen = seen
       /\ z.said = x.said /\ z.replied = replied /\ z.failed = fails
  BY <1>3 DEF RequestOK
<1>11. /\ RowOK(r) /\ r.turns = y.copy.turns /\ r.status = x.row.status
       /\ r.condensed <= messages + IF heard THEN 2 ELSE 1
       /\ Patient(x.row, 0) => Patient(r, 0)
  <2> HIDE DEF z, heard, seen
  <2>1. RowOK(x.row) /\ x.row.turns = y.copy.turns /\ x.row.condensed = y.copy.condensed
        /\ DOMAIN x.row = RowFields
        /\ x.row.turns \in Nat /\ x.row.here \in Nat /\ x.row.condensed \in Nat
    BY <1>8 DEF ResultOK, RowOK, RowTyped
  <2>2. CASE r = x.row
    BY <1>9, <2>1, <2>2
  <2>3. CASE r = [x.row EXCEPT !.condensed = seen - Window] /\ ~(seen <= Window)
    <3>1. /\ DOMAIN r = RowFields /\ r.condensed = seen - Window
          /\ r.turns = x.row.turns /\ r.here = x.row.here
          /\ r.status = x.row.status
      BY <2>1, <2>3 DEF RowFields
    <3>2. \A k \in RowFields \ {"turns", "here", "condensed"} : r[k] = x.row[k]
      BY <2>1, <2>3 DEF RowFields
    <3>3. seen - Window \in Nat
      BY <1>9, <2>3
    <3>4. RowOK(r) /\ (Patient(x.row, 0) => Patient(r, 0))
      <4>1. r.turns \in Nat /\ r.here \in Nat /\ r.condensed \in Nat /\ r.here = x.row.here
        BY <2>1, <3>1, <3>3
      <4> QED
        BY <2>1, <3>1, <3>2, <4>1, Recounted DEF IInv
    <3> QED
      BY <1>9, <2>1, <3>1, <3>3, <3>4
  <2> QED
    BY <1>7, <2>2, <2>3 DEF Condensed
<1>12. z.said \/ z.replied \/ z.copy.status = "ended" \/ z.failed
  BY <1>8, <1>10, <1>11 DEF ResultOK
<1>13. (z.said \/ z.replied) <=> heard
  BY <1>10
<1> HIDE DEF z, replied, heard, seen
<1>14. RequestOK(z)
  BY <1>3, <1>9, <1>10, <1>11, <1>12, <1>13 DEF RequestOK
<1>15. Set(t, z)
  BY <1>7 DEF z
<1>16. Patient(y.copy, 1) => Patient(z.copy, 0)
  BY <1>8, <1>10, <1>11 DEF ResultOK
<1> QED
  BY <1>2, <1>10, <1>14, <1>15, <1>16 DEF RanOK

LEMMA RunOK == ASSUME IInv, NEW t \in Request, Run(t) PROVE IInv'
<1>1. PICK z : Set(t, z) /\ RanOK(turn[t], z)
  BY RunsOn
<1>2. turn[t] # Idle /\ UNCHANGED <<history, deleted, row, messages, arrivals>>
  BY DEF Run
<1> QED
  BY <1>1, <1>2, OwnStep DEF RanOK

LEMMA PersistOK == ASSUME IInv, NEW t \in Request, Persist(t) PROVE IInv'
<1>1. PICK y : y = turn[t]
  OBVIOUS
<1>2. PICK r : r = y.copy
  OBVIOUS
<1>3. RequestOK(y) /\ y.stage = "ran"
  BY <1>1 DEF Persist, IInv, Requests
<1>4. /\ UNCHANGED <<history, deleted, arrivals>> /\ row' = r /\ Set(t, Idle)
      /\ messages' = messages + IF y.said \/ y.replied THEN 2 ELSE 1
  BY <1>1, <1>2 DEF Persist
<1>5. messages \in Nat /\ arrivals \in Nat
  BY Shape DEF IInv, Counters
<1>6. Counters' /\ messages <= messages' /\ arrivals <= arrivals'
  BY <1>4, <1>5 DEF IInv, Counters
<1>7. Upward /\ Histories' /\ history'[First] # <<>>
  BY <1>4, <1>6, AgentsStay
<1>8. Requests'
  BY <1>4, <1>7, RequestsStay DEF IInv
<1>9. RowOK(r)
  BY <1>2, <1>3 DEF RequestOK
<1>10. RowOK(r)'
  BY <1>7, <1>9, RowStays DEF Upward
<1>11. r.turns <= arrivals' /\ r.condensed <= messages'
  BY <1>2, <1>3, <1>4 DEF RequestOK
<1>12. Rows'
  BY <1>4, <1>10, <1>11 DEF Rows
<1> QED
  BY <1>6, <1>7, <1>8, <1>12 DEF IInv

\* A row whose conversation is ended.
LEMMA EndedRow ==
  ASSUME NEW r, RowOK(r)
  PROVE  LET s == [r EXCEPT !.status = "ended"]
         IN RowOK(s) /\ s.status = "ended" /\ s.turns = r.turns /\ s.condensed = r.condensed
<1> DEFINE s == [r EXCEPT !.status = "ended"]
<1>1. DOMAIN r = RowFields
  BY DEF RowOK, RowTyped
<1>2. /\ DOMAIN s = RowFields /\ s.status = "ended" /\ s.agent = r.agent /\ s.version = r.version
      /\ s.node = r.node /\ s.armed = r.armed /\ s.progress = r.progress /\ s.known = r.known
      /\ s.tags = r.tags /\ s.turns = r.turns /\ s.here = r.here /\ s.condensed = r.condensed
  BY <1>1 DEF RowFields
<1> HIDE DEF s
<1>3. Pinned(s) = Pinned(r)
  BY <1>2 DEF Pinned
<1>4. RowOK(s)
  BY <1>2, <1>3 DEF RowOK, RowTyped, Armed
<1> QED
  BY <1>2, <1>4 DEF s

LEMMA EndOK == ASSUME IInv, NEW t \in Request, End(t) PROVE IInv'
<1>1. /\ UNCHANGED <<history, deleted, messages, arrivals>> /\ Set(t, Idle)
      /\ row' = row \/ row' = [row EXCEPT !.status = "ended"]
  BY DEF End
<1>2. Counters' /\ messages <= messages' /\ arrivals <= arrivals'
  BY <1>1, CountersStay DEF IInv
<1>3. Upward /\ Histories' /\ history'[First] # <<>>
  BY <1>1, <1>2, AgentsStay
<1>4. Requests'
  BY <1>1, <1>3, RequestsStay DEF IInv
<1>5. PICK r : r = row'
  OBVIOUS
<1>6. RowOK(row) /\ row.turns <= arrivals /\ row.condensed <= messages
  BY DEF End, IInv, Rows, Begun
<1>7. RowOK(r) /\ r.turns = row.turns /\ r.condensed = row.condensed
  BY <1>1, <1>5, <1>6, EndedRow
<1>8. RowOK(r)'
  BY <1>3, <1>7, RowStays DEF Upward
<1>9. Rows'
  BY <1>1, <1>5, <1>6, <1>7, <1>8 DEF Rows
<1> QED
  BY <1>2, <1>3, <1>4, <1>9 DEF IInv

LEMMA EditAgentsOK == ASSUME IInv, EditAgents PROVE IInv'
<1>1. UNCHANGED <<row, messages, turn, arrivals>>
  BY DEF EditAgents
<1>2. Counters' /\ messages <= messages' /\ arrivals <= arrivals'
  BY <1>1, CountersStay DEF IInv
<1>3. Histories' /\ Grown
  BY HistoriesGrow DEF IInv
<1>4. Upward
  BY <1>2, <1>3 DEF IInv, Upward
<1>5. history'[First] # <<>>
  <2>1. Len(history[First]) <= Len(history'[First]) /\ First \in Agent
    BY <1>3, Shape DEF Grown
  <2>2. history[First] \in Seq(Config) /\ history[First] # <<>> /\ history'[First] \in Seq(Config)
    BY <1>3, <2>1 DEF IInv, Histories
  <2> QED
    BY <2>1, <2>2
<1>6. Requests'
  BY <1>1, <1>4, RequestsKept DEF IInv
<1>7. Rows'
  BY <1>1, <1>4, RowsKept DEF IInv, Begun
<1> QED
  BY <1>2, <1>3, <1>5, <1>6, <1>7 DEF IInv

LEMMA StutterOK == ASSUME IInv, UNCHANGED vars PROVE IInv'
<1>1. UNCHANGED <<history, deleted, row, messages, turn, arrivals>>
  BY DEF vars
<1>2. Counters' /\ messages <= messages' /\ arrivals <= arrivals'
  BY <1>1, CountersStay DEF IInv
<1>3. Upward /\ Histories' /\ history'[First] # <<>>
  BY <1>1, <1>2, AgentsStay
<1>4. Requests'
  BY <1>1, <1>3, RequestsKept DEF IInv
<1>5. Rows'
  BY <1>1, <1>3, RowsKept DEF IInv, Begun
<1> QED
  BY <1>2, <1>3, <1>4, <1>5 DEF IInv

LEMMA Preserved == ASSUME IInv, [Next]_vars PROVE IInv'
<1>1. CASE Open
  BY <1>1, OpenOK
<1>2. CASE EditAgents
  BY <1>2, EditAgentsOK
<1>3. ASSUME NEW t \in Request,
             Arrive(t, "read") \/ Arrive(t, "ending") \/ Load(t) \/ Run(t) \/ Persist(t) \/ End(t) \/ Break(t)
      PROVE  IInv'
  <2>1. CASE Arrive(t, "read") \/ Arrive(t, "ending")
    BY <2>1, ArriveOK
  <2>2. CASE Load(t)
    BY <2>2, LoadOK
  <2>3. CASE Run(t)
    BY <2>3, RunOK
  <2>4. CASE Persist(t)
    BY <2>4, PersistOK
  <2>5. CASE End(t)
    BY <2>5, EndOK
  <2>6. CASE Break(t)
    BY <2>6, OwnStep DEF Break
  <2> QED
    BY <1>3, <2>1, <2>2, <2>3, <2>4, <2>5, <2>6
<1>4. CASE UNCHANGED vars
  BY <1>4, StutterOK
<1> QED
  BY <1>1, <1>2, <1>3, <1>4 DEF Next

\* The inductive invariant of the text runner.
THEOREM Inductive == Spec => []IInv
<1>1. Init => IInv
  BY InitOK
<1>2. IInv /\ [Next]_vars => IInv'
  BY Preserved
<1> QED
  BY <1>1, <1>2, PTL DEF Spec

\* The row is well formed whatever requests overlap, and the mark of the summary never
\* passes the messages there are (store.ts).
THEOREM TypeCorrect == Spec => []TypeOK
<1>1. IInv => TypeOK
  <2> SUFFICES ASSUME IInv, Opened PROVE
        /\ row.status \in {"active", "ended"}
        /\ row.agent \in Agent /\ row.version \in 1 .. Len(history[row.agent])
        /\ row.known \subseteq Field /\ row.tags \subseteq Tag
        /\ row.turns \in 0 .. MaxArrivals /\ row.condensed \in 0 .. messages
        /\ \A i \in DOMAIN row.progress :
             row.progress[i].met \in BOOLEAN /\ row.progress[i].skipped \in BOOLEAN
    BY DEF TypeOK
  <2>1. RowOK(row) /\ row.turns <= arrivals /\ row.condensed <= messages
    BY DEF IInv, Rows, Begun, Opened
  <2>2. row.turns \in 0 .. MaxArrivals /\ row.condensed \in 0 .. messages
    BY <2>1, Shape DEF IInv, Counters, RowOK
  <2>3. Armed(row, TextFlow(Pinned(row)))
    BY <2>1 DEF RowOK, RowTyped
  <2>4. \A i \in DOMAIN row.progress :
          row.progress[i].met \in BOOLEAN /\ row.progress[i].skipped \in BOOLEAN
    <3>1. CASE row.armed = None
      BY <2>3, <3>1 DEF Armed
    <3>2. CASE row.armed # None
      <4>1. \A i \in DOMAIN row.progress : row.progress[i] \in Answers
        BY <2>3, <3>2 DEF Armed
      <4> QED
        BY <4>1 DEF Answers
    <3> QED
      BY <3>1, <3>2
  <2> QED
    BY <2>1, <2>2, <2>4 DEF RowOK, RowTyped
<1> QED
  BY <1>1, Inductive, PTL

\* Whatever turns, ends and edits overlap, an active conversation stands on a node of the
\* flow its own pinned version has, and its progress is about that node's objectives
\* (runTurn and the transaction of convo-runner/index.ts).
THEOREM InItsFlow == Spec => []StandsInItsFlow
<1>1. IInv => StandsInItsFlow
  <2> SUFFICES ASSUME IInv, Opened PROVE StandsInItsFlow
    BY DEF StandsInItsFlow
  <2>1. RowOK(row)
    BY DEF IInv, Rows, Begun, Opened
  <2>2. Armed(row, TextFlow(Pinned(row)))
    BY <2>1 DEF RowOK, RowTyped
  <2>3. row.armed # None /\ row.armed = row.node =>
          DOMAIN row.progress = DOMAIN NodeAt(TextFlow(Pinned(row)), row.node).objectives
    BY <2>2 DEF Armed
  <2> QED
    BY <2>1, <2>3 DEF StandsInItsFlow, RowOK
<1> QED
  BY <1>1, Inductive, PTL

\* No way through routers, handoffs and the continuation leaves an accepted message
\* without an answer, unless it ends the conversation or the model fails
\* (advance, performHandoff and replyWith of convo-runner).
THEOREM EveryoneAnswered == Spec => []Answered
<1>1. IInv => Answered
  BY DEF IInv, Requests, RequestOK, Answered
<1> QED
  BY <1>1, Inductive, PTL

-----------------------------------------------------------------------------
(* A contact who never answers                                               *)

\* Every aggregate has a part, and a part is a question of its own.
LEMMA SomeQuestion ==
  ASSUME NEW n, NodeShape(n), ObjectivesOK(n), n.objectives # <<>>
  PROVE  \E m \in DOMAIN n.objectives : n.objectives[m].parts = <<>>
<1>1. Len(n.objectives) \in Nat /\ DOMAIN n.objectives = 1 .. Len(n.objectives)
  BY Lists DEF NodeShape
<1>2. 1 \in DOMAIN n.objectives
  <2>1. n.objectives \in Seq({n.objectives[i] : i \in DOMAIN n.objectives})
    BY DEF NodeShape, IsList
  <2> QED
    BY <1>1, <2>1
<1>3. CASE n.objectives[1].parts # <<>>
  <2> DEFINE o == n.objectives[1]
  <2>1. IsList(o.parts)
    BY <1>2 DEF NodeShape, ObjectiveShape
  <2>2. 1 \in DOMAIN o.parts
    <3>1. Len(o.parts) \in Nat /\ DOMAIN o.parts = 1 .. Len(o.parts)
      BY <2>1, Lists
    <3>2. o.parts \in Seq({o.parts[i] : i \in DOMAIN o.parts})
      BY <2>1 DEF IsList
    <3> QED
      BY <1>3, <3>1, <3>2
  <2>3. /\ o.parts[1] \in {n.objectives[i].key : i \in DOMAIN n.objectives}
        /\ ~\E i \in DOMAIN n.objectives : n.objectives[i].key = o.parts[1] /\ n.objectives[i].parts # <<>>
    BY <1>2, <2>2 DEF ObjectivesOK
  <2> QED
    BY <2>3
<1> QED
  BY <1>2, <1>3

\* There is at least one question in all.
LEMMA SomeLimit ==
  ASSUME NEW f, FlowFacts(f), NEW id \in Ids(f), Limited(f, NodeAt(f, id))
  PROVE  0 < Total(Limits(NodeAt(f, id)))
<1> DEFINE n == NodeAt(f, id)
           k == Len(n.objectives)
<1>1. NodeFacts(f, n) /\ n.objectives # <<>>
  BY NodeAtFacts DEF Limited
<1>2. PICK m \in DOMAIN n.objectives : n.objectives[m].parts = <<>>
  BY <1>1, SomeQuestion DEF NodeFacts
<1>3. k \in Nat /\ DOMAIN n.objectives = 1 .. k
  BY <1>1, Lists DEF NodeFacts, NodeShape
<1>4. \A i \in 1 .. k : n.objectives[i].attempts \in Nat
  BY <1>1, <1>3 DEF NodeFacts, TextShape
<1>5. Limits(n) \in [1 .. k -> Nat] /\ 0 < Limits(n)[m]
  <2>1. 0 < n.objectives[m].attempts
    BY <1>2 DEF Limited
  <2> HIDE DEF n, k
  <2> QED
    BY <1>2, <1>3, <1>4, <2>1 DEF Limits
<1> HIDE DEF n, k
<1>6. PICK v : v = [i \in 1 .. k |-> 0]
  OBVIOUS
<1>7. v \in [1 .. k -> Nat] /\ \A i \in 1 .. k : v[i] = 0
  BY <1>6
<1>8. Total(v) = 0
  BY <1>3, <1>7, TotalZero
<1>9. v[m] < Limits(n)[m] /\ \A i \in 1 .. k : v[i] <= Limits(n)[i]
  BY <1>2, <1>3, <1>5, <1>7
<1>10. Total(v) < Total(Limits(n))
  BY <1>2, <1>3, <1>5, <1>7, <1>9, TotalLess
<1> QED
  BY <1>8, <1>10 DEF n

\* Attempts that leave a question open are fewer than there may be.
LEMMA AttemptsLeft ==
  ASSUME NEW f, FlowFacts(f), NEW id \in Ids(f), NEW r, RowTyped(r, f), r.armed = id,
         r.here \in Nat, Burnt(r, NodeAt(f, id), 0), ~Done(r, NodeAt(f, id))
  PROVE  r.here < Total(Limits(NodeAt(f, id)))
<1> DEFINE n == NodeAt(f, id)
           k == Len(n.objectives)
<1>1. /\ k \in Nat /\ DOMAIN n.objectives = 1 .. k
      /\ Attempts(r) \in [1 .. k -> Nat] /\ Limits(n) \in [1 .. k -> Nat]
  BY AttemptsType
<1>2. PICK m \in 1 .. k : ~Settled(r.progress[m])
  BY <1>1 DEF Done
<1>3. Attempts(r)[m] < Limits(n)[m] /\ \A i \in 1 .. k : Attempts(r)[i] <= Limits(n)[i]
  BY <1>1, <1>2 DEF Burnt
<1> HIDE DEF n, k
<1>4. Total(Attempts(r)) < Total(Limits(n))
  BY <1>1, <1>2, <1>3, TotalLess
<1>5. Total(Attempts(r)) \in Nat /\ Total(Limits(n)) \in Nat
  BY <1>1, TotalSums
<1>6. r.here <= Total(Attempts(r)) + 0
  BY DEF Burnt, n
<1> QED
  BY <1>4, <1>5, <1>6 DEF n

LEMMA PatientRow ==
  ASSUME Histories, NEW r, RowOK(r), Patient(r, 0), AtLimitedEntry(r)
  PROVE  r.here < Total(Limits(NodeAt(TextFlow(Pinned(r)), r.node)))
<1> DEFINE f == TextFlow(Pinned(r))
           n == NodeAt(f, r.node)
<1>1. /\ HasFlow(Pinned(r)) /\ r.node \in Ids(f) /\ RowTyped(r, f) /\ r.here \in Nat
      /\ Limited(f, n)
  BY DEF AtLimitedEntry, RowOK
<1>2. FlowFacts(f)
  BY <1>1, PinnedFlow
<1>3. CASE r.armed = None /\ r.here = 0
  BY <1>1, <1>2, <1>3, SomeLimit
<1>4. CASE r.armed = r.node /\ Burnt(r, n, 0) /\ ~Done(r, n)
  BY <1>1, <1>2, <1>4, AttemptsLeft
<1> QED
  BY <1>3, <1>4 DEF Patient

\* What every copy of the row owes is what its request has counted.
Waits(x) == Patient(x.copy, Owed(x))

Patience ==
  /\ Begun => Patient(row, 0)
  /\ \A t \in Request : turn[t] # Idle => Waits(turn[t])

LEMMA StepUpward == ASSUME IInv, IInv', [Next]_vars PROVE Upward
<1>1. Counters /\ Counters'
  BY DEF IInv
<1>2. /\ EditAgents \/ UNCHANGED history
      /\ messages' = messages \/ (\E k \in {1, 2} : messages' = messages + k)
      /\ arrivals' = arrivals \/ arrivals' = arrivals + 1
  <2>1. ASSUME NEW t \in Request, Persist(t)
        PROVE  /\ UNCHANGED <<history, arrivals>>
               /\ \E k \in {1, 2} : messages' = messages + k
    BY <2>1 DEF Persist
  <2> QED
    BY <2>1 DEF Next, vars, Open, EditAgents, Arrive, Load, Run, End, Break
<1>3. messages \in Nat /\ arrivals \in Nat
  BY <1>1, Shape DEF Counters
<1>4. Histories /\ Grown
  BY <1>2, HistoriesGrow DEF IInv
<1> QED
  BY <1>1, <1>2, <1>3, <1>4 DEF Upward

\* What a request that did not move holds waits as it did.
LEMMA OthersWait ==
  ASSUME IInv, Upward, Patience, NEW t \in Request, NEW x, Set(t, x),
         x # Idle => RowOK(x.copy) /\ Waits(x)
  PROVE  \A u \in Request : turn'[u] # Idle => Waits(turn[u])'
<1> SUFFICES ASSUME NEW u \in Request, turn'[u] # Idle PROVE Waits(turn[u])'
  OBVIOUS
<1>1. PICK y : y = turn'[u]
  OBVIOUS
<1>2. y = x \/ y = turn[u]
  BY <1>1 DEF Set, IInv, Requests
<1>3. RowOK(y.copy) /\ Waits(y)
  BY <1>1, <1>2 DEF IInv, Requests, RequestOK, Patience
<1>4. Waits(y)'
  BY <1>3, RowStays DEF Upward, Waits
<1> QED
  BY <1>1, <1>4

LEMMA AllWait ==
  ASSUME IInv, Upward, Patience, UNCHANGED turn
  PROVE  \A u \in Request : turn'[u] # Idle => Waits(turn[u])'
<1> SUFFICES ASSUME NEW u \in Request, turn'[u] # Idle PROVE Waits(turn[u])'
  OBVIOUS
<1>1. PICK y : y = turn'[u]
  OBVIOUS
<1>2. RequestOK(y) /\ Waits(y)
  BY <1>1 DEF IInv, Requests, Patience
<1>3. Waits(y)'
  BY <1>2, RowStays DEF RequestOK, Upward, Waits
<1> QED
  BY <1>1, <1>3

\* The row, when a step writes r.
LEMMA RowWaits ==
  ASSUME Upward, NEW r, RowOK(r), Patient(r, 0), row' = r
  PROVE  Patient(row, 0)'
<1>1. Patient(r, 0)'
  BY RowStays DEF Upward
<1> QED
  BY <1>1

LEMMA RowStillWaits ==
  ASSUME IInv, Upward, Patience, UNCHANGED row, Begun' => Begun
  PROVE  Begun' => Patient(row, 0)'
<1> SUFFICES ASSUME Begun' PROVE Patient(row, 0)'
  OBVIOUS
<1>1. PICK r : r = row
  OBVIOUS
<1>2. RowOK(r) /\ Patient(r, 0) /\ row' = r
  BY <1>1 DEF IInv, Rows, Patience
<1> QED
  BY <1>2, RowWaits

LEMMA PatienceKept ==
  ASSUME IInv, IInv', Patience, [Next]_vars
  PROVE  Patience'
<1>1. Upward
  BY StepUpward
<1>2. CASE Open
  <2>1. PICK r : r = row'
    OBVIOUS
  <2>2. RowOK(r) /\ Patient(r, 0)
    BY <1>2, <2>1, OpenedRow
  <2>3. Patient(row, 0)'
    BY <1>1, <2>1, <2>2, RowWaits
  <2>4. \A u \in Request : turn'[u] # Idle => Waits(turn[u])'
    BY <1>1, <1>2, AllWait DEF Open
  <2> QED
    BY <2>3, <2>4 DEF Patience
<1>3. CASE EditAgents \/ UNCHANGED vars
  <2>1. UNCHANGED <<row, turn>>
    BY <1>3 DEF EditAgents, vars
  <2>2. Begun' => Patient(row, 0)'
    BY <1>1, <2>1, RowStillWaits DEF Begun
  <2>3. \A u \in Request : turn'[u] # Idle => Waits(turn[u])'
    BY <1>1, <2>1, AllWait
  <2> QED
    BY <2>2, <2>3 DEF Patience
<1>4. ASSUME NEW t \in Request, NEW x, Set(t, x), x # Idle => RowOK(x.copy) /\ Waits(x),
             UNCHANGED row, row # Idle \/ turn[t] # Idle
      PROVE  Patience'
  <2>1. Begun' => Patient(row, 0)'
    BY <1>1, <1>4, RowStillWaits DEF Begun
  <2>2. \A u \in Request : turn'[u] # Idle => Waits(turn[u])'
    BY <1>1, <1>4, OthersWait
  <2> QED
    BY <2>1, <2>2 DEF Patience
<1>5. ASSUME NEW t \in Request, NEW kind \in {"read", "ending"}, Arrive(t, kind)
      PROVE  Patience'
  <2>1. PICK x : x = [stage |-> kind, copy |-> row, seen |-> 0, said |-> FALSE,
                      replied |-> FALSE, failed |-> FALSE]
    OBVIOUS
  <2>2. Set(t, x) /\ row # Idle /\ UNCHANGED row
    BY <1>5, <2>1 DEF Arrive
  <2>3. RowOK(x.copy)
    BY <2>1, <2>2 DEF IInv, Rows, Begun
  <2>4. Waits(x)
    BY <2>1, <2>2 DEF Patience, Begun, Waits, Owed
  <2> QED
    BY <1>4, <2>2, <2>3, <2>4
<1>6. ASSUME NEW t \in Request, Load(t)
      PROVE  Patience'
  <2>1. PICK x : Set(t, x) /\ LoadedOK(turn[t], x)
    BY <1>6, Loads
  <2>2. turn[t] # Idle /\ UNCHANGED row
    BY <1>6 DEF Load
  <2>3. x # Idle => RowOK(x.copy) /\ Waits(x)
    BY <2>1, <2>2 DEF LoadedOK, RequestOK, Patience, Waits
  <2> QED
    BY <1>4, <2>1, <2>2, <2>3
<1>7. ASSUME NEW t \in Request, Run(t)
      PROVE  Patience'
  <2>1. PICK x : Set(t, x) /\ RanOK(turn[t], x)
    BY <1>7, RunsOn
  <2>2. turn[t] # Idle /\ turn[t].stage = "loaded" /\ UNCHANGED row
    BY <1>7 DEF Run
  <2>3. Patient(turn[t].copy, 1)
    BY <2>2 DEF Patience, Waits, Owed
  <2>4. x # Idle => RowOK(x.copy) /\ Waits(x)
    BY <2>1, <2>3 DEF RanOK, RequestOK, Waits, Owed
  <2> QED
    BY <1>4, <2>1, <2>2, <2>4
<1>8. ASSUME NEW t \in Request, Persist(t)
      PROVE  Patience'
  <2>1. PICK r : r = turn[t].copy
    OBVIOUS
  <2>2. turn[t] # Idle /\ turn[t].stage = "ran" /\ row' = r /\ Set(t, Idle)
    BY <1>8, <2>1 DEF Persist
  <2>3. RowOK(r) /\ Patient(r, 0)
    BY <2>1, <2>2 DEF IInv, Requests, RequestOK, Patience, Waits, Owed
  <2>4. Patient(row, 0)'
    BY <1>1, <2>2, <2>3, RowWaits
  <2>5. \A u \in Request : turn'[u] # Idle => Waits(turn[u])'
    BY <1>1, <2>2, OthersWait
  <2> QED
    BY <2>4, <2>5 DEF Patience
<1>9. ASSUME NEW t \in Request, End(t)
      PROVE  Patience'
  <2>1. turn[t] # Idle /\ Set(t, Idle) /\ (row' = row \/ row' = [row EXCEPT !.status = "ended"])
    BY <1>9 DEF End
  <2>2. RowOK(row) /\ Patient(row, 0)
    BY <2>1 DEF IInv, Rows, Begun, Patience
  <2>3. PICK r : r = row'
    OBVIOUS
  <2>4. RowOK(r) /\ Patient(r, 0)
    <3>1. CASE row' = row
      BY <2>2, <2>3, <3>1
    <3>2. CASE row' = [row EXCEPT !.status = "ended"]
      <4>1. RowOK(r) /\ r.status = "ended"
        BY <2>2, <2>3, <3>2, EndedRow
      <4> QED
        BY <4>1 DEF Patient, AtLimitedEntry
    <3> QED
      BY <2>1, <3>1, <3>2
  <2>5. Patient(row, 0)'
    BY <1>1, <2>3, <2>4, RowWaits
  <2>6. \A u \in Request : turn'[u] # Idle => Waits(turn[u])'
    BY <1>1, <2>1, OthersWait
  <2> QED
    BY <2>5, <2>6 DEF Patience
<1>10. ASSUME NEW t \in Request, Break(t)
       PROVE  Patience'
  BY <1>4, <1>10 DEF Break
<1> QED
  BY <1>2, <1>3, <1>5, <1>6, <1>7, <1>8, <1>9, <1>10 DEF Next

\* Questions with a limit at the entry of a flow are left within that many turns from
\* when its agent took over, however turns, ends and edits overlap, whatever the judge and
\* the model do and however often other agents hand the contact back (judgeObjectives of
\* judge.ts, performHandoff of index.ts).
THEOREM LeftInTime == Spec => []AskedWithinLimit
<1>1. Init => Patience
  BY DEF Init, Patience, Begun
<1>2. IInv /\ IInv' /\ Patience /\ [Next]_vars => Patience'
  BY PatienceKept
<1>3. IInv /\ Patience => AskedWithinLimit
  <2> SUFFICES ASSUME IInv, Patience, Opened, row.status = "active",
                      HasFlow(Pinned(row)), row.node = TextFlow(Pinned(row)).entry, row.node # None,
                      Limited(TextFlow(Pinned(row)), NodeAt(TextFlow(Pinned(row)), row.node))
               PROVE  row.here < Total(Limits(NodeAt(TextFlow(Pinned(row)), row.node)))
    BY DEF AskedWithinLimit
  <2>1. RowOK(row) /\ Patient(row, 0) /\ AtLimitedEntry(row) /\ Histories
    BY DEF IInv, Rows, Begun, Opened, Patience, AtLimitedEntry
  <2> QED
    BY <2>1, PatientRow
<1> QED
  BY <1>1, <1>2, <1>3, Inductive, PTL DEF Spec

=============================================================================
