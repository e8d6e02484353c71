--------------------------- MODULE ObjectivesProofs ---------------------------
(***************************************************************************)
(* What holds of the objectives tracker for every flow, any number of      *)
(* entries, turns and faults.  The inductive invariant is a fact about     *)
(* each runtime object by itself (Tracked) and the registers they share;   *)
(* the functions a pass is made of are shown to keep the part of it that   *)
(* is about the progress of one entry (Sound).                             *)
(***************************************************************************)
EXTENDS Objectives, TLAPS, WellFoundedInduction, FiniteSetTheorems

Listed == {ObjectivesOf[n] : n \in Node}
Words == Seq(Heard \cup Filed \cup {NA})
Exits == {"no", "waiting", "resolving", "left", "dropped"}
Sent  == [entry : Nat, key : Key, answer : Words]
Table(list)  == [ToSet(list) -> Progress]
States(list) == [prog : Table(list), known : [Field -> Words], captured : SUBSET Field,
                 writes : SUBSET Sent]
Runtimes == [node : Node, prog : UNION {Table(ObjectivesOf[n]) : n \in Node}, pass : 0 .. 2,
             rerun : BOOLEAN, exit : Exits, heard : Nat, judged : Nat]

\* A skipped objective is one whose attempts are used up, and has no more of them.
Spent(prog, list) ==
  \A k \in ToSet(list) : prog[k].attempts >= MaxAttempts => prog[k].skipped

\* NoSilentLoss for entry e, with the writes out that are in flight or have landed.
Kept(prog, e, list, out) ==
  \A k \in ToSet(list) :
    LET p == prog[k]
    IN p.met /\ ~p.given /\ p.answer \notin {<<>>, <<NA>>} /\ FieldOf[k] # NoField /\ HasWriter
         => [entry |-> e, key |-> k, answer |-> p.answer] \in out \/ p.failed

\* An aggregate that follows its parts is met and says what they say.
Composed(prog, list) ==
  \A k \in ToSet(list) :
    IsAggregate(k) /\ prog[k].follows => prog[k].met /\ prog[k].answer = Joined(prog, k)

Plain(prog, e, list, out) ==
  prog \in Table(list) /\ Spent(prog, list) /\ Kept(prog, e, list, out)

Sound(prog, e, list, out) ==
  Plain(prog, e, list, out) /\ Composed(prog, list)

\* A running pass means that the exit is not committed; without a rerun to come the
\* last pass covered every turn; the exit is committed exactly when it may be.
Tracked(rt, e, act, out) ==
  /\ rt \in Runtimes
  /\ Sound(rt.prog, e, ObjectivesOf[rt.node], out)
  /\ rt.pass # 0 => rt.exit = "no"
  /\ rt.exit # "no" => AllSettled(rt.prog, ObjectivesOf[rt.node])
  /\ act = e /\ rt.exit = "no" =>
       /\ rt.rerun \/ rt.judged = rt.heard
       /\ rt.pass = 0 => ~rt.rerun /\ ~AllSettled(rt.prog, ObjectivesOf[rt.node])

Registers ==
  /\ known \in [Field -> Words] /\ captured \subseteq Field
  /\ pending \in BOOLEAN /\ complete \in BOOLEAN /\ completed \in BOOLEAN
  /\ agent \in Node /\ entering \in Seq(Node)

\* Where the tracker's pointer and the writes may lead.
Pointers ==
  /\ DOMAIN entries = 1 .. Len(entries) /\ Len(entries) \in Nat
  /\ active \in 0 .. Len(entries)
  /\ writes \subseteq Sent
  /\ \A w \in writes : w.entry \in DOMAIN entries /\ w.key \in ToSet(List(w.entry))

IInv ==
  /\ Registers /\ Pointers
  /\ \A e \in DOMAIN entries : Tracked(entries[e], e, active, writes \cup landed)
-----------------------------------------------------------------------------
(* Numbers, and lists of keys.                                               *)

\* Every set of numbers that is not empty has a least one.
LEMMA LeastNumber ==
  ASSUME NEW S, S \subseteq Nat, S # {}
  PROVE  \E m \in S : \A k \in S : m <= k
<1>1. PICK R : IsWellFoundedOn(R, Nat) /\ \A k, m \in Nat : k < m => <<k, m>> \in R
  <2> DEFINE R == OpToRel(<, Nat)
  <2>1. IsWellFoundedOn(R, Nat)
    BY NatLessThanWellFounded
  <2>2. \A k, m \in Nat : k < m => <<k, m>> \in R
    BY DEF OpToRel
  <2> HIDE DEF R
  <2> QED
    BY <2>1, <2>2
<1>2. IsWellFoundedOn(R, Nat)
  BY <1>1
<1>3. PICK m \in S : \A k \in S : ~ (<<k, m>> \in R)
  BY <1>2, WFMin
<1>4. \A k \in S : ~ (k < m)
  BY <1>1, <1>3
<1> QED
  BY <1>4

\* Induction up to n.
LEMMA InductionUpTo ==
  ASSUME NEW n \in Nat, NEW S, 0 \in S, \A i \in 1 .. n : i - 1 \in S => i \in S
  PROVE  \A i \in 0 .. n : i \in S
<1> DEFINE Rest == {i \in 0 .. n : i \notin S}
<1> SUFFICES ASSUME Rest # {} PROVE FALSE
  OBVIOUS
<1>1. Rest \subseteq Nat
  OBVIOUS
<1>2. PICK m \in Rest : \A k \in Rest : m <= k
  BY <1>1, LeastNumber
<1>3. m \in 1 .. n /\ m - 1 \in 0 .. n
  BY <1>2
<1>4. m - 1 \notin Rest
  BY <1>2, <1>3
<1> QED
  BY <1>2, <1>3, <1>4

LEMMA MinIsIn == ASSUME NEW S, S \subseteq Nat, S # {} PROVE Min(S) \in S
  BY LeastNumber DEF Min

LEMMA MaxIsIn == ASSUME NEW n \in Nat, NEW S, S \subseteq 1 .. n, S # {} PROVE Max(S) \in S
<1> DEFINE T == {n - i : i \in S}
<1>1. T \subseteq Nat /\ T # {}
  <2>1. \A i \in S : n - i \in Nat
    OBVIOUS
  <2> QED
    BY <2>1
<1>2. PICK m \in T : \A k \in T : m <= k
  BY <1>1, LeastNumber
<1>3. PICK i \in S : m = n - i
  BY <1>2
<1>4. \A j \in S : i >= j
  <2> TAKE j \in S
  <2>1. n - j \in T
    OBVIOUS
  <2>2. n - i <= n - j
    BY <1>2, <1>3, <2>1
  <2>3. i \in Nat /\ j \in Nat
    OBVIOUS
  <2> QED
    BY <2>2, <2>3
<1> QED
  BY <1>3, <1>4 DEF Max

\* The list of a node, and its aggregates.
LEMMA NodeLists ==
  ASSUME NEW list \in Listed
  PROVE  /\ list \in Seq(Key) /\ Len(list) \in Nat /\ DOMAIN list = 1 .. Len(list)
         /\ ToSet(list) \subseteq Key
         /\ \A k \in ToSet(list) :
              /\ Parts[k] \in Seq(Key) /\ FieldOf[k] \in Field \cup {NoField}
              /\ \A p \in ToSet(Parts[k]) : p \in ToSet(list) /\ ~IsAggregate(p)
<1>1. list \in Seq(Key)
  BY Shape DEF Listed
<1>2. Len(list) \in Nat /\ DOMAIN list = 1 .. Len(list) /\ ToSet(list) \subseteq Key
  BY <1>1 DEF ToSet
<1>3. \A k \in ToSet(list) : Parts[k] \in Seq(Key) /\ FieldOf[k] \in Field \cup {NoField}
  BY <1>2, Shape
<1>4. \A k \in ToSet(list) : \A p \in ToSet(Parts[k]) : p \in ToSet(list) /\ ~IsAggregate(p)
  BY Lists, Zenon DEF IsAggregate, Listed
<1> QED
  BY <1>1, <1>2, <1>3, <1>4

\* LastOf picks one of the keys.
LEMMA LastOfIn ==
  ASSUME NEW list \in Listed, NEW K, K \subseteq ToSet(list), K # {}
  PROVE  LastOf(list, K) \in K
<1> DEFINE at == {i \in DOMAIN list : list[i] \in K}
<1>1. at \subseteq 1 .. Len(list) /\ at # {} /\ Len(list) \in Nat
  BY NodeLists DEF ToSet
<1>2. Max(at) \in at
  BY <1>1, MaxIsIn
<1> QED
  BY <1>2 DEF LastOf
-----------------------------------------------------------------------------
(* The answer of an aggregate.                                               *)

\* How far FlattenSeq has come with f.
FlatTo(f, n, seqs) == f = [i \in 1 .. n |-> IF i = 1 THEN seqs[i] ELSE f[i - 1] \o seqs[i]]

\* The recursion of FlattenSeq is well-founded.
LEMMA FlattenDefined ==
  ASSUME NEW S, NEW seqs \in Seq(Seq(S))
  PROVE  \E f : FlatTo(f, Len(seqs), seqs)
<1> DEFINE Reached == {n \in 0 .. Len(seqs) : \E f : FlatTo(f, n, seqs)}
<1>1. 0 \in Reached
  <2>1. FlatTo([i \in 1 .. 0 |-> 0], 0, seqs)
    BY DEF FlatTo
  <2> QED
    BY <2>1
<1>2. ASSUME NEW n \in 1 .. Len(seqs), n - 1 \in Reached PROVE n \in Reached
  <2>1. n \in Nat /\ n - 1 \in Nat
    OBVIOUS
  <2>2. PICK f : FlatTo(f, n - 1, seqs)
    BY <1>2
  <2> DEFINE g == [i \in 1 .. n |-> IF i = n THEN IF n = 1 THEN seqs[n] ELSE f[n - 1] \o seqs[n]
                                    ELSE f[i]]
  <2>3. \A i \in 1 .. n - 1 : g[i] = f[i]
    BY <2>1
  <2>4. ASSUME NEW i \in 1 .. n
        PROVE  g[i] = IF i = 1 THEN seqs[i] ELSE g[i - 1] \o seqs[i]
    <3>1. CASE i = n
      BY <2>1, <2>3, <3>1
    <3>2. CASE i # n
      <4>1. i \in 1 .. n - 1 /\ (i # 1 => i - 1 \in 1 .. n - 1)
        BY <2>1, <3>2
      <4>2. f[i] = IF i = 1 THEN seqs[i] ELSE f[i - 1] \o seqs[i]
        BY <2>2, <4>1 DEF FlatTo
      <4> QED
        BY <2>3, <4>1, <4>2
    <3> QED
      BY <3>1, <3>2
  <2>5. FlatTo(g, n, seqs)
    <3>1. g = [i \in 1 .. n |-> g[i]]
      OBVIOUS
    <3> HIDE DEF g
    <3> QED
      BY <2>4, <3>1 DEF FlatTo
  <2> QED
    BY <2>5
<1>3. \A i \in 0 .. Len(seqs) : i \in Reached
  <2>1. Len(seqs) \in Nat
    OBVIOUS
  <2> HIDE DEF Reached
  <2> QED
    BY <1>1, <1>2, <2>1, InductionUpTo
<1> QED
  BY <1>3

LEMMA FlattenSeqType ==
  ASSUME NEW S, NEW seqs \in Seq(Seq(S))
  PROVE  FlattenSeq(seqs) \in Seq(S)
<1>1. CASE Len(seqs) = 0
  BY <1>1 DEF FlattenSeq
<1>2. CASE Len(seqs) # 0
  <2> DEFINE n == Len(seqs)
             f == CHOOSE g : FlatTo(g, n, seqs)
  <2>1. n \in Nat /\ n # 0 /\ DOMAIN seqs = 1 .. n
    BY <1>2
  <2>2. FlatTo(f, n, seqs)
    BY FlattenDefined
  <2>3. FlattenSeq(seqs) = f[n]
    BY <1>2 DEF FlattenSeq, FlatTo
  <2> HIDE DEF f
  <2> DEFINE Typed == {i \in 0 .. n : i = 0 \/ f[i] \in Seq(S)}
  <2>4. 0 \in Typed
    BY <2>1
  <2>5. ASSUME NEW i \in 1 .. n, i - 1 \in Typed PROVE i \in Typed
    <3>1. f[i] = IF i = 1 THEN seqs[i] ELSE f[i - 1] \o seqs[i]
      BY <2>2 DEF FlatTo
    <3>2. seqs[i] \in Seq(S)
      OBVIOUS
    <3>3. i # 1 => f[i - 1] \in Seq(S)
      BY <2>5
    <3>4. f[i] \in Seq(S)
      <4>1. CASE i = 1
        BY <3>1, <3>2, <4>1
      <4>2. CASE i # 1
        <5> DEFINE u == f[i - 1]
                   v == seqs[i]
        <5>1. u \in Seq(S) /\ v \in Seq(S) /\ f[i] = u \o v
          BY <3>1, <3>2, <3>3, <4>2
        <5> HIDE DEF u, v
        <5> QED
          BY <5>1
      <4> QED
        BY <4>1, <4>2
    <3> QED
      BY <3>4
  <2>6. \A i \in 0 .. n : i \in Typed
    <3> HIDE DEF Typed
    <3> QED
      BY <2>1, <2>4, <2>5, InductionUpTo
  <2> QED
    BY <2>1, <2>3, <2>6
<1> QED
  BY <1>1, <1>2

\* The parts' answers say what the aggregate says, and their order does not change.
LEMMA JoinedType ==
  ASSUME NEW list \in Listed, NEW prog \in Table(list),
         NEW k \in ToSet(list)
  PROVE  Joined(prog, k) \in Words
<1> DEFINE said == [i \in DOMAIN Parts[k] |->
                     LET a == prog[Parts[k][i]].answer IN IF a = <<NA>> THEN <<>> ELSE a]
<1>1. Parts[k] \in Seq(Key) /\ DOMAIN Parts[k] = 1 .. Len(Parts[k]) /\ Len(Parts[k]) \in Nat
  BY NodeLists
<1>2. \A i \in DOMAIN Parts[k] : said[i] \in Words
  <2> TAKE i \in DOMAIN Parts[k]
  <2>1. Parts[k][i] \in ToSet(Parts[k])
    BY DEF ToSet
  <2>2. Parts[k][i] \in ToSet(list)
    BY <2>1, NodeLists
  <2>3. prog[Parts[k][i]].answer \in Words
    BY <2>2 DEF Table, Progress, Words
  <2> QED
    BY <2>3 DEF Words
<1>3. said \in Seq(Words)
  <2>1. said \in [1 .. Len(Parts[k]) -> Words]
    BY <1>1, <1>2
  <2> HIDE DEF said
  <2> QED
    BY <1>1, <2>1
<1>4. Joined(prog, k) = FlattenSeq(said)
  BY DEF Joined
<1> HIDE DEF said
<1> QED
  BY <1>3, <1>4, FlattenSeqType DEF Words

LEMMA JoinedSame ==
  ASSUME NEW k, NEW p, NEW q, \A x \in ToSet(Parts[k]) : p[x].answer = q[x].answer
  PROVE  Joined(p, k) = Joined(q, k)
<1> DEFINE said(r) == [i \in DOMAIN Parts[k] |->
                        LET a == r[Parts[k][i]].answer IN IF a = <<NA>> THEN <<>> ELSE a]
<1>1. \A i \in DOMAIN Parts[k] : p[Parts[k][i]].answer = q[Parts[k][i]].answer
  BY DEF ToSet
<1>2. said(p) = said(q)
  BY <1>1
<1> QED
  BY <1>2 DEF Joined
-----------------------------------------------------------------------------
(* Writing and recording.                                                    *)

\* From s to t the answers ans of the keys K were sent, and nothing else was.
Sends(s, t, e, list, K, ans) ==
  /\ t \in States(list) /\ s.writes \subseteq t.writes
  /\ \A w \in t.writes : w \in s.writes \/ (w.entry = e /\ w.key \in K)
  /\ \A k \in K : HasWriter /\ FieldOf[k] # NoField /\ ans[k] # <<>>
       => [entry |-> e, key |-> k, answer |-> ans[k]] \in t.writes

LEMMA WriteSends ==
  ASSUME NEW list \in Listed, NEW s \in States(list), NEW e \in Nat,
         NEW K, K \subseteq ToSet(list), NEW ans, \A k \in K : ans[k] \in Words
  PROVE  /\ Sends(s, Write(s, e, list, K, ans), e, list, K, ans)
         /\ Write(s, e, list, K, ans).prog = s.prog
<1> DEFINE sent  == {k \in K : HasWriter /\ FieldOf[k] # NoField /\ ans[k] # <<>>}
           to(f) == {k \in sent : FieldOf[k] = f}
           kn    == [f \in Field |-> IF to(f) = {} THEN s.known[f] ELSE ans[LastOf(list, to(f))]]
           cp    == s.captured \cup {FieldOf[k] : k \in sent}
           new   == {[entry |-> e, key |-> k, answer |-> ans[k]] : k \in sent}
           t     == Write(s, e, list, K, ans)
<1>1. s = [prog |-> s.prog, known |-> s.known, captured |-> s.captured, writes |-> s.writes]
      /\ s.prog \in Table(list) /\ s.known \in [Field -> Words] /\ s.captured \subseteq Field
      /\ s.writes \subseteq Sent
  BY DEF States
<1>2. t = [prog |-> s.prog, known |-> kn, captured |-> cp, writes |-> s.writes \cup new]
  <2>1. t = [s EXCEPT !.known = kn, !.captured = cp, !.writes = s.writes \cup new]
    BY DEF Write
  <2> HIDE DEF t, kn, cp, new
  <2> QED
    BY <1>1, <2>1
<1>3. kn \in [Field -> Words]
  <2> SUFFICES ASSUME NEW f \in Field PROVE kn[f] \in Words
    OBVIOUS
  <2>1. CASE to(f) = {}
    BY <1>1, <2>1
  <2>2. CASE to(f) # {}
    <3>1. to(f) \subseteq K
      OBVIOUS
    <3>2. LastOf(list, to(f)) \in to(f)
      <4> HIDE DEF to
      <4> QED
        BY <2>2, <3>1, LastOfIn
    <3>3. ans[LastOf(list, to(f))] \in Words
      BY <3>1, <3>2
    <3> QED
      BY <2>2, <3>3
  <2> QED
    BY <2>1, <2>2
<1>4. cp \subseteq Field
  <2>1. \A k \in sent : FieldOf[k] \in Field
    BY NodeLists
  <2> QED
    BY <1>1, <2>1
<1>5. new \subseteq Sent
  <2>1. \A k \in sent : k \in Key /\ ans[k] \in Words
    BY NodeLists
  <2> QED
    BY <2>1 DEF Sent
<1>6. \A w \in new : w.entry = e /\ w.key \in K
  OBVIOUS
<1>7. \A k \in K : HasWriter /\ FieldOf[k] # NoField /\ ans[k] # <<>>
        => [entry |-> e, key |-> k, answer |-> ans[k]] \in new
  OBVIOUS
<1>8. Sends(s, t, e, list, K, ans) /\ t.prog = s.prog
  <2> HIDE DEF t, kn, cp, new
  <2>1. t \in States(list)
    BY <1>1, <1>2, <1>3, <1>4, <1>5 DEF States
  <2>2. t.prog = s.prog /\ t.writes = s.writes \cup new
    BY <1>2
  <2> QED
    BY <1>6, <1>7, <2>1, <2>2 DEF Sends
<1> QED
  BY <1>8

\* From p to m the keys K are met with their answers, and the others are left alone.
Answered(p, m, list, K, ans) ==
  /\ m \in Table(list)
  /\ \A k \in ToSet(list) : k \notin K => m[k] = p[k]
  /\ \A k \in K : /\ m[k].met = TRUE /\ m[k].given = FALSE /\ m[k].answer = ans[k]
                  /\ m[k].attempts = p[k].attempts /\ m[k].skipped = p[k].skipped
                  /\ m[k].follows = p[k].follows

LEMMA MetAnswers ==
  ASSUME NEW list, NEW prog \in Table(list), NEW K, K \subseteq ToSet(list),
         NEW ans, \A k \in K : ans[k] \in Words
  PROVE  Answered(prog, Met(prog, K, ans), list, K, ans)
<1> DEFINE m == Met(prog, K, ans)
<1>1. DOMAIN prog = ToSet(list) /\ \A k \in ToSet(list) : prog[k] \in Progress
  BY DEF Table
<1>2. m = [k \in ToSet(list) |->
             IF k \in K THEN [prog[k] EXCEPT !.met = TRUE, !.answer = ans[k], !.given = FALSE]
             ELSE prog[k]]
  BY <1>1 DEF Met
<1>3. ASSUME NEW k \in K
      PROVE  /\ m[k] \in Progress
             /\ m[k].met = TRUE /\ m[k].given = FALSE /\ m[k].answer = ans[k]
             /\ m[k].attempts = prog[k].attempts /\ m[k].skipped = prog[k].skipped
             /\ m[k].follows = prog[k].follows
  <2> DEFINE p == prog[k]
             q == m[k]
             a == ans[k]
  <2>1. p \in Progress /\ a \in Words
    BY <1>1
  <2>2. q = [p EXCEPT !.met = TRUE, !.answer = a, !.given = FALSE]
    BY <1>2
  <2> HIDE DEF p, q, a
  <2>3. q \in Progress /\ q.met = TRUE /\ q.given = FALSE /\ q.answer = a
        /\ q.attempts = p.attempts /\ q.skipped = p.skipped /\ q.follows = p.follows
    BY <2>1, <2>2 DEF Progress, Words
  <2> QED
    BY <2>3 DEF p, q, a
<1>4. \A k \in ToSet(list) : k \notin K => m[k] = prog[k]
  BY <1>2
<1>5. m \in Table(list)
  BY <1>1, <1>2, <1>3, <1>4 DEF Table
<1>6. Answered(prog, m, list, K, ans)
  <2> HIDE DEF m
  <2> QED
    BY <1>3, <1>4, <1>5 DEF Answered
<1> QED
  BY <1>6

\* The keys whose answer is not N/A.
Spoken(K, ans) == {k \in K : ans[k] # <<NA>>}

LEMMA RecordSends ==
  ASSUME NEW list \in Listed, NEW s \in States(list), NEW e \in Nat,
         NEW K, K \subseteq ToSet(list), NEW ans, \A k \in K : ans[k] \in Words
  PROVE  /\ Sends(s, Record(s, e, list, K, ans), e, list, Spoken(K, ans), ans)
         /\ Record(s, e, list, K, ans).prog = Met(s.prog, K, ans)
<1> DEFINE u == [s EXCEPT !.prog = Met(s.prog, K, ans)]
           J == Spoken(K, ans)
           m == Met(s.prog, K, ans)
<1>1. s.prog \in Table(list)
  BY DEF States
<1>2. m \in Table(list)
  BY <1>1, MetAnswers DEF Answered
<1>3. u \in States(list) /\ u.prog = m /\ u.writes = s.writes
  <2>1. u = [s EXCEPT !.prog = m]
    OBVIOUS
  <2> HIDE DEF u, m
  <2> QED
    BY <1>2, <2>1 DEF States
<1>4. Record(s, e, list, K, ans) = Write(u, e, list, J, ans)
  BY DEF Record, Spoken
<1>5. J \subseteq ToSet(list) /\ \A k \in J : ans[k] \in Words
  BY DEF Spoken
<1> HIDE DEF u, J
<1>6. Sends(u, Write(u, e, list, J, ans), e, list, J, ans) /\ Write(u, e, list, J, ans).prog = u.prog
  BY <1>3, <1>5, WriteSends
<1> QED
  BY <1>3, <1>4, <1>6 DEF Sends, J
-----------------------------------------------------------------------------
(* A pass of entry e, which began when the writes wr were in flight, has     *)
(* come to s.                                                                *)

Reached(wr, s, e, list, ld) ==
  /\ s \in States(list) /\ wr \subseteq s.writes
  /\ \A w \in s.writes : w \in wr \/ (w.entry = e /\ w.key \in ToSet(list))
  /\ Plain(s.prog, e, list, s.writes \cup ld)

LEMMA RecordReached ==
  ASSUME NEW list \in Listed, NEW wr, NEW ld, NEW s, NEW e \in Nat, Reached(wr, s, e, list, ld),
         NEW K, K \subseteq ToSet(list), NEW ans, \A k \in K : ans[k] \in Words
  PROVE  /\ Reached(wr, Record(s, e, list, K, ans), e, list, ld)
         /\ Record(s, e, list, K, ans).prog = Met(s.prog, K, ans)
<1> DEFINE t == Record(s, e, list, K, ans)
           J == Spoken(K, ans)
           m == Met(s.prog, K, ans)
<1>1. s \in States(list) /\ s.prog \in Table(list)
  BY DEF Reached, States
<1>2. Sends(s, t, e, list, J, ans) /\ t.prog = m
  BY <1>1, RecordSends
<1>3. Answered(s.prog, m, list, K, ans)
  BY <1>1, MetAnswers
<1>4. J \subseteq K
  BY DEF Spoken
<1>5. \A k \in K : ans[k] \notin {<<>>, <<NA>>} => k \in J
  BY DEF Spoken
<1> HIDE DEF t, J, m
<1>6. Spent(s.prog, list) /\ Kept(s.prog, e, list, s.writes \cup ld)
  BY DEF Reached, Plain
<1>7. Spent(m, list)
  BY <1>3, <1>6 DEF Spent, Answered
<1>8. Kept(m, e, list, t.writes \cup ld)
  <2> SUFFICES ASSUME NEW k \in ToSet(list),
                      m[k].met, ~m[k].given, m[k].answer \notin {<<>>, <<NA>>},
                      FieldOf[k] # NoField, HasWriter
               PROVE  [entry |-> e, key |-> k, answer |-> m[k].answer] \in t.writes \cup ld
                      \/ m[k].failed
    BY DEF Kept
  <2>1. CASE k \in K
    <3>1. k \in J /\ m[k].answer = ans[k] /\ ans[k] # <<>>
      BY <1>3, <1>5, <2>1 DEF Answered
    <3>2. [entry |-> e, key |-> k, answer |-> ans[k]] \in t.writes
      BY <1>2, <3>1 DEF Sends
    <3> QED
      BY <3>1, <3>2
  <2>2. CASE k \notin K
    <3>1. m[k] = s.prog[k]
      BY <1>3, <2>2 DEF Answered
    <3>2. [entry |-> e, key |-> k, answer |-> s.prog[k].answer] \in s.writes \cup ld
          \/ s.prog[k].failed
      BY <1>6, <3>1 DEF Kept
    <3>3. s.writes \subseteq t.writes
      BY <1>2 DEF Sends
    <3> QED
      BY <3>1, <3>2, <3>3
  <2> QED
    BY <2>1, <2>2
<1>9. t \in States(list) /\ wr \subseteq t.writes
      /\ \A w \in t.writes : w \in wr \/ (w.entry = e /\ w.key \in ToSet(list))
  BY <1>2, <1>4 DEF Sends, Reached
<1>10. Reached(wr, t, e, list, ld) /\ t.prog = m
  BY <1>2, <1>3, <1>7, <1>8, <1>9 DEF Reached, Plain, Answered
<1> QED
  BY <1>10 DEF t, m

\* From p to h only follows changed: the keys K have it as b says.
Heeds(p, h, list, K, b) ==
  /\ h \in Table(list)
  /\ \A k \in ToSet(list) : k \notin K => h[k] = p[k]
  /\ \A k \in K : h[k].follows <=> b
  /\ \A k \in ToSet(list) :
       /\ h[k].met = p[k].met /\ h[k].answer = p[k].answer /\ h[k].given = p[k].given
       /\ h[k].attempts = p[k].attempts /\ h[k].skipped = p[k].skipped
       /\ h[k].failed = p[k].failed

LEMMA HeedHeeds ==
  ASSUME NEW list, NEW p \in Table(list), NEW K, K \subseteq ToSet(list), NEW b \in BOOLEAN
  PROVE  Heeds(p, Heed(p, K, b), list, K, b)
<1> DEFINE h == Heed(p, K, b)
<1>1. DOMAIN p = ToSet(list) /\ \A k \in ToSet(list) : p[k] \in Progress
  BY DEF Table
<1>2. h = [k \in ToSet(list) |-> IF k \in K THEN [p[k] EXCEPT !.follows = b] ELSE p[k]]
  BY <1>1 DEF Heed
<1>3. ASSUME NEW k \in K
      PROVE  /\ h[k] \in Progress
             /\ h[k].follows <=> b
             /\ h[k].met = p[k].met /\ h[k].answer = p[k].answer /\ h[k].given = p[k].given
             /\ h[k].attempts = p[k].attempts /\ h[k].skipped = p[k].skipped
             /\ h[k].failed = p[k].failed
  <2> DEFINE v == p[k]
             w == h[k]
  <2>1. v \in Progress /\ w = [v EXCEPT !.follows = b]
    BY <1>1, <1>2
  <2> HIDE DEF v, w
  <2>2. /\ w \in Progress
        /\ w.follows <=> b
        /\ w.met = v.met /\ w.answer = v.answer /\ w.given = v.given
        /\ w.attempts = v.attempts /\ w.skipped = v.skipped /\ w.failed = v.failed
    BY <2>1 DEF Progress
  <2> QED
    BY <2>2 DEF v, w
<1>4. \A k \in ToSet(list) : k \notin K => h[k] = p[k]
  BY <1>2
<1>5. h \in Table(list)
  BY <1>1, <1>2, <1>3, <1>4 DEF Table
<1>6. Heeds(p, h, list, K, b)
  <2> HIDE DEF h
  <2> QED
    BY <1>3, <1>4, <1>5 DEF Heeds
<1> QED
  BY <1>6

LEMMA HeedReached ==
  ASSUME NEW list, NEW wr, NEW ld, NEW s, NEW e, Reached(wr, s, e, list, ld),
         NEW K, K \subseteq ToSet(list), NEW b \in BOOLEAN
  PROVE  /\ Reached(wr, [s EXCEPT !.prog = Heed(s.prog, K, b)], e, list, ld)
         /\ [s EXCEPT !.prog = Heed(s.prog, K, b)].prog = Heed(s.prog, K, b)
<1> DEFINE h == Heed(s.prog, K, b)
           t == [s EXCEPT !.prog = h]
<1>1. s \in States(list) /\ s.prog \in Table(list) /\ Spent(s.prog, list)
      /\ Kept(s.prog, e, list, s.writes \cup ld)
  BY DEF Reached, States, Plain
<1>2. Heeds(s.prog, h, list, K, b)
  BY <1>1, HeedHeeds
<1> HIDE DEF h
<1>3. t \in States(list) /\ t.prog = h /\ t.writes = s.writes
  BY <1>1, <1>2 DEF States, Heeds
<1>4. Spent(h, list) /\ Kept(h, e, list, s.writes \cup ld)
  <2>1. Spent(h, list)
    BY <1>1, <1>2 DEF Spent, Heeds
  <2>2. Kept(h, e, list, s.writes \cup ld)
    BY <1>1, <1>2 DEF Kept, Heeds
  <2> QED
    BY <2>1, <2>2
<1>5. Reached(wr, t, e, list, ld)
  <2> HIDE DEF t
  <2> QED
    BY <1>2, <1>3, <1>4 DEF Reached, Plain, Heeds
<1> QED
  BY <1>3, <1>5 DEF h

\* What is met, with which answers, and what follows, is all that Composed looks at.
LEMMA ComposedSame ==
  ASSUME NEW list \in Listed, NEW p, NEW q, Composed(p, list),
         \A k \in ToSet(list) : /\ q[k].met = p[k].met /\ q[k].answer = p[k].answer
                                /\ q[k].follows = p[k].follows
  PROVE  Composed(q, list)
<1> SUFFICES ASSUME NEW x \in ToSet(list), IsAggregate(x), q[x].follows
             PROVE  q[x].met /\ q[x].answer = Joined(q, x)
  BY DEF Composed
<1>1. p[x].met /\ p[x].answer = Joined(p, x)
  BY DEF Composed
<1>2. \A y \in ToSet(Parts[x]) : y \in ToSet(list)
  BY NodeLists
<1>3. Joined(q, x) = Joined(p, x)
  BY <1>2, JoinedSame
<1> QED
  BY <1>1, <1>3

\* The aggregates of the list that k is a part of and that are met.
Whole(p, list, k) == {x \in ToSet(list) : k \in ToSet(Parts[x]) /\ p[x].met}

\* After a first answer the aggregates that were met without it do not follow.
LEMMA ComposedFirst ==
  ASSUME NEW list \in Listed, NEW p \in Table(list), Composed(p, list),
         NEW k \in ToSet(list), ~p[k].met, NEW ans, ans[k] \in Words,
         NEW h, Heeds(p, h, list, Whole(p, list, k), FALSE)
  PROVE  Composed(Met(h, {k}, ans), list)
<1> DEFINE m == Met(h, {k}, ans)
<1>1. /\ \A x \in ToSet(list) : x # k => m[x] = h[x]
      /\ m[k].follows = h[k].follows
  <2>1. h \in Table(list)
    BY DEF Heeds
  <2>2. Answered(h, m, list, {k}, ans)
    BY <2>1, MetAnswers
  <2> QED
    BY <2>2 DEF Answered
<1> HIDE DEF m
<1> SUFFICES ASSUME NEW x \in ToSet(list), IsAggregate(x), m[x].follows
             PROVE  m[x].met /\ m[x].answer = Joined(m, x)
  BY DEF Composed, m
<1>2. h[x].follows
  BY <1>1
<1>3. x \notin Whole(p, list, k) /\ h[x] = p[x]
  BY <1>2 DEF Heeds
<1>4. p[x].met /\ p[x].answer = Joined(p, x)
  BY <1>2, <1>3 DEF Composed
<1>5. x # k /\ m[x] = p[x]
  BY <1>1, <1>3, <1>4
<1>6. \A y \in ToSet(Parts[x]) : y \in ToSet(list) /\ y # k
  BY <1>3, <1>4, NodeLists DEF Whole
<1>7. \A y \in ToSet(Parts[x]) : m[y].answer = p[y].answer
  BY <1>1, <1>6 DEF Heeds
<1>8. Joined(m, x) = Joined(p, x)
  BY <1>7, JoinedSame
<1> QED
  BY <1>4, <1>5, <1>8

\* After a correction the aggregates it made stale are recomposed, and all that were
\* met follow.
LEMMA ComposedCorrected ==
  ASSUME NEW list \in Listed, NEW p \in Table(list), Composed(p, list),
         NEW k \in ToSet(list), ~IsAggregate(k), NEW ans, ans[k] \in Words,
         NEW h, Heeds(p, h, list, Whole(p, list, k), TRUE),
         NEW m, m = Met(h, {k}, ans),
         NEW stale, stale = {x \in ToSet(list) : /\ k \in ToSet(Parts[x]) /\ m[x].met
                                                 /\ Joined(m, x) # m[x].answer}
  PROVE  Composed(Met(m, stale, [x \in stale |-> Joined(m, x)]), list)
<1> DEFINE r == Met(m, stale, [x \in stale |-> Joined(m, x)])
<1>1. /\ m \in Table(list)
      /\ \A x \in ToSet(list) : x # k => m[x] = h[x]
  <2>1. h \in Table(list)
    BY DEF Heeds
  <2>2. Answered(h, m, list, {k}, ans)
    BY <2>1, MetAnswers
  <2> QED
    BY <2>2 DEF Answered
<1>2. \A x \in stale : x \in ToSet(list) /\ Joined(m, x) \in Words
  BY <1>1, JoinedType
<1>3. /\ \A x \in ToSet(list) : x \notin stale => r[x] = m[x]
      /\ \A x \in stale : /\ r[x].met = TRUE /\ r[x].answer = Joined(m, x)
                          /\ r[x].follows = m[x].follows
  <2> DEFINE said == [x \in stale |-> Joined(m, x)]
  <2>1. \A x \in stale : said[x] = Joined(m, x) /\ said[x] \in Words
    BY <1>2
  <2>2. stale \subseteq ToSet(list)
    BY <1>2
  <2> HIDE DEF said
  <2>3. Answered(m, Met(m, stale, said), list, stale, said)
    BY <1>1, <2>1, <2>2, MetAnswers
  <2>4. r = Met(m, stale, said)
    BY DEF said
  <2> HIDE DEF r
  <2> QED
    BY <2>1, <2>3, <2>4 DEF Answered
<1> HIDE DEF r
<1> SUFFICES ASSUME NEW x \in ToSet(list), IsAggregate(x), r[x].follows
             PROVE  r[x].met /\ r[x].answer = Joined(r, x)
  BY DEF Composed, r
<1>4. x # k /\ m[x] = h[x] /\ h[x].follows
  BY <1>1, <1>3
<1>5. \A y \in ToSet(Parts[x]) : y \in ToSet(list) /\ ~IsAggregate(y)
  BY NodeLists
<1>6. \A y \in ToSet(Parts[x]) : y \notin stale
  <2>1. \A y \in stale : IsAggregate(y)
    BY DEF IsAggregate, ToSet
  <2> QED
    BY <1>5, <2>1
<1>7. \A y \in ToSet(Parts[x]) : r[y] = m[y]
  BY <1>3, <1>5, <1>6
<1>8. Joined(r, x) = Joined(m, x)
  BY <1>7, JoinedSame
<1>9. CASE x \in Whole(p, list, k)
  <2>1. k \in ToSet(Parts[x]) /\ m[x].met
    BY <1>4, <1>9 DEF Whole, Heeds
  <2>2. CASE x \in stale
    BY <1>3, <1>8, <2>2
  <2>3. CASE x \notin stale
    BY <1>3, <1>8, <2>1, <2>3
  <2> QED
    BY <2>2, <2>3
<1>10. CASE x \notin Whole(p, list, k)
  <2>1. h[x] = p[x]
    BY <1>10 DEF Heeds
  <2>2. p[x].met /\ p[x].answer = Joined(p, x)
    BY <1>4, <2>1 DEF Composed
  <2>3. k \notin ToSet(Parts[x])
    BY <1>10, <2>2 DEF Whole
  <2>4. \A y \in ToSet(Parts[x]) : m[y].answer = p[y].answer
    BY <1>1, <1>5, <2>3 DEF Heeds
  <2>5. Joined(m, x) = Joined(p, x)
    BY <2>4, JoinedSame
  <2>6. x \notin stale
    BY <2>3
  <2> QED
    BY <1>3, <1>4, <1>8, <2>1, <2>2, <2>5, <2>6
<1> QED
  BY <1>9, <1>10

\* Aggregates whose parts have all been met are completed from them, and follow.
LEMMA ComposedCompleted ==
  ASSUME NEW list \in Listed, NEW p \in Table(list), Composed(p, list),
         NEW due, due = {x \in ToSet(list) : /\ IsAggregate(x) /\ ~Settled(p[x])
                                             /\ \A y \in ToSet(Parts[x]) : p[y].met},
         NEW h, Heeds(p, h, list, due, TRUE)
  PROVE  Composed(Met(h, due, [x \in due |-> Joined(p, x)]), list)
<1> DEFINE said == [x \in due |-> Joined(p, x)]
           r == Met(h, due, said)
<1>1. due \subseteq ToSet(list) /\ \A x \in due : said[x] = Joined(p, x) /\ said[x] \in Words
  BY JoinedType
<1> HIDE DEF said
<1>2. Answered(h, r, list, due, said)
  <2>1. h \in Table(list)
    BY DEF Heeds
  <2> QED
    BY <1>1, <2>1, MetAnswers
<1> HIDE DEF r
<1>3. /\ \A x \in ToSet(list) : x \notin due => r[x] = h[x] /\ h[x] = p[x]
      /\ \A x \in due : r[x].met = TRUE /\ r[x].answer = Joined(p, x)
  BY <1>1, <1>2 DEF Answered, Heeds
<1>4. Composed(r, list)
  <2> SUFFICES ASSUME NEW x \in ToSet(list), IsAggregate(x), r[x].follows
               PROVE  r[x].met /\ r[x].answer = Joined(r, x)
    BY DEF Composed
  <2>1. \A y \in ToSet(Parts[x]) : y \in ToSet(list) /\ ~IsAggregate(y)
    BY NodeLists
  <2>2. \A y \in ToSet(Parts[x]) : r[y] = p[y]
    BY <1>3, <2>1
  <2>3. Joined(r, x) = Joined(p, x)
    BY <2>2, JoinedSame
  <2>4. CASE x \in due
    BY <1>3, <2>3, <2>4
  <2>5. CASE x \notin due
    <3>1. r[x] = p[x]
      BY <1>3, <2>5
    <3> QED
      BY <2>3, <3>1 DEF Composed
  <2> QED
    BY <2>4, <2>5
<1> QED
  BY <1>4 DEF r, said

-----------------------------------------------------------------------------
(* Every part of a pass keeps the progress of its entry sound.               *)

Going(wr, s, e, list, ld) ==
  Reached(wr, s, e, list, ld) /\ Composed(s.prog, list)

\* A check records its answer after the aggregates above it were told whether to follow.
LEMMA CheckReached ==
  ASSUME NEW list \in Listed, NEW wr, NEW ld, NEW s, NEW e \in Nat, Reached(wr, s, e, list, ld),
         NEW k \in ToSet(list), NEW ans, ans[k] \in Words, NEW b \in BOOLEAN,
         NEW h, h = Heed(s.prog, Whole(s.prog, list, k), b),
         NEW t, t = Record([s EXCEPT !.prog = h], e, list, {k}, ans)
  PROVE  /\ Heeds(s.prog, h, list, Whole(s.prog, list, k), b)
         /\ Reached(wr, t, e, list, ld) /\ t.prog = Met(h, {k}, ans)
<1> DEFINE K == Whole(s.prog, list, k)
           u == [s EXCEPT !.prog = h]
<1>1. K \subseteq ToSet(list) /\ s.prog \in Table(list)
  BY DEF Whole, Reached, States
<1> HIDE DEF K
<1>2. Heeds(s.prog, h, list, K, b)
  BY <1>1, HeedHeeds DEF K
<1>3. Reached(wr, u, e, list, ld) /\ u.prog = h
  <2>1. Reached(wr, [s EXCEPT !.prog = Heed(s.prog, K, b)], e, list, ld)
        /\ [s EXCEPT !.prog = Heed(s.prog, K, b)].prog = Heed(s.prog, K, b)
    BY <1>1, HeedReached
  <2> QED
    BY <2>1 DEF K
<1> HIDE DEF u
<1>4. Reached(wr, Record(u, e, list, {k}, ans), e, list, ld)
      /\ Record(u, e, list, {k}, ans).prog = Met(u.prog, {k}, ans)
  <2>1. {k} \subseteq ToSet(list) /\ \A x \in {k} : ans[x] \in Words
    OBVIOUS
  <2> QED
    BY <1>3, <2>1, RecordReached
<1> QED
  BY <1>2, <1>3, <1>4 DEF K, u

LEMMA CheckGoes ==
  ASSUME NEW list \in Listed, NEW wr, NEW ld, NEW s, NEW e \in Nat, Going(wr, s, e, list, ld),
         NEW c, c.key \in ToSet(list), c.answer \in Words
  PROVE  Going(wr, ApplyCheck(s, e, list, c), e, list, ld)
<1> DEFINE k   == c.key
           b   == s.prog[k].met
           ans == [x \in {k} |-> c.answer]
           h   == Heed(s.prog, Whole(s.prog, list, k), b)
           t   == Record([s EXCEPT !.prog = h], e, list, {k}, ans)
<1>1. k \in ToSet(list) /\ ans[k] = c.answer /\ ans[k] \in Words
  OBVIOUS
<1>2. s.prog \in Table(list) /\ Reached(wr, s, e, list, ld) /\ Composed(s.prog, list)
  BY DEF Going, Reached, States
<1>3. b \in BOOLEAN
  <2>1. s.prog[k] \in Progress
    BY <1>1, <1>2 DEF Table
  <2> QED
    BY <2>1 DEF Progress
<1>4. /\ Heeds(s.prog, h, list, Whole(s.prog, list, k), b)
      /\ Reached(wr, t, e, list, ld) /\ t.prog = Met(h, {k}, ans)
  <2> HIDE DEF k, b, ans
  <2> QED
    BY <1>1, <1>2, <1>3, CheckReached
<1>5. ApplyCheck(s, e, list, c) =
        IF ~b THEN t
        ELSE IF IsAggregate(k) \/ c.answer \in {<<>>, s.prog[k].answer} THEN s
        ELSE RecomposeAggregates(t, e, list, k)
  BY DEF ApplyCheck, Whole
<1> HIDE DEF ans, t, h
<1>6. CASE ~b
  <2>1. Heeds(s.prog, h, list, Whole(s.prog, list, k), FALSE)
    BY <1>4, <1>6 DEF Heeds
  <2>2. Composed(Met(h, {k}, ans), list)
    <3>1. ~s.prog[k].met
      BY <1>6
    <3> HIDE DEF k, b
    <3> QED
      BY <1>1, <1>2, <2>1, <3>1, ComposedFirst
  <2> QED
    BY <1>4, <1>5, <1>6, <2>2 DEF Going
<1>7. CASE b /\ (IsAggregate(k) \/ c.answer \in {<<>>, s.prog[k].answer})
  BY <1>5, <1>7
<1>8. CASE b /\ ~IsAggregate(k) /\ c.answer \notin {<<>>, s.prog[k].answer}
  <2> DEFINE q     == t.prog
             stale == {x \in ToSet(list) : /\ k \in ToSet(Parts[x]) /\ q[x].met
                                           /\ Joined(q, x) # q[x].answer}
             said  == [x \in stale |-> Joined(q, x)]
             u     == Record(t, e, list, stale, said)
  <2>1. ApplyCheck(s, e, list, c) = u
    BY <1>5, <1>8 DEF RecomposeAggregates
  <2>2. q \in Table(list)
    BY <1>4 DEF Reached, States
  <2>3. stale \subseteq ToSet(list) /\ \A x \in stale : said[x] \in Words
    BY <2>2, JoinedType
  <2>4. Reached(wr, u, e, list, ld) /\ u.prog = Met(q, stale, said)
    <3> HIDE DEF stale, said
    <3> QED
      BY <1>4, <2>3, RecordReached
  <2>5. Heeds(s.prog, h, list, Whole(s.prog, list, k), TRUE)
    BY <1>4, <1>8 DEF Heeds
  <2>6. Composed(Met(q, stale, said), list)
    <3>1. stale = {x \in ToSet(list) : /\ k \in ToSet(Parts[x]) /\ q[x].met
                                       /\ Joined(q, x) # q[x].answer}
      OBVIOUS
    <3>2. q = Met(h, {k}, ans) /\ ~IsAggregate(k)
      BY <1>4, <1>8
    <3>3. Composed(Met(q, stale, [x \in stale |-> Joined(q, x)]), list)
      <4> HIDE DEF q, k, b, stale
      <4> QED
        BY <1>1, <1>2, <2>5, <3>1, <3>2, ComposedCorrected, ZenonT(60)
    <3> QED
      BY <3>3
  <2> QED
    BY <2>1, <2>4, <2>6 DEF Going
<1> QED
  BY <1>3, <1>6, <1>7, <1>8

LEMMA CompleteGoes ==
  ASSUME NEW list \in Listed, NEW wr, NEW ld, NEW s, NEW e \in Nat, Going(wr, s, e, list, ld)
  PROVE  Going(wr, CompleteAggregates(s, e, list), e, list, ld)
<1> DEFINE due  == {k \in ToSet(list) : /\ IsAggregate(k) /\ ~Settled(s.prog[k])
                                        /\ \A p \in ToSet(Parts[k]) : s.prog[p].met}
           said == [k \in due |-> Joined(s.prog, k)]
           h    == Heed(s.prog, due, TRUE)
           u    == [s EXCEPT !.prog = h]
           t    == Record(u, e, list, due, said)
<1>1. CompleteAggregates(s, e, list) = t
  BY DEF CompleteAggregates
<1>2. s.prog \in Table(list) /\ Reached(wr, s, e, list, ld) /\ Composed(s.prog, list)
  BY DEF Going, Reached, States
<1>3. due \subseteq ToSet(list) /\ \A k \in due : said[k] \in Words
  BY <1>2, JoinedType
<1>4. due = {k \in ToSet(list) : /\ IsAggregate(k) /\ ~Settled(s.prog[k])
                                 /\ \A p \in ToSet(Parts[k]) : s.prog[p].met}
  OBVIOUS
<1> HIDE DEF due
<1>5. Heeds(s.prog, h, list, due, TRUE) /\ Reached(wr, u, e, list, ld) /\ u.prog = h
  <2>1. Heeds(s.prog, Heed(s.prog, due, TRUE), list, due, TRUE)
    BY <1>2, <1>3, HeedHeeds
  <2>2. /\ Reached(wr, [s EXCEPT !.prog = Heed(s.prog, due, TRUE)], e, list, ld)
        /\ [s EXCEPT !.prog = Heed(s.prog, due, TRUE)].prog = Heed(s.prog, due, TRUE)
    <3> DEFINE b == TRUE
    <3>1. b \in BOOLEAN
      OBVIOUS
    <3> HIDE DEF b
    <3>2. /\ Reached(wr, [s EXCEPT !.prog = Heed(s.prog, due, b)], e, list, ld)
          /\ [s EXCEPT !.prog = Heed(s.prog, due, b)].prog = Heed(s.prog, due, b)
      BY <1>2, <1>3, <3>1, HeedReached
    <3> QED
      BY <3>2 DEF b
  <2> QED
    BY <2>1, <2>2
<1> HIDE DEF h, u
<1>6. Reached(wr, t, e, list, ld) /\ t.prog = Met(h, due, said)
  <2> HIDE DEF said
  <2>1. Reached(wr, t, e, list, ld) /\ t.prog = Met(u.prog, due, said)
    BY <1>3, <1>5, RecordReached
  <2> QED
    BY <1>5, <2>1
<1>7. Composed(Met(h, due, said), list)
  BY <1>2, <1>4, <1>5, ComposedCompleted DEF said
<1> QED
  BY <1>1, <1>6, <1>7 DEF Going

LEMMA BurnGoes ==
  ASSUME NEW list \in Listed, NEW wr, NEW ld, NEW s, NEW e \in Nat, Going(wr, s, e, list, ld)
  PROVE  Going(wr, BurnAttempt(s, list), e, list, ld)
<1> DEFINE live == Live(s.prog, list)
           k    == list[Min(live)]
           n    == s.prog[k].attempts + 1
           z    == n >= MaxAttempts
           p    == s.prog[k]
           q    == [p EXCEPT !.attempts = n, !.skipped = z]
           r    == [s.prog EXCEPT ![k] = q]
           t    == [s EXCEPT !.prog = r]
<1>1. CASE live = {}
  BY <1>1 DEF BurnAttempt
<1>2. CASE live # {}
  <2>1. s.prog \in Table(list) /\ Reached(wr, s, e, list, ld) /\ s \in States(list)
        /\ Composed(s.prog, list)
        /\ Spent(s.prog, list) /\ Kept(s.prog, e, list, s.writes \cup ld)
    BY DEF Going, Reached, States, Plain
  <2>2. k \in ToSet(list) /\ ~IsAggregate(k) /\ ~p.met /\ ~p.skipped
    <3>1. live \subseteq Nat
      BY NodeLists DEF Live
    <3>2. Min(live) \in live
      <4> HIDE DEF live
      <4> QED
        BY <1>2, <3>1, MinIsIn
    <3> QED
      BY <3>2 DEF Live, Settled, ToSet
  <2>3. BurnAttempt(s, list) = t
    <3>1. BurnAttempt(s, list) = [s EXCEPT !.prog[k].attempts = n, !.prog[k].skipped = z]
      BY <1>2 DEF BurnAttempt
    <3>2. s = [prog |-> s.prog, known |-> s.known, captured |-> s.captured, writes |-> s.writes]
      BY <2>1 DEF States
    <3>3. DOMAIN s.prog = ToSet(list) /\ p \in Progress
      BY <2>1, <2>2 DEF Table
    <3>4. [s EXCEPT !.prog[k].attempts = n, !.prog[k].skipped = z] = t
      <4> DEFINE y1 == [p EXCEPT !.attempts = n]
                 p1 == [s.prog EXCEPT ![k] = y1]
                 s1 == [s EXCEPT !.prog = p1]
      <4>1. [s EXCEPT !.prog[k].attempts = n] = s1
        OBVIOUS
      <4>2. s1.prog = p1 /\ p1[k] = y1
        BY <2>2, <3>2, <3>3
      <4>3. [s EXCEPT !.prog[k].attempts = n, !.prog[k].skipped = z]
              = [s1 EXCEPT !.prog[k].skipped = z]
        BY <4>1
      <4>4. [s1 EXCEPT !.prog[k].skipped = z]
              = [s1 EXCEPT !.prog = [s1.prog EXCEPT ![k] = [s1.prog[k] EXCEPT !.skipped = z]]]
        OBVIOUS
      <4>5. [s1.prog EXCEPT ![k] = [s1.prog[k] EXCEPT !.skipped = z]] = r
        <5>1. [y1 EXCEPT !.skipped = z] = q
          OBVIOUS
        <5> HIDE DEF s1, y1, q
        <5> QED
          BY <4>2, <5>1, <3>3, <2>2
      <4>6. [s1 EXCEPT !.prog = r] = t
        <5> HIDE DEF p1, r
        <5> QED
          BY <3>2
      <4> QED
        BY <4>3, <4>4, <4>5, <4>6
    <3> QED
      BY <3>1, <3>4
  <2>4. q \in Progress /\ q.met = p.met /\ q.answer = p.answer /\ q.given = p.given
        /\ q.failed = p.failed /\ q.follows = p.follows /\ q.attempts = n /\ q.skipped = z
    <3>1. z \in BOOLEAN
      OBVIOUS
    <3>2. p \in Progress
      BY <2>1, <2>2 DEF Table
    <3>3. n \in 0 .. MaxAttempts
      <4>1. p.attempts \in 0 .. MaxAttempts /\ MaxAttempts \in Nat
        BY <3>2, Shape DEF Progress
      <4>2. ~ (p.attempts >= MaxAttempts)
        BY <2>1, <2>2 DEF Spent
      <4> QED
        BY <4>1, <4>2
    <3> HIDE DEF z, n, p
    <3> QED
      BY <3>1, <3>2, <3>3 DEF Progress
  <2>5. \A x \in ToSet(list) : x # k => r[x] = s.prog[x]
    BY <2>1 DEF Table
  <2>6. r[k] = q /\ r \in Table(list)
    <3> HIDE DEF q
    <3> QED
      BY <2>1, <2>2, <2>4 DEF Table
  <2>7. Spent(r, list)
    <3> SUFFICES ASSUME NEW x \in ToSet(list), r[x].attempts >= MaxAttempts PROVE r[x].skipped
      BY DEF Spent
    <3>1. CASE x = k
      BY <2>4, <2>6, <3>1
    <3>2. CASE x # k
      BY <2>1, <2>5, <3>2 DEF Spent
    <3> QED
      BY <3>1, <3>2
  <2> HIDE DEF r, q
  <2>8. \A x \in ToSet(list) : /\ r[x].met = s.prog[x].met /\ r[x].answer = s.prog[x].answer
                               /\ r[x].given = s.prog[x].given
                               /\ r[x].failed = s.prog[x].failed
                               /\ r[x].follows = s.prog[x].follows
    BY <2>4, <2>5, <2>6
  <2>9. Kept(r, e, list, s.writes \cup ld)
    BY <2>1, <2>8 DEF Kept
  <2>10. Composed(r, list)
    BY <2>1, <2>8, ComposedSame
  <2>11. t \in States(list) /\ t.prog = r /\ t.writes = s.writes
    BY <2>1, <2>6 DEF States
  <2>12. Going(wr, t, e, list, ld)
    <3> HIDE DEF t
    <3> QED
      BY <2>1, <2>6, <2>7, <2>9, <2>10, <2>11 DEF Going, Reached, Plain
  <2> QED
    BY <2>3, <2>12
<1> QED
  BY <1>1, <1>2
\* A retry changes nothing that settles an objective.
LEMMA RetryGoes ==
  ASSUME NEW list \in Listed, NEW wr, NEW ld, NEW s, NEW e \in Nat, Going(wr, s, e, list, ld),
         AllSettled(s.prog, list)
  PROVE  /\ Going(wr, RetryWrites(s, e, list), e, list, ld)
         /\ AllSettled(RetryWrites(s, e, list).prog, list)
<1> DEFINE again == {k \in ToSet(list) : LET p == s.prog[k]
                                         IN p.failed /\ ~p.retried /\ p.answer # <<>>}
           prog  == [k \in DOMAIN s.prog |->
                       IF k \in again THEN [s.prog[k] EXCEPT !.retried = TRUE] ELSE s.prog[k]]
           ans   == [k \in again |-> s.prog[k].answer]
           u     == [s EXCEPT !.prog = prog]
           t     == Write(u, e, list, again, ans)
<1>1. s.prog \in Table(list) /\ Reached(wr, s, e, list, ld) /\ s \in States(list)
      /\ Composed(s.prog, list)
      /\ Spent(s.prog, list) /\ Kept(s.prog, e, list, s.writes \cup ld)
  BY DEF Going, Reached, States, Plain
<1>2. RetryWrites(s, e, list) = t
  BY DEF RetryWrites
<1>3. DOMAIN s.prog = ToSet(list) /\ \A k \in ToSet(list) : s.prog[k] \in Progress
  BY <1>1 DEF Table
<1>4. ASSUME NEW k \in ToSet(list)
      PROVE  /\ prog[k] \in Progress /\ prog[k].met = s.prog[k].met
             /\ prog[k].answer = s.prog[k].answer /\ prog[k].given = s.prog[k].given
             /\ prog[k].failed = s.prog[k].failed /\ prog[k].attempts = s.prog[k].attempts
             /\ prog[k].skipped = s.prog[k].skipped /\ prog[k].follows = s.prog[k].follows
  <2> DEFINE p == s.prog[k]
             q == prog[k]
  <2>1. p \in Progress /\ (q = p \/ q = [p EXCEPT !.retried = TRUE])
    BY <1>3
  <2> HIDE DEF p, q
  <2>2. /\ q \in Progress /\ q.met = p.met
        /\ q.answer = p.answer /\ q.given = p.given
        /\ q.failed = p.failed /\ q.attempts = p.attempts
        /\ q.skipped = p.skipped /\ q.follows = p.follows
    BY <2>1 DEF Progress
  <2> QED
    BY <2>2 DEF p, q
<1>5. prog \in Table(list)
  BY <1>3, <1>4 DEF Table
<1>6. again \subseteq ToSet(list) /\ \A k \in again : ans[k] \in Words
  BY <1>3 DEF Progress, Words
<1> HIDE DEF prog, again, ans
<1>7. u \in States(list) /\ u.prog = prog /\ u.writes = s.writes
  BY <1>1, <1>5 DEF States
<1> HIDE DEF u
<1>8. Sends(u, t, e, list, again, ans) /\ t.prog = prog
  BY <1>6, <1>7, WriteSends
<1> HIDE DEF t
<1>9. Spent(prog, list)
  BY <1>1, <1>4 DEF Spent
<1>10. s.writes \subseteq t.writes
  BY <1>7, <1>8 DEF Sends
<1>11. Kept(prog, e, list, t.writes \cup ld)
  BY <1>1, <1>4, <1>10 DEF Kept
<1>12. Composed(prog, list)
  BY <1>1, <1>4, ComposedSame
<1>13. t \in States(list) /\ wr \subseteq t.writes
       /\ \A w \in t.writes : w \in wr \/ (w.entry = e /\ w.key \in ToSet(list))
  BY <1>1, <1>6, <1>7, <1>8 DEF Sends, Reached
<1>14. Going(wr, t, e, list, ld)
  BY <1>5, <1>8, <1>9, <1>11, <1>12, <1>13 DEF Going, Reached, Plain
<1>15. AllSettled(t.prog, list)
  BY <1>4, <1>8 DEF AllSettled, Settled
<1> QED
  BY <1>2, <1>14, <1>15

-----------------------------------------------------------------------------
(* A whole verdict.                                                          *)

\* The checks of a verdict are about objectives of the list.
Checks(list) == {c \in [key : Key, answer : Answer] : c.key \in ToSet(list)}

LEMMA VerdictChecks ==
  ASSUME NEW list \in Listed, NEW checks \in Verdicts(list)
  PROVE  checks \in Seq(Checks(list))
<1>1. PICK asked \in SUBSET ToSet(list) :
        checks \in {[i \in DOMAIN order |-> [key |-> order[i], answer |-> answers[order[i]]]] :
                     order \in SetToSeqs(asked), answers \in [asked -> Answer]}
  BY DEF Verdicts
<1>2. PICK order \in SetToSeqs(asked) : \E answers \in [asked -> Answer] :
        checks = [i \in DOMAIN order |-> [key |-> order[i], answer |-> answers[order[i]]]]
  BY <1>1
<1>3. PICK answers \in [asked -> Answer] :
        checks = [i \in DOMAIN order |-> [key |-> order[i], answer |-> answers[order[i]]]]
  BY <1>2
<1> DEFINE N == Cardinality(asked)
<1>4. N \in Nat
  <2>1. IsFiniteSet(ToSet(list))
    <3>1. list \in Seq(ToSet(list)) /\ \A k \in ToSet(list) : \E i \in 1 .. Len(list) : list[i] = k
      BY NodeLists DEF ToSet
    <3> QED
      BY <3>1 DEF IsFiniteSet
  <2> QED
    BY <2>1, FS_Subset, FS_CardinalityType
<1>5. order \in [1 .. N -> asked]
  BY DEF SetToSeqs
<1>6. \A i \in 1 .. N : [key |-> order[i], answer |-> answers[order[i]]] \in Checks(list)
  <2> TAKE i \in 1 .. N
  <2>1. order[i] \in asked /\ answers[order[i]] \in Answer
    BY <1>5
  <2>2. order[i] \in ToSet(list) /\ order[i] \in Key
    BY <2>1, NodeLists
  <2> QED
    BY <2>1, <2>2 DEF Checks
<1>7. checks \in [1 .. N -> Checks(list)]
  BY <1>3, <1>5, <1>6
<1> QED
  BY <1>4, <1>7

\* How far the loop over the checks has come with f.
CheckedTo(f, n, s, e, list, checks) ==
  f = [i \in 0 .. n |-> IF i = 0 THEN s ELSE ApplyCheck(f[i - 1], e, list, checks[i])]

\* The recursion of ApplyChecks is well-founded.
LEMMA ChecksDefined ==
  ASSUME NEW s, NEW e, NEW list, NEW S, NEW checks \in Seq(S)
  PROVE  \E f : CheckedTo(f, Len(checks), s, e, list, checks)
<1> DEFINE Done == {n \in 0 .. Len(checks) : \E f : CheckedTo(f, n, s, e, list, checks)}
<1>1. 0 \in Done
  <2>1. CheckedTo([i \in 0 .. 0 |-> s], 0, s, e, list, checks)
    BY DEF CheckedTo
  <2> QED
    BY <2>1
<1>2. ASSUME NEW n \in 1 .. Len(checks), n - 1 \in Done PROVE n \in Done
  <2>1. n \in Nat /\ n - 1 \in Nat
    OBVIOUS
  <2>2. PICK f : CheckedTo(f, n - 1, s, e, list, checks)
    BY <1>2
  <2> DEFINE g == [i \in 0 .. n |-> IF i = n THEN ApplyCheck(f[n - 1], e, list, checks[n])
                                    ELSE f[i]]
  <2>3. \A i \in 0 .. n - 1 : g[i] = f[i]
    BY <2>1
  <2>4. ASSUME NEW i \in 0 .. n
        PROVE  g[i] = IF i = 0 THEN s ELSE ApplyCheck(g[i - 1], e, list, checks[i])
    <3>1. CASE i = n
      BY <2>1, <2>3, <3>1
    <3>2. CASE i # n
      <4>1. i \in 0 .. n - 1 /\ (i # 0 => i - 1 \in 0 .. n - 1)
        BY <2>1, <3>2
      <4>2. f[i] = IF i = 0 THEN s ELSE ApplyCheck(f[i - 1], e, list, checks[i])
        BY <2>2, <4>1 DEF CheckedTo
      <4> QED
        BY <2>3, <4>1, <4>2
    <3> QED
      BY <3>1, <3>2
  <2>5. CheckedTo(g, n, s, e, list, checks)
    <3>1. g = [i \in 0 .. n |-> g[i]]
      OBVIOUS
    <3> HIDE DEF g
    <3> QED
      BY <2>4, <3>1 DEF CheckedTo
  <2> QED
    BY <2>5
<1>3. \A i \in 0 .. Len(checks) : i \in Done
  <2>1. Len(checks) \in Nat
    OBVIOUS
  <2> HIDE DEF Done
  <2> QED
    BY <1>1, <1>2, <2>1, InductionUpTo
<1> QED
  BY <1>3

LEMMA ChecksGo ==
  ASSUME NEW list \in Listed, NEW wr, NEW ld, NEW s, NEW e \in Nat, Going(wr, s, e, list, ld),
         NEW checks \in Seq(Checks(list))
  PROVE  Going(wr, ApplyChecks(s, e, list, checks), e, list, ld)
<1> DEFINE n == Len(checks)
           f == CHOOSE g : CheckedTo(g, n, s, e, list, checks)
<1>1. n \in Nat /\ DOMAIN checks = 1 .. n
  OBVIOUS
<1>2. CheckedTo(f, n, s, e, list, checks)
  BY ChecksDefined
<1>3. ApplyChecks(s, e, list, checks) = f[n]
  BY DEF ApplyChecks, CheckedTo
<1> HIDE DEF f
<1> DEFINE Good == {i \in 0 .. n : Going(wr, f[i], e, list, ld)}
<1>4. 0 \in Good
  <2>1. f[0] = s
    BY <1>1, <1>2 DEF CheckedTo
  <2> QED
    BY <1>1, <2>1
<1>5. ASSUME NEW i \in 1 .. n, i - 1 \in Good PROVE i \in Good
  <2>1. f[i] = ApplyCheck(f[i - 1], e, list, checks[i])
    BY <1>1, <1>2 DEF CheckedTo
  <2>2. Going(wr, f[i - 1], e, list, ld)
    BY <1>5
  <2>3. checks[i].key \in ToSet(list) /\ checks[i].answer \in Words
    <3>1. checks[i] \in Checks(list)
      BY <1>1
    <3>2. Answer \subseteq Words
      <4>1. \A w \in Heard \cup Filed \cup {NA} : <<w>> \in Words
        BY DEF Words
      <4>2. <<>> \in Words
        BY DEF Words
      <4> QED
        BY <4>1, <4>2 DEF Answer
    <3> QED
      BY <3>1, <3>2 DEF Checks
  <2>4. Going(wr, f[i], e, list, ld)
    <3> DEFINE a == f[i - 1]
               c == checks[i]
    <3> HIDE DEF a, c
    <3>1. Going(wr, ApplyCheck(a, e, list, c), e, list, ld)
      BY <2>2, <2>3, CheckGoes DEF a, c
    <3> QED
      BY <2>1, <3>1 DEF a, c
  <2> QED
    BY <2>4
<1>6. \A i \in 0 .. n : i \in Good
  <2> HIDE DEF Good
  <2> QED
    BY <1>1, <1>4, <1>5, InductionUpTo
<1> QED
  BY <1>1, <1>3, <1>6

LEMMA VerdictGoes ==
  ASSUME NEW list \in Listed, NEW wr, NEW ld, NEW s, NEW e \in Nat, Going(wr, s, e, list, ld),
         NEW checks \in Seq(Checks(list))
  PROVE  Going(wr, ApplyVerdict(s, e, list, checks), e, list, ld)
  BY ChecksGo, BurnGoes, CompleteGoes DEF ApplyVerdict
-----------------------------------------------------------------------------
(* One step of the tracker.                                                  *)

\* What a step must leave true of the entries and of the contact.
Entries ==
  /\ DOMAIN entries = 1 .. Len(entries) /\ Len(entries) \in Nat
  /\ active \in 0 .. Len(entries)
  /\ writes \subseteq Sent
  /\ \A w \in writes : w.entry \in DOMAIN entries /\ w.key \in ToSet(List(w.entry))
  /\ \A e \in DOMAIN entries : Tracked(entries[e], e, active, writes \cup landed)
  /\ known \in [Field -> Words] /\ captured \subseteq Field

Session == /\ pending \in BOOLEAN /\ complete \in BOOLEAN /\ completed \in BOOLEAN
           /\ agent \in Node /\ entering \in Seq(Node)

LEMMA IInvParts == IInv <=> Entries /\ Session
  BY DEF IInv, Registers, Pointers, Entries, Session

\* An entry stays tracked when more writes are out and the pointer has not come to it.
LEMMA TrackedStays ==
  ASSUME NEW rt, NEW e, NEW act, NEW out, Tracked(rt, e, act, out),
         NEW act2, act2 = act \/ act2 # e, NEW out2, out \subseteq out2
  PROVE  Tracked(rt, e, act2, out2)
<1>1. Kept(rt.prog, e, ObjectivesOf[rt.node], out) => Kept(rt.prog, e, ObjectivesOf[rt.node], out2)
  BY DEF Kept
<1>2. Sound(rt.prog, e, ObjectivesOf[rt.node], out2)
  BY <1>1 DEF Tracked, Sound, Plain
<1> QED
  BY <1>2 DEF Tracked

\* The state in which an entry's pass goes on is sound.
LEMMA StateGoes ==
  ASSUME Entries, NEW e \in DOMAIN entries
  PROVE  /\ e \in Nat /\ List(e) \in Listed /\ entries[e] \in Runtimes /\ entries[e].node \in Node
         /\ Going(writes, State(e), e, List(e), landed)
<1>1. Tracked(entries[e], e, active, writes \cup landed) /\ e \in Nat
  <2>1. Len(entries) \in Nat /\ e \in 1 .. Len(entries)
    BY DEF Entries
  <2>2. Tracked(entries[e], e, active, writes \cup landed)
    BY DEF Entries
  <2> QED
    BY <2>1, <2>2
<1>2. entries[e] \in Runtimes /\ entries[e].node \in Node
      /\ Sound(entries[e].prog, e, List(e), writes \cup landed)
  BY <1>1 DEF Tracked, Runtimes, List
<1>3. State(e) \in States(List(e)) /\ State(e).prog = entries[e].prog /\ State(e).writes = writes
  BY <1>2 DEF State, States, Sound, Plain, Entries
<1>4. List(e) \in Listed
  BY <1>2 DEF List, Listed
<1> HIDE DEF State
<1> QED
  BY <1>1, <1>2, <1>3, <1>4 DEF Going, Reached, Sound

\* A step that stores s as the state of entry e leaves the other entries alone.
LEMMA PutKeeps ==
  ASSUME Entries, NEW e \in 1 .. Len(entries) + 1, NEW rt \in Runtimes, NEW s,
         e \in DOMAIN entries => rt.node = entries[e].node,
         Going(writes, s, e, ObjectivesOf[rt.node], landed),
         Put(e, rt, s), landed' = landed, active' = active \/ active' = e,
         Tracked([rt EXCEPT !.prog = s.prog], e, active', s.writes \cup landed)
  PROVE  Entries'
<1> DEFINE n == Len(entries)
           m == IF e = n + 1 THEN n + 1 ELSE n
           z == [rt EXCEPT !.prog = s.prog]
<1>1. n \in Nat /\ DOMAIN entries = 1 .. n /\ m \in Nat /\ DOMAIN entries \cup {e} = 1 .. m
      /\ e \in 1 .. m /\ n <= m
  BY DEF Entries
<1>2. entries' = [i \in 1 .. m |-> IF i = e THEN z ELSE entries[i]]
  BY <1>1 DEF Put
<1> HIDE DEF m, z
<1>3. DOMAIN entries' = 1 .. m /\ Len(entries') = m
  BY <1>1, <1>2
<1>4. entries'[e] = z /\ z.node = rt.node /\ rt.node \in Node
  BY <1>1, <1>2 DEF z, Runtimes
<1>5. \A i \in 1 .. m : i # e => i \in 1 .. n /\ entries'[i] = entries[i]
  <2>1. \A i \in 1 .. m : i # e => i \in 1 .. n
    BY <1>1 DEF m
  <2> QED
    BY <1>2, <2>1
<1>6. s \in States(ObjectivesOf[rt.node]) /\ writes \subseteq s.writes
      /\ \A w \in s.writes : w \in writes \/ (w.entry = e /\ w.key \in ToSet(ObjectivesOf[rt.node]))
  BY DEF Going, Reached
<1>7. known' = s.known /\ captured' = s.captured /\ writes' = s.writes
  BY DEF Put
<1>8. known' \in [Field -> Words] /\ captured' \subseteq Field /\ writes' \subseteq Sent
  BY <1>6, <1>7 DEF States
<1>9. \A i \in 1 .. n : ObjectivesOf[entries'[i].node] = ObjectivesOf[entries[i].node]
  BY <1>1, <1>4, <1>5, <1>3
<1>10. ASSUME NEW w \in writes'
       PROVE  w.entry \in 1 .. m /\ w.key \in ToSet(ObjectivesOf[entries'[w.entry].node])
  <2>1. CASE w \in writes
    <3>1. w.entry \in 1 .. n /\ w.key \in ToSet(ObjectivesOf[entries[w.entry].node])
      BY <1>1, <2>1 DEF Entries, List
    <3> QED
      BY <1>1, <1>9, <3>1
  <2>2. CASE w.entry = e /\ w.key \in ToSet(ObjectivesOf[rt.node])
    BY <1>1, <1>4, <2>2
  <2> QED
    BY <1>6, <1>7, <2>1, <2>2
<1>11. active' \in 0 .. m
  BY <1>1 DEF Entries
<1>12. ASSUME NEW i \in 1 .. m PROVE Tracked(entries'[i], i, active', writes' \cup landed')
  <2>1. CASE i = e
    BY <1>4, <1>7, <2>1 DEF z
  <2>2. CASE i # e
    <3>1. i \in 1 .. n /\ entries'[i] = entries[i] /\ Tracked(entries[i], i, active, writes \cup landed)
      BY <1>1, <1>5, <2>2 DEF Entries
    <3>2. active' = active \/ active' # i
      BY <2>2
    <3>3. writes \cup landed \subseteq writes' \cup landed'
      BY <1>6, <1>7
    <3> QED
      BY <3>1, <3>2, <3>3, TrackedStays
  <2> QED
    BY <2>1, <2>2
<1> QED
  BY <1>1, <1>3, <1>8, <1>10, <1>11, <1>12 DEF Entries, List
\* The commit (MaybeComplete) keeps everything, whoever calls it: a pass that is over,
\* a pass with nothing to ask, or the entry of a node.
LEMMA CompleteKeeps ==
  ASSUME Entries, NEW e \in 1 .. Len(entries) + 1, NEW rt \in Runtimes, NEW s,
         e \in DOMAIN entries => rt.node = entries[e].node,
         Going(writes, s, e, ObjectivesOf[rt.node], landed),
         rt.pass = 0, rt.exit # "no" => AllSettled(s.prog, ObjectivesOf[rt.node]),
         active' = e /\ rt.exit = "no" => ~rt.rerun /\ rt.judged = rt.heard,
         NEW p \in BOOLEAN, NEW c \in BOOLEAN,
         MaybeComplete(e, rt, s, active', p, c),
         landed' = landed, active' = active \/ active' = e
  PROVE  Entries' /\ pending' \in BOOLEAN /\ complete' \in BOOLEAN
<1> DEFINE list   == ObjectivesOf[rt.node]
           commit == rt.exit = "no" /\ active' = e /\ AllSettled(s.prog, list)
           rw     == [rt EXCEPT !.exit = "waiting"]
           z      == RetryWrites(s, e, list)
<1>1. pending' = (p \/ commit) /\ complete' = (c \/ commit)
  BY DEF MaybeComplete
<1>2. (p \/ commit) \in BOOLEAN /\ (c \/ commit) \in BOOLEAN
  OBVIOUS
<1>3. pending' \in BOOLEAN /\ complete' \in BOOLEAN
  BY <1>1, <1>2, Zenon
<1>4. list \in Listed /\ e \in Nat /\ rt.node \in Node
  BY DEF Listed, Runtimes, Entries
<1>5. CASE commit
  <2>1. Put(e, rw, z)
    BY <1>5 DEF MaybeComplete
  <2>2. rw \in Runtimes /\ rw.node = rt.node /\ rw.pass = 0 /\ rw.exit = "waiting"
        /\ rw.rerun = rt.rerun /\ rw.judged = rt.judged /\ rw.heard = rt.heard
    BY DEF Runtimes, Exits
  <2>3. Going(writes, z, e, list, landed) /\ AllSettled(z.prog, list)
    <3>1. AllSettled(s.prog, list)
      BY <1>5
    <3> QED
      BY <1>4, <3>1, RetryGoes
  <2> HIDE DEF rw, z
  <2>4. Tracked([rw EXCEPT !.prog = z.prog], e, active', z.writes \cup landed)
    <3> DEFINE y == [rw EXCEPT !.prog = z.prog]
    <3>1. z.prog \in Table(list) /\ Sound(z.prog, e, list, z.writes \cup landed)
      BY <2>3 DEF Going, Reached, Plain, Sound
    <3>2. y \in Runtimes /\ y.prog = z.prog /\ y.node = rt.node /\ y.pass = 0 /\ y.exit = "waiting"
      BY <1>4, <2>2, <3>1 DEF Runtimes
    <3>3. Tracked(y, e, active', z.writes \cup landed)
      <4> HIDE DEF y
      <4> QED
        BY <2>3, <3>1, <3>2 DEF Tracked
    <3> QED
      BY <3>3
  <2>5. Entries'
    BY <2>1, <2>2, <2>3, <2>4, PutKeeps
  <2> QED
    BY <1>3, <2>5
<1>6. CASE ~commit
  <2>1. Put(e, rt, s)
    BY <1>6 DEF MaybeComplete
  <2>2. Tracked([rt EXCEPT !.prog = s.prog], e, active', s.writes \cup landed)
    <3> DEFINE y == [rt EXCEPT !.prog = s.prog]
    <3>1. s.prog \in Table(list) /\ Sound(s.prog, e, list, s.writes \cup landed)
      BY DEF Going, Reached, Plain, Sound
    <3>2. y \in Runtimes /\ y.prog = s.prog /\ y.node = rt.node /\ y.pass = 0 /\ y.exit = rt.exit
          /\ y.rerun = rt.rerun /\ y.judged = rt.judged /\ y.heard = rt.heard
      BY <1>4, <3>1 DEF Runtimes
    <3>3. Tracked(y, e, active', s.writes \cup landed)
      <4> HIDE DEF y
      <4> QED
        BY <1>6, <3>1, <3>2 DEF Tracked
    <3> QED
      BY <3>3
  <2>3. Entries'
    BY <2>1, <2>2, PutKeeps
  <2> QED
    BY <1>3, <2>3
<1> QED
  BY <1>5, <1>6

\* From rt the runtime object y is one whose pass n has just begun.
Begun(rt, y, n) ==
  /\ y \in Runtimes /\ y.node = rt.node /\ y.exit = rt.exit /\ y.pass = n
  /\ y.rerun = FALSE /\ y.judged = y.heard

LEMMA BegunFields ==
  ASSUME NEW rt \in Runtimes, NEW n \in 0 .. 2
  PROVE  Begun(rt, [rt EXCEPT !.rerun = FALSE, !.judged = rt.heard, !.pass = n], n)
<1> DEFINE y == [rt EXCEPT !.rerun = FALSE, !.judged = rt.heard, !.pass = n]
<1>1. /\ y.node = rt.node /\ y.prog = rt.prog /\ y.pass = n /\ y.rerun = FALSE
      /\ y.exit = rt.exit /\ y.heard = rt.heard /\ y.judged = rt.heard
  BY DEF Runtimes
<1>2. rt.heard \in Nat /\ rt.node \in Node /\ rt.exit \in Exits
      /\ rt.prog \in UNION {Table(ObjectivesOf[m]) : m \in Node}
  BY DEF Runtimes
<1>3. y = [node |-> y.node, prog |-> y.prog, pass |-> y.pass, rerun |-> y.rerun,
           exit |-> y.exit, heard |-> y.heard, judged |-> y.judged]
  <2>1. DOMAIN rt = {"node", "prog", "pass", "rerun", "exit", "heard", "judged"}
    BY DEF Runtimes
  <2>2. y \in [DOMAIN rt -> {y[f] : f \in DOMAIN rt}]
    OBVIOUS
  <2> HIDE DEF y
  <2> QED
    BY <2>1, <2>2
<1> HIDE DEF y
<1>4. y \in Runtimes
  BY <1>1, <1>2, <1>3 DEF Runtimes
<1> QED
  BY <1>1, <1>4 DEF Begun, y

\* A turn of onUserTurn's loop.
LEMMA PassKeeps ==
  ASSUME Entries, NEW e \in DOMAIN entries, NEW rt \in Runtimes, NEW s,
         rt.node = entries[e].node, Going(writes, s, e, List(e), landed),
         rt.exit = "no", pending \in BOOLEAN, complete \in BOOLEAN,
         Pass(e, rt, s), landed' = landed, active' = active
  PROVE  Entries' /\ pending' \in BOOLEAN /\ complete' \in BOOLEAN
<1> DEFINE begun(n) == [rt EXCEPT !.rerun = FALSE, !.judged = rt.heard, !.pass = n]
           b1 == begun(1)
           b0 == begun(0)
           list == ObjectivesOf[rt.node]
<1>1. b1 \in Runtimes /\ b1.node = rt.node /\ b1.exit = "no" /\ b1.rerun = FALSE
      /\ b1.judged = b1.heard /\ b1.pass = 1
  <2>1. 1 \in 0 .. 2
    OBVIOUS
  <2>2. Begun(rt, b1, 1)
    BY <2>1, BegunFields, Zenon
  <2> QED
    BY <2>2 DEF Begun
<1>2. b0 \in Runtimes /\ b0.node = rt.node /\ b0.exit = "no" /\ b0.rerun = FALSE
      /\ b0.judged = b0.heard /\ b0.pass = 0
  <2>1. 0 \in 0 .. 2
    OBVIOUS
  <2>2. Begun(rt, b0, 0)
    BY <2>1, BegunFields, Zenon
  <2> QED
    BY <2>2 DEF Begun
<1>3. e \in 1 .. Len(entries) + 1 /\ List(e) = list /\ rt.node \in Node
  BY DEF Entries, List, Runtimes
<1>4. CASE Asked(s.prog, list) # {}
  <2>1. Put(e, b1, s) /\ pending' = pending /\ complete' = complete
    BY <1>4 DEF Pass
  <2> HIDE DEF b1
  <2>2. Tracked([b1 EXCEPT !.prog = s.prog], e, active', s.writes \cup landed)
    <3> DEFINE y == [b1 EXCEPT !.prog = s.prog]
    <3>1. s.prog \in Table(list) /\ Sound(s.prog, e, list, s.writes \cup landed)
      BY <1>3 DEF Going, Reached, Plain, Sound
    <3>2. y \in Runtimes /\ y.prog = s.prog /\ y.node = rt.node /\ y.pass = 1 /\ y.exit = "no"
          /\ y.judged = y.heard
      BY <1>1, <1>3, <3>1 DEF Runtimes
    <3>3. Tracked(y, e, active', s.writes \cup landed)
      <4> HIDE DEF y
      <4> QED
        BY <3>1, <3>2 DEF Tracked
    <3> QED
      BY <3>3
  <2>3. Entries'
    BY <1>1, <1>3, <2>1, <2>2, PutKeeps
  <2> QED
    BY <2>1, <2>3
<1>5. CASE Asked(s.prog, list) = {}
  <2>1. MaybeComplete(e, b0, s, active', pending, complete)
    BY <1>5 DEF Pass
  <2> HIDE DEF b0
  <2> QED
    BY <1>2, <1>3, <2>1, CompleteKeeps
<1> QED
  BY <1>4, <1>5
\* The end of a pass, with its verdict applied or not.
LEMMA PassOverKeeps ==
  ASSUME IInv, NEW e \in DOMAIN entries, NEW s, entries[e].pass # 0,
         Going(writes, s, e, List(e), landed), PassOver(e, s)
  PROVE  IInv'
<1>1. Entries /\ Session
  BY IInvParts
<1>2. landed' = landed /\ active' = active /\ agent' = agent /\ entering' = entering
      /\ completed' = completed
  BY DEF PassOver, session
<1>3. entries[e] \in Runtimes /\ entries[e].node \in Node /\ e \in Nat
  BY <1>1, StateGoes
<1>4. Tracked(entries[e], e, active, writes \cup landed)
  BY <1>1 DEF Entries
<1>5. entries[e].exit = "no"
  BY <1>4 DEF Tracked
<1>6. Entries' /\ pending' \in BOOLEAN /\ complete' \in BOOLEAN
  <2>1. CASE entries[e].rerun /\ active = e /\ entries[e].exit = "no"
    <3>1. Pass(e, entries[e], s)
      BY <2>1 DEF PassOver
    <3>2. pending \in BOOLEAN /\ complete \in BOOLEAN
      BY <1>1 DEF Session
    <3> QED
      BY <1>1, <1>2, <1>3, <1>5, <3>1, <3>2, PassKeeps
  <2>2. CASE ~(entries[e].rerun /\ active = e /\ entries[e].exit = "no")
    <3> DEFINE rt == [entries[e] EXCEPT !.pass = 0]
    <3>1. MaybeComplete(e, rt, s, active', pending, complete)
      BY <1>2, <2>2 DEF PassOver
    <3>2. rt \in Runtimes /\ rt.node = entries[e].node /\ rt.pass = 0 /\ rt.exit = "no"
          /\ rt.rerun = entries[e].rerun /\ rt.judged = entries[e].judged
          /\ rt.heard = entries[e].heard
      BY <1>3, <1>5 DEF Runtimes
    <3>3. active' = e => ~entries[e].rerun /\ entries[e].judged = entries[e].heard
      BY <1>2, <1>4, <1>5, <2>2 DEF Tracked
    <3>4. active' = e /\ rt.exit = "no" => ~rt.rerun /\ rt.judged = rt.heard
      BY <3>2, <3>3
    <3>5. pending \in BOOLEAN /\ complete \in BOOLEAN
      BY <1>1 DEF Session
    <3>6. e \in 1 .. Len(entries) + 1 /\ ObjectivesOf[rt.node] = List(e)
      BY <1>1, <3>2 DEF Entries, List
    <3> HIDE DEF rt
    <3> QED
      BY <1>1, <1>2, <3>1, <3>2, <3>4, <3>5, <3>6, CompleteKeeps
  <2> QED
    BY <2>1, <2>2
<1>7. Session'
  BY <1>1, <1>2, <1>6 DEF Session
<1> QED
  BY <1>6, <1>7, IInvParts, PTL

LEMMA JudgeAnswersKeeps ==
  ASSUME IInv, NEW e \in DOMAIN entries, JudgeAnswers(e) PROVE IInv'
<1>1. Entries
  BY IInvParts
<1>2. PICK checks \in Verdicts(List(e)) :
        PassOver(e, ApplyVerdict(State(e), e, List(e), checks))
  BY DEF JudgeAnswers
<1>3. e \in Nat /\ List(e) \in Listed /\ Going(writes, State(e), e, List(e), landed)
  BY <1>1, StateGoes
<1>4. checks \in Seq(Checks(List(e)))
  BY <1>3, VerdictChecks
<1>5. Going(writes, ApplyVerdict(State(e), e, List(e), checks), e, List(e), landed)
  BY <1>3, <1>4, VerdictGoes
<1>6. entries[e].pass # 0
  BY DEF JudgeAnswers
<1> QED
  BY <1>2, <1>5, <1>6, PassOverKeeps

LEMMA JudgeThrowsKeeps ==
  ASSUME IInv, NEW e \in DOMAIN entries, JudgeThrows(e) PROVE IInv'
<1>1. Entries
  BY IInvParts
<1>2. Going(writes, State(e), e, List(e), landed)
  BY <1>1, StateGoes
<1>3. entries[e].pass # 0 /\ PassOver(e, State(e))
  BY DEF JudgeThrows
<1> QED
  BY <1>2, <1>3, PassOverKeeps

\* A step that changes one entry only, and takes no write back but from that one.
LEMMA TouchKeeps ==
  ASSUME Entries, NEW e \in DOMAIN entries, NEW y, y.node = entries[e].node,
         entries' = [entries EXCEPT ![e] = y], known' = known, captured' = captured,
         writes' \subseteq writes, active' = active \/ active' = 0,
         Tracked(y, e, active', writes' \cup landed'),
         \A i \in DOMAIN entries : i # e =>
           Kept(entries[i].prog, i, List(i), writes' \cup landed')
  PROVE  Entries'
<1>1. DOMAIN entries = 1 .. Len(entries) /\ Len(entries) \in Nat
  BY DEF Entries
<1>2. DOMAIN entries' = 1 .. Len(entries) /\ Len(entries') = Len(entries)
  BY <1>1
<1>3. entries'[e] = y /\ \A i \in DOMAIN entries : i # e => entries'[i] = entries[i]
  BY <1>1
<1>4. \A i \in DOMAIN entries : entries'[i].node = entries[i].node
  BY <1>3
<1>5. ASSUME NEW i \in DOMAIN entries PROVE Tracked(entries'[i], i, active', writes' \cup landed')
  <2>1. CASE i = e
    BY <1>3, <2>1
  <2>2. CASE i # e
    <3>1. Tracked(entries[i], i, active, writes \cup landed) /\ i # 0 /\ entries'[i] = entries[i]
      <4>1. Tracked(entries[i], i, active, writes \cup landed)
        BY DEF Entries
      <4> QED
        BY <1>1, <1>3, <2>2, <4>1
    <3>2. Kept(entries[i].prog, i, List(i), writes' \cup landed')
      BY <2>2
    <3> QED
      BY <3>1, <3>2 DEF Tracked, Sound, Plain, List
  <2> QED
    BY <2>1, <2>2
<1>6. ASSUME NEW w \in writes'
      PROVE  w.entry \in DOMAIN entries /\ w.key \in ToSet(ObjectivesOf[entries'[w.entry].node])
  <2>1. w.entry \in DOMAIN entries /\ w.key \in ToSet(ObjectivesOf[entries[w.entry].node])
    BY DEF Entries, List
  <2> QED
    BY <1>4, <2>1
<1>7. active' \in 0 .. Len(entries) /\ writes' \subseteq Sent
      /\ known' \in [Field -> Words] /\ captured' \subseteq Field
  BY <1>1 DEF Entries
<1> QED
  BY <1>1, <1>2, <1>5, <1>6, <1>7 DEF Entries, List
\* What is out stays kept for the entries that a step leaves alone.
LEMMA OthersKept ==
  ASSUME Entries, NEW out, writes \cup landed \subseteq out
  PROVE  \A i \in DOMAIN entries : Kept(entries[i].prog, i, List(i), out)
<1> SUFFICES ASSUME NEW i \in DOMAIN entries PROVE Kept(entries[i].prog, i, List(i), out)
  OBVIOUS
<1>1. Tracked(entries[i], i, active, writes \cup landed)
  BY DEF Entries
<1>2. Kept(entries[i].prog, i, List(i), writes \cup landed)
  BY <1>1 DEF Tracked, Sound, Plain, List
<1> QED
  BY <1>2 DEF Kept

LEMMA JudgeGarblesKeeps ==
  ASSUME IInv, NEW e \in DOMAIN entries, JudgeGarbles(e) PROVE IInv'
<1>1. Entries /\ Session
  BY IInvParts
<1>2. e \in Nat /\ List(e) \in Listed /\ entries[e] \in Runtimes
      /\ Going(writes, State(e), e, List(e), landed)
  BY <1>1, StateGoes
<1>3. entries[e].pass # 0
  BY DEF JudgeGarbles
<1>4. CASE entries[e].pass = 1
  <2> DEFINE y == [entries[e] EXCEPT !.pass = 2]
  <2>1. /\ entries' = [entries EXCEPT ![e] = y]
        /\ active' = active /\ known' = known /\ captured' = captured /\ writes' = writes
        /\ landed' = landed /\ pending' = pending /\ complete' = complete
        /\ agent' = agent /\ entering' = entering /\ completed' = completed
    BY <1>4 DEF JudgeGarbles, store, session
  <2>2. Tracked(entries[e], e, active, writes \cup landed)
    BY <1>1 DEF Entries
  <2>3. y \in Runtimes /\ y.node = entries[e].node /\ y.prog = entries[e].prog /\ y.pass = 2
        /\ y.exit = entries[e].exit /\ y.rerun = entries[e].rerun
        /\ y.judged = entries[e].judged /\ y.heard = entries[e].heard
    BY <1>2 DEF Runtimes
  <2> HIDE DEF y
  <2>4. Tracked(y, e, active', writes' \cup landed')
    BY <1>4, <2>1, <2>2, <2>3 DEF Tracked
  <2>5. \A i \in DOMAIN entries : i # e => Kept(entries[i].prog, i, List(i), writes' \cup landed')
    BY <1>1, <2>1, OthersKept
  <2>6. Entries'
    BY <1>1, <2>1, <2>3, <2>4, <2>5, TouchKeeps
  <2>7. Session'
    BY <1>1, <2>1 DEF Session
  <2> QED
    BY <2>6, <2>7, IInvParts, PTL
<1>5. CASE entries[e].pass # 1
  <2>1. PassOver(e, BurnAttempt(State(e), List(e)))
    BY <1>5 DEF JudgeGarbles
  <2>2. Going(writes, BurnAttempt(State(e), List(e)), e, List(e), landed)
    BY <1>2, BurnGoes
  <2> QED
    BY <1>3, <2>1, <2>2, PassOverKeeps
<1> QED
  BY <1>4, <1>5

LEMMA ResumeKeeps ==
  ASSUME IInv, NEW e \in DOMAIN entries, Resume(e) PROVE IInv'
<1>1. Entries /\ Session
  BY IInvParts
<1>2. e \in Nat /\ entries[e] \in Runtimes
  BY <1>1, StateGoes
<1>3. Tracked(entries[e], e, active, writes \cup landed)
  BY <1>1 DEF Entries
<1>4. PICK x \in {"dropped", "resolving"} : entries' = [entries EXCEPT ![e].exit = x]
  BY DEF Resume
<1> DEFINE y == [entries[e] EXCEPT !.exit = x]
<1>5. /\ entries' = [entries EXCEPT ![e] = y] /\ entries[e].exit = "waiting"
      /\ active' = active \/ active' = 0
      /\ known' = known /\ captured' = captured /\ writes' = writes
      /\ landed' = landed /\ pending' \in BOOLEAN /\ complete' = complete
      /\ agent' = agent /\ entering' = entering /\ completed' = completed
  BY <1>1, <1>4 DEF Resume, store, session, Session
<1>6. y \in Runtimes /\ y.node = entries[e].node /\ y.prog = entries[e].prog
      /\ y.pass = entries[e].pass /\ y.exit = x
  BY <1>2, <1>4 DEF Runtimes, Exits
<1> HIDE DEF y
<1>7. Tracked(y, e, active', writes' \cup landed')
  BY <1>3, <1>4, <1>5, <1>6 DEF Tracked
<1>8. \A i \in DOMAIN entries : i # e => Kept(entries[i].prog, i, List(i), writes' \cup landed')
  BY <1>1, <1>5, OthersKept
<1>9. Entries'
  BY <1>1, <1>5, <1>6, <1>7, <1>8, TouchKeeps
<1>10. Session'
  BY <1>1, <1>5 DEF Session
<1> QED
  BY <1>9, <1>10, IInvParts, PTL

LEMMA ResolveKeeps ==
  ASSUME IInv, NEW e \in DOMAIN entries, Resolve(e) PROVE IInv'
<1>1. Entries /\ Session
  BY IInvParts
<1>2. e \in Nat /\ entries[e] \in Runtimes
  BY <1>1, StateGoes
<1>3. Tracked(entries[e], e, active, writes \cup landed)
  BY <1>1 DEF Entries
<1> DEFINE y == [entries[e] EXCEPT !.exit = "left"]
<1>4. /\ entries' = [entries EXCEPT ![e] = y] /\ entries[e].exit = "resolving"
      /\ active' = active
      /\ known' = known /\ captured' = captured /\ writes' = writes
      /\ landed' = landed /\ pending' = pending /\ complete' = complete
  BY DEF Resolve, store
<1>5. completed' \in BOOLEAN /\ agent' \in Node /\ entering' \in Seq(Node)
  <2>1. CASE \E n \in Node : Swap(n)
    BY <1>1, <2>1 DEF Swap, Session
  <2>2. CASE completed' = TRUE /\ UNCHANGED <<agent, entering>>
    BY <1>1, <2>2 DEF Session
  <2>3. CASE UNCHANGED session
    BY <1>1, <2>3 DEF Session, session
  <2> QED
    BY <2>1, <2>2, <2>3 DEF Resolve
<1>6. y \in Runtimes /\ y.node = entries[e].node /\ y.prog = entries[e].prog
      /\ y.pass = entries[e].pass /\ y.exit = "left"
  BY <1>2 DEF Runtimes, Exits
<1> HIDE DEF y
<1>7. Tracked(y, e, active', writes' \cup landed')
  BY <1>3, <1>4, <1>6 DEF Tracked
<1>8. \A i \in DOMAIN entries : i # e => Kept(entries[i].prog, i, List(i), writes' \cup landed')
  BY <1>1, <1>4, OthersKept
<1>9. Entries'
  BY <1>1, <1>4, <1>6, <1>7, <1>8, TouchKeeps
<1>10. Session'
  BY <1>1, <1>4, <1>5 DEF Session
<1> QED
  BY <1>9, <1>10, IInvParts, PTL

LEMMA UserTurnKeeps == ASSUME IInv, UserTurn PROVE IInv'
<1>1. Entries /\ Session
  BY IInvParts
<1>2. /\ active' = active /\ landed' = landed /\ agent' = agent /\ entering' = entering
      /\ completed' = completed
  BY DEF UserTurn, session
<1>3. Entries' /\ pending' \in BOOLEAN /\ complete' \in BOOLEAN
  <2>1. CASE active = 0 \/ entries[active].exit # "no"
    <3>1. /\ entries' = entries /\ known' = known /\ captured' = captured /\ writes' = writes
          /\ pending' = pending /\ complete' = complete
      BY <2>1 DEF UserTurn, store
    <3> QED
      BY <1>1, <1>2, <3>1 DEF Entries, Session, List
  <2>2. CASE ~ (active = 0 \/ entries[active].exit # "no")
    <3> DEFINE e == active
    <3>1. e \in DOMAIN entries /\ entries[e].exit = "no"
      BY <1>1, <2>2 DEF Entries
    <3>2. e \in Nat /\ entries[e] \in Runtimes /\ List(e) \in Listed
          /\ Going(writes, State(e), e, List(e), landed)
      BY <1>1, <3>1, StateGoes
    <3>3. Tracked(entries[e], e, active, writes \cup landed)
      BY <1>1, <3>1 DEF Entries
    <3>4. CASE entries[e].pass # 0
      <4> DEFINE h == entries[e].heard + 1
                 y == [entries[e] EXCEPT !.heard = h, !.rerun = TRUE]
      <4>1. /\ entries' = [entries EXCEPT ![e] = y]
            /\ known' = known /\ captured' = captured /\ writes' = writes
            /\ pending' = pending /\ complete' = complete
        BY <2>2, <3>1, <3>4 DEF UserTurn, store
      <4>2. h \in Nat
        BY <3>2 DEF Runtimes
      <4>3. y \in Runtimes /\ y.node = entries[e].node /\ y.prog = entries[e].prog
            /\ y.pass = entries[e].pass /\ y.exit = "no" /\ y.rerun = TRUE
        <5> HIDE DEF h
        <5> QED
          BY <3>1, <3>2, <4>2 DEF Runtimes
      <4> HIDE DEF y
      <4>4. Tracked(y, e, active', writes' \cup landed')
        BY <1>2, <3>3, <3>4, <4>1, <4>3 DEF Tracked
      <4>5. \A i \in DOMAIN entries : i # e => Kept(entries[i].prog, i, List(i), writes' \cup landed')
        BY <1>1, <1>2, <4>1, OthersKept
      <4>6. Entries'
        BY <1>1, <1>2, <3>1, <4>1, <4>3, <4>4, <4>5, TouchKeeps
      <4> QED
        BY <1>1, <4>1, <4>6 DEF Session
    <3>5. CASE entries[e].pass = 0
      <4> DEFINE y == [entries[e] EXCEPT !.heard = @ + 1]
      <4>1. Pass(e, y, State(e))
        BY <2>2, <3>1, <3>5 DEF UserTurn
      <4>2. y \in Runtimes /\ y.node = entries[e].node /\ y.exit = "no"
        BY <3>1, <3>2 DEF Runtimes
      <4> HIDE DEF y
      <4>3. pending \in BOOLEAN /\ complete \in BOOLEAN
        BY <1>1 DEF Session
      <4> QED
        BY <1>1, <1>2, <3>1, <3>2, <4>1, <4>2, <4>3, PassKeeps
    <3> QED
      BY <3>4, <3>5
  <2> QED
    BY <2>1, <2>2
<1>4. Session'
  BY <1>1, <1>2, <1>3 DEF Session
<1> QED
  BY <1>3, <1>4, IInvParts, PTL
\* What a node starts with is sound: nothing was tried yet, and what is met was given.
LEMMA ArmedIsSound ==
  ASSUME Entries, NEW list \in Listed, NEW e \in Nat
  PROVE  Sound(Armed(list), e, list, writes \cup landed)
<1> DEFINE p == Armed(list)
           inCall(k) == ~IsAggregate(k) /\ FieldOf[k] \in captured
           given(k)  == /\ FieldOf[k] # NoField /\ known[FieldOf[k]] # <<>>
                        /\ k \in SkipIfKnown \/ inCall(k)
<1>1. p = [k \in ToSet(list) |->
             IF given(k) THEN [Fresh EXCEPT !.met = TRUE, !.given = TRUE, !.answer = known[FieldOf[k]]]
             ELSE Fresh]
  BY DEF Armed
<1>2. MaxAttempts \in Nat /\ MaxAttempts > 0
  BY Shape
<1>3. ASSUME NEW k \in ToSet(list)
      PROVE  /\ p[k] \in Progress /\ p[k].attempts = 0
             /\ p[k].met => p[k].given
             /\ ~p[k].follows
  <2>1. CASE given(k)
    <3> DEFINE a == known[FieldOf[k]]
               q == [Fresh EXCEPT !.met = TRUE, !.given = TRUE, !.answer = a]
    <3>1. p[k] = q
      BY <1>1, <2>1
    <3>2. a \in Words
      <4>1. FieldOf[k] \in Field
        BY <2>1, NodeLists
      <4> QED
        BY <4>1 DEF Entries
    <3> HIDE DEF a
    <3>3. /\ q.met = TRUE /\ q.answer = a /\ q.given = TRUE /\ q.attempts = 0
          /\ q.skipped = FALSE /\ q.failed = FALSE /\ q.retried = FALSE /\ q.follows = FALSE
      BY DEF Fresh
    <3>4. q = [met |-> q.met, answer |-> q.answer, given |-> q.given, attempts |-> q.attempts,
               skipped |-> q.skipped, failed |-> q.failed, retried |-> q.retried,
               follows |-> q.follows]
      <4>1. DOMAIN Fresh = {"met", "answer", "given", "attempts", "skipped", "failed", "retried",
                            "follows"}
        BY DEF Fresh
      <4>2. q \in [DOMAIN Fresh -> {q[f] : f \in DOMAIN Fresh}]
        OBVIOUS
      <4> HIDE DEF q
      <4> QED
        BY <4>1, <4>2
    <3> HIDE DEF q, p
    <3>6. q \in Progress
      <4>1. q = [met |-> TRUE, answer |-> a, given |-> TRUE, attempts |-> 0,
                 skipped |-> FALSE, failed |-> FALSE, retried |-> FALSE, follows |-> FALSE]
        BY <3>3, <3>4
      <4>2. [met |-> TRUE, answer |-> a, given |-> TRUE, attempts |-> 0,
             skipped |-> FALSE, failed |-> FALSE, retried |-> FALSE, follows |-> FALSE] \in Progress
        BY <1>2, <3>2 DEF Progress, Words
      <4> QED
        BY <4>1, <4>2
    <3> QED
      BY <3>1, <3>3, <3>6
  <2>2. CASE ~given(k)
    <3>1. p[k] = Fresh
      BY <1>1, <2>2
    <3> HIDE DEF p
    <3>2. Fresh \in Progress /\ Fresh.attempts = 0 /\ Fresh.met = FALSE
          /\ Fresh.follows = FALSE
      BY <1>2 DEF Fresh, Progress
    <3> QED
      BY <3>1, <3>2
  <2> QED
    BY <2>1, <2>2
<1>4. p \in Table(list)
  BY <1>1, <1>3 DEF Table
<1> HIDE DEF p
<1>5. Spent(p, list)
  BY <1>2, <1>3 DEF Spent
<1>6. Kept(p, e, list, writes \cup landed)
  BY <1>3 DEF Kept
<1>7. Composed(p, list)
  BY <1>3 DEF Composed
<1> QED
  BY <1>4, <1>5, <1>6, <1>7 DEF Sound, Plain, p

LEMMA EnterKeeps == ASSUME IInv, Enter PROVE IInv'
<1>1. Entries /\ Session
  BY IInvParts
<1> DEFINE n    == Head(entering)
           e    == Len(entries) + 1
           list == ObjectivesOf[n]
           rt   == [node |-> n, prog |-> Armed(list), pass |-> 0, rerun |-> FALSE, exit |-> "no",
                    heard |-> 0, judged |-> 0]
           s    == [prog |-> Armed(list), known |-> known, captured |-> captured,
                    writes |-> writes]
           z    == CompleteAggregates(s, e, list)
<1>2. /\ entering # <<>> /\ Arm(n) /\ entering' = Tail(entering)
      /\ landed' = landed /\ agent' = agent /\ completed' = completed
  BY DEF Enter
<1>3. n \in Node /\ entering' \in Seq(Node)
  BY <1>1, <1>2 DEF Session
<1>4. Len(entries) \in Nat /\ DOMAIN entries = 1 .. Len(entries) /\ e \in Nat
  BY <1>1 DEF Entries
<1>5. CASE list = <<>>
  <2>1. /\ active' = 0 /\ pending' = FALSE /\ complete' = FALSE /\ entries' = entries
        /\ known' = known /\ captured' = captured /\ writes' = writes
    BY <1>2, <1>5 DEF Arm, store
  <2>2. ASSUME NEW i \in DOMAIN entries
        PROVE  Tracked(entries'[i], i, active', writes' \cup landed')
    <3>1. Tracked(entries[i], i, active, writes \cup landed)
      BY <1>1 DEF Entries
    <3>2. active' # i
      BY <1>4, <2>1
    <3> QED
      BY <1>2, <2>1, <3>1, <3>2, TrackedStays
  <2>3. Entries'
    <3>1. \A i \in DOMAIN entries' : Tracked(entries'[i], i, active', writes' \cup landed')
      BY <2>1, <2>2
    <3>2. \A w \in writes' : w.entry \in DOMAIN entries'
                             /\ w.key \in ToSet(ObjectivesOf[entries'[w.entry].node])
      BY <1>1, <2>1 DEF Entries, List
    <3>3. active' \in 0 .. Len(entries')
      BY <1>4, <2>1
    <3> QED
      BY <1>1, <1>4, <2>1, <3>1, <3>2, <3>3 DEF Entries, List
  <2>4. Session'
    BY <1>1, <1>2, <1>3, <2>1 DEF Session
  <2> QED
    BY <2>3, <2>4, IInvParts, PTL
<1>6. CASE list # <<>>
  <2>1. active' = e /\ MaybeComplete(e, rt, z, active', FALSE, FALSE)
    BY <1>2, <1>6 DEF Arm
  <2>2. list \in Listed
    BY <1>3 DEF Listed
  <2>3. Sound(Armed(list), e, list, writes \cup landed)
    BY <1>1, <1>4, <2>2, ArmedIsSound
  <2>4. rt \in Runtimes /\ rt.node = n /\ rt.pass = 0 /\ rt.exit = "no" /\ rt.rerun = FALSE
        /\ rt.judged = rt.heard
    <3>1. Armed(list) \in UNION {Table(ObjectivesOf[m]) : m \in Node}
      BY <1>3, <2>3 DEF Sound, Plain
    <3> QED
      BY <1>3, <3>1 DEF Runtimes, Exits
  <2>5. Going(writes, s, e, list, landed)
    <3>1. s \in States(list) /\ s.prog = Armed(list) /\ s.writes = writes
      BY <1>1, <2>3 DEF States, Sound, Plain, Entries
    <3> HIDE DEF s
    <3> QED
      BY <2>3, <3>1 DEF Going, Reached, Sound
  <2> HIDE DEF s
  <2>6. Going(writes, z, e, list, landed)
    BY <1>4, <2>2, <2>5, CompleteGoes
  <2>7. e \notin DOMAIN entries /\ e \in 1 .. Len(entries) + 1
    BY <1>4
  <2>8. ObjectivesOf[rt.node] = list
    OBVIOUS
  <2>9. Entries' /\ pending' \in BOOLEAN /\ complete' \in BOOLEAN
    <3> HIDE DEF z, rt, e, list
    <3> QED
      BY <1>1, <1>2, <2>1, <2>4, <2>6, <2>7, <2>8, CompleteKeeps
  <2>10. Session'
    BY <1>1, <1>2, <1>3, <2>9 DEF Session
  <2> QED
    BY <2>9, <2>10, IInvParts, PTL
<1> QED
  BY <1>5, <1>6

\* Nothing of the tracker moves.
LEMMA RestKeeps ==
  ASSUME Entries, UNCHANGED <<entries, active, store, landed>> PROVE Entries'
  BY DEF Entries, List, store

LEMMA MoveOnKeeps == ASSUME IInv, NEW n \in Node, MoveOn(n) PROVE IInv'
<1>1. Entries /\ Session
  BY IInvParts
<1>2. Entries'
  BY <1>1, RestKeeps DEF MoveOn
<1>3. Session'
  BY <1>1 DEF Session, MoveOn, Swap
<1> QED
  BY <1>2, <1>3, IInvParts, PTL

LEMMA HangUpKeeps == ASSUME IInv, HangUp PROVE IInv'
<1>1. Entries /\ Session
  BY IInvParts
<1>2. Entries'
  BY <1>1, RestKeeps DEF HangUp
<1>3. Session'
  BY <1>1 DEF Session, HangUp
<1> QED
  BY <1>2, <1>3, IInvParts, PTL

LEMMA WriteLandsKeeps == ASSUME IInv, NEW w \in writes, WriteLands(w) PROVE IInv'
<1>1. Entries /\ Session
  BY IInvParts
<1>2. /\ writes' = writes \ {w} /\ landed' = landed \cup {w}
      /\ entries' = entries /\ active' = active /\ known' = known /\ captured' = captured
      /\ pending' = pending /\ complete' = complete /\ agent' = agent
      /\ entering' = entering /\ completed' = completed
  BY DEF WriteLands, session
<1>3. writes' \cup landed' = writes \cup landed /\ writes' \subseteq writes
  BY <1>2
<1>4. Entries'
  BY <1>1, <1>2, <1>3 DEF Entries, List
<1>5. Session'
  BY <1>1, <1>2 DEF Session
<1> QED
  BY <1>4, <1>5, IInvParts, PTL

LEMMA WriteFailsKeeps == ASSUME IInv, NEW w \in writes, WriteFails(w) PROVE IInv'
<1>1. Entries /\ Session
  BY IInvParts
<1> DEFINE e    == w.entry
           k    == w.key
           list == List(e)
           p    == entries[e].prog
           a    == [p[k] EXCEPT !.failed = TRUE]
           q    == [p EXCEPT ![k] = a]
           y    == [entries[e] EXCEPT !.prog = q]
<1>2. /\ entries' = [entries EXCEPT ![e] = y] /\ writes' = writes \ {w}
      /\ active' = active /\ known' = known /\ captured' = captured
      /\ landed' = landed /\ pending' = pending /\ complete' = complete
      /\ agent' = agent /\ entering' = entering /\ completed' = completed
  BY DEF WriteFails, session
<1>3. e \in DOMAIN entries /\ k \in ToSet(list)
  BY <1>1 DEF Entries
<1>4. e \in Nat /\ list \in Listed /\ entries[e] \in Runtimes /\ entries[e].node \in Node
  BY <1>1, <1>3, StateGoes
<1>5. Tracked(entries[e], e, active, writes \cup landed)
  BY <1>1, <1>3 DEF Entries
<1>6. p \in Table(list) /\ Spent(p, list) /\ Kept(p, e, list, writes \cup landed)
      /\ Composed(p, list)
  BY <1>5 DEF Tracked, Sound, Plain, List
<1>7. a \in Progress /\ a.met = p[k].met /\ a.answer = p[k].answer /\ a.given = p[k].given
      /\ a.attempts = p[k].attempts /\ a.skipped = p[k].skipped /\ a.failed = TRUE
      /\ a.follows = p[k].follows
  <2> DEFINE r == p[k]
  <2>1. r \in Progress
    BY <1>3, <1>6 DEF Table
  <2> HIDE DEF r
  <2>2. [r EXCEPT !.failed = TRUE] \in Progress
        /\ [r EXCEPT !.failed = TRUE].met = r.met /\ [r EXCEPT !.failed = TRUE].answer = r.answer
        /\ [r EXCEPT !.failed = TRUE].given = r.given
        /\ [r EXCEPT !.failed = TRUE].attempts = r.attempts
        /\ [r EXCEPT !.failed = TRUE].skipped = r.skipped
        /\ [r EXCEPT !.failed = TRUE].failed = TRUE
        /\ [r EXCEPT !.failed = TRUE].follows = r.follows
    BY <2>1 DEF Progress
  <2> QED
    BY <2>2 DEF r
<1> HIDE DEF a
<1>8. q \in Table(list) /\ q[k] = a /\ \A x \in ToSet(list) : x # k => q[x] = p[x]
  BY <1>3, <1>6, <1>7 DEF Table
<1> HIDE DEF q
<1>9. \A x \in ToSet(list) : /\ q[x].met = p[x].met /\ q[x].answer = p[x].answer
                             /\ q[x].given = p[x].given /\ q[x].attempts = p[x].attempts
                             /\ q[x].skipped = p[x].skipped /\ q[x].follows = p[x].follows
  BY <1>7, <1>8
<1>10. Kept(q, e, list, writes' \cup landed')
  <2> SUFFICES ASSUME NEW x \in ToSet(list), q[x].met, ~q[x].given,
                      q[x].answer \notin {<<>>, <<NA>>}, FieldOf[x] # NoField, HasWriter
               PROVE  [entry |-> e, key |-> x, answer |-> q[x].answer] \in writes' \cup landed'
                      \/ q[x].failed
    BY DEF Kept
  <2>1. CASE x = k
    BY <1>7, <1>8, <2>1
  <2>2. CASE x # k
    <3>1. [entry |-> e, key |-> x, answer |-> p[x].answer] \in writes \cup landed \/ p[x].failed
      BY <1>6, <1>8, <2>2 DEF Kept
    <3>2. [entry |-> e, key |-> x, answer |-> p[x].answer] # w
      BY <2>2
    <3> QED
      BY <1>2, <1>8, <2>2, <3>1, <3>2
  <2> QED
    BY <2>1, <2>2
<1>11. Sound(q, e, list, writes' \cup landed')
  <2>1. Spent(q, list)
    BY <1>6, <1>9 DEF Spent
  <2>2. Composed(q, list)
    BY <1>4, <1>6, <1>9, ComposedSame
  <2> QED
    BY <1>8, <1>10, <2>1, <2>2 DEF Sound, Plain
<1>12. y \in Runtimes /\ y.node = entries[e].node /\ y.prog = q /\ y.pass = entries[e].pass
       /\ y.exit = entries[e].exit /\ y.rerun = entries[e].rerun
       /\ y.judged = entries[e].judged /\ y.heard = entries[e].heard
  <2>1. q \in UNION {Table(ObjectivesOf[m]) : m \in Node}
    BY <1>4, <1>8 DEF List
  <2> QED
    BY <1>4, <2>1 DEF Runtimes
<1>13. AllSettled(q, list) <=> AllSettled(p, list)
  BY <1>9 DEF AllSettled, Settled
<1> HIDE DEF y
<1>14. Tracked(y, e, active', writes' \cup landed')
  BY <1>2, <1>5, <1>11, <1>12, <1>13 DEF Tracked, List
<1>15. ASSUME NEW i \in DOMAIN entries, i # e
       PROVE  Kept(entries[i].prog, i, List(i), writes' \cup landed')
  <2>1. Kept(entries[i].prog, i, List(i), writes \cup landed)
    BY <1>1, OthersKept
  <2>2. \A v : v \in writes \cup landed /\ v.entry = i => v \in writes' \cup landed'
    BY <1>2, <1>15
  <2> QED
    BY <2>1, <2>2 DEF Kept
<1>16. Entries'
  BY <1>1, <1>2, <1>3, <1>12, <1>14, <1>15, TouchKeeps
<1>17. Session'
  BY <1>1, <1>2 DEF Session
<1> QED
  BY <1>16, <1>17, IInvParts, PTL
-----------------------------------------------------------------------------
(* The invariant, and what it says.                                          *)

LEMMA InitInv == Init => IInv
<1> SUFFICES ASSUME Init PROVE IInv
  OBVIOUS
<1>1. DOMAIN entries = {} /\ Len(entries) = 0 /\ DOMAIN entries = 1 .. Len(entries)
  BY DEF Init
<1>2. known \in [Field -> Words]
  BY Shape DEF Init, Words
<1>3. entering \in Seq(Node) /\ agent \in Node
  BY Shape DEF Init
<1>4. Registers
  BY <1>2, <1>3 DEF Init, Registers
<1>5. Pointers
  BY <1>1 DEF Init, Pointers
<1> QED
  BY <1>1, <1>4, <1>5 DEF IInv

LEMMA NextInv == IInv /\ [Next]_vars => IInv'
<1> SUFFICES ASSUME IInv, [Next]_vars PROVE IInv'
  OBVIOUS
<1>1. CASE Enter
  BY <1>1, EnterKeeps
<1>2. CASE UserTurn
  BY <1>2, UserTurnKeeps
<1>3. CASE HangUp
  BY <1>3, HangUpKeeps
<1>4. CASE \E n \in Node : MoveOn(n)
  BY <1>4, MoveOnKeeps
<1>5. ASSUME NEW e \in DOMAIN entries,
             JudgeAnswers(e) \/ JudgeGarbles(e) \/ JudgeThrows(e) \/ Resume(e) \/ Resolve(e)
      PROVE  IInv'
  BY <1>5, JudgeAnswersKeeps, JudgeGarblesKeeps, JudgeThrowsKeeps, ResumeKeeps, ResolveKeeps
<1>6. ASSUME NEW w \in writes, WriteLands(w) \/ WriteFails(w) PROVE IInv'
  BY <1>6, WriteLandsKeeps, WriteFailsKeeps
<1>7. CASE UNCHANGED vars
  <2>1. Entries /\ Session
    BY IInvParts
  <2>2. Entries'
    BY <1>7, <2>1, RestKeeps DEF vars
  <2>3. Session'
    BY <1>7, <2>1 DEF vars, session, Session
  <2> QED
    BY <2>2, <2>3, IInvParts, PTL
<1> QED
  BY <1>1, <1>2, <1>3, <1>4, <1>5, <1>6, <1>7 DEF Next

THEOREM Invariance == Spec => []IInv
  BY InitInv, NextInv, PTL DEF Spec

LEMMA EachTracked ==
  ASSUME IInv, NEW e \in DOMAIN entries
  PROVE  Tracked(entries[e], e, active, writes \cup landed)
  BY DEF IInv

\* Every register, and every runtime object of every entry, has its type: what is
\* recorded is an answer, what is captured a field, and no objective has more
\* attempts than maxAttempts (objectives.ts:519-556).
THEOREM TypeCorrect == Spec => []TypeOK
<1>1. IInv => TypeOK
  <2> SUFFICES ASSUME IInv PROVE TypeOK
    OBVIOUS
  <2>1. ASSUME NEW e \in DOMAIN entries
        PROVE  /\ entries[e].node \in Node /\ entries[e].pass \in 0 .. 2
               /\ entries[e].exit \in {"no", "waiting", "resolving", "left", "dropped"}
               /\ \A k \in ToSet(List(e)) : entries[e].prog[k] \in Progress
    <3>1. entries[e] \in Runtimes /\ entries[e].prog \in Table(List(e))
      BY EachTracked DEF Tracked, Sound, Plain, List
    <3> QED
      BY <3>1 DEF Runtimes, Table, Exits
  <2> QED
    BY <2>1 DEF IInv, Registers, Pointers, TypeOK
<1> QED
  BY Invariance, <1>1, PTL

\* No turn goes unjudged: however turns and passes interleave, the last pass of the
\* node that listens began after the last turn it heard (objectives.ts:918-943).
THEOREM Heeded == Spec => []TurnsJudged
<1>1. IInv => TurnsJudged
  <2> SUFFICES ASSUME IInv, NEW e \in DOMAIN entries, Open(e)
               PROVE  entries[e].judged = entries[e].heard
    BY DEF TurnsJudged
  <2> QED
    BY EachTracked DEF Tracked, Open
<1> QED
  BY Invariance, <1>1, PTL

\* The exit is committed as soon as the required objectives are settled, and only
\* then: no order of turns, verdicts, failures and writes misses the moment.
THEOREM LeavesInTime == Spec => []LeavesWhenSettled
<1>1. IInv => LeavesWhenSettled
  <2> SUFFICES ASSUME IInv, NEW e \in DOMAIN entries
               PROVE  /\ Open(e) => ~AllSettled(entries[e].prog, List(e))
                      /\ entries[e].exit # "no" => AllSettled(entries[e].prog, List(e))
    BY DEF LeavesWhenSettled
  <2> QED
    BY EachTracked DEF Tracked, Open, List
<1> QED
  BY Invariance, <1>1, PTL

\* An answer that was recorded reaches the CRM, is on its way, or is marked as failed,
\* whatever was corrected, recomposed or retried since.
THEOREM NothingLost == Spec => []NoSilentLoss
<1>1. IInv => NoSilentLoss
  <2> SUFFICES ASSUME IInv, NEW e \in DOMAIN entries
               PROVE  Kept(entries[e].prog, e, List(e), writes \cup landed)
    BY DEF NoSilentLoss, Kept
  <2> QED
    BY EachTracked DEF Tracked, Sound, Plain, List
<1> QED
  BY Invariance, <1>1, PTL

\* An aggregate says what its parts say, corrections included, from the pass in which
\* completeAggregates made it (objectives.ts:450-477) or, if the CRM or the judge gave it
\* as a whole, in which recomposeAggregates followed a correction (objectives.ts:487-510);
\* it does so until a part gets its first answer, which neither of them looks at.
THEOREM AggregatesFollow == Spec => []AggregateFresh
<1>1. IInv => AggregateFresh
  <2> SUFFICES ASSUME IInv, NEW e \in DOMAIN entries, NEW k \in ToSet(List(e)),
                      IsAggregate(k), entries[e].prog[k].follows
               PROVE  entries[e].prog[k].answer = Joined(entries[e].prog, k)
    BY DEF AggregateFresh
  <2>1. Composed(entries[e].prog, List(e))
    BY EachTracked DEF Tracked, Sound, List
  <2> QED
    BY <2>1 DEF Composed
<1> QED
  BY Invariance, <1>1, PTL
=============================================================================
