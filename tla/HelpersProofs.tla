----------------------------- MODULE HelpersProofs -----------------------------
(***************************************************************************)
(* The safety properties of the four small machines, for all values of     *)
(* their constants: the limits cache, the number registry, the rolling     *)
(* summary and the switch of language.                                     *)
(***************************************************************************)
EXTENDS RollingMemory, LanguageAligner, LimitsCache, NumberRegistry,
        WellFoundedInduction, TLAPS

-----------------------------------------------------------------------------
(* LimitsCache: how far behind the table an entry can be is bounded by the   *)
(* age of the SELECT that brought it.                                        *)

Entry  == [content : Nat, expires : Nat]
Answer == [table : Table, content : Nat, at : Nat]

CacheTypeOK ==
  /\ clock \in Nat
  /\ changed \in [Table -> Seq(Nat)]
  /\ cache \in [Table -> Entry \cup {NoEntry}]
  /\ check \in [Checker -> Answer \cup {NoEntry}]
  /\ used \in Answer \cup {NoEntry}

\* Content n of table t exists; what replaced it came no earlier than moment m.
Known(t, n)       == n \in 1 .. Len(changed[t])
CurrentAt(t, n, m) == n < Len(changed[t]) => m <= changed[t][n + 1]

History ==
  \A t \in Table : /\ changed[t] # <<>>
                   /\ \A i \in 1 .. Len(changed[t]) : changed[t][i] <= clock

\* A SELECT's answer was current when it was made, MaxLag ago at most.
Answers ==
  \A c \in Checker : check[c] # NoEntry =>
    /\ Known(check[c].table, check[c].content)
    /\ CurrentAt(check[c].table, check[c].content, check[c].at)
    /\ check[c].at <= clock /\ clock <= check[c].at + MaxLag

\* An entry expires before its content has been replaced for longer than Ttl + MaxLag.
Entries ==
  \A t \in Table : cache[t] # NoEntry =>
    /\ Known(t, cache[t].content)
    /\ cache[t].expires <= clock + Ttl
    /\ cache[t].content < Len(changed[t]) =>
         cache[t].expires <= changed[t][cache[t].content + 1] + Ttl + MaxLag

Uses ==
  used # NoEntry =>
    /\ Known(used.table, used.content)
    /\ used.at <= clock
    /\ used.content < Len(changed[used.table]) =>
         used.at <= changed[used.table][used.content + 1] + Ttl + MaxLag

CacheInv == CacheTypeOK /\ History /\ Answers /\ Entries /\ Uses

LEMMA CacheNumbers == Ttl \in Nat /\ MaxLag \in Nat
  BY CacheShape

LEMMA CacheInitInv == CacheInit => CacheInv
<1> SUFFICES ASSUME CacheInit PROVE CacheInv
  OBVIOUS
<1> USE DEF CacheInit
<1>1. CacheTypeOK
  BY DEF CacheTypeOK
<1>2. History /\ Answers /\ Entries /\ Uses
  BY DEF History, Answers, Entries, Uses
<1> QED
  BY <1>1, <1>2 DEF CacheInv

LEMMA HitInv == ASSUME CacheInv, NEW t \in Table, Hit(t) PROVE CacheInv'
<1> USE CacheNumbers DEF CacheInv, Hit
<1>1. /\ cache[t] \in Entry /\ cache[t] # NoEntry /\ cache[t].expires > clock
      /\ used' = [table |-> t, content |-> cache[t].content, at |-> clock]
  BY DEF CacheTypeOK, Live, Use
<1>2. CacheTypeOK'
  BY <1>1 DEF CacheTypeOK, Entry, Answer
<1>3. History' /\ Answers' /\ Entries'
  BY DEF History, Answers, Entries, Known, CurrentAt
<1>4. Uses'
  <2>1. Known(t, cache[t].content)
    BY <1>1 DEF Entries
  <2>2. cache[t].content < Len(changed[t]) =>
          clock <= changed[t][cache[t].content + 1] + Ttl + MaxLag
    <3> SUFFICES ASSUME cache[t].content < Len(changed[t])
                 PROVE  clock <= changed[t][cache[t].content + 1] + Ttl + MaxLag
      OBVIOUS
    <3>1. /\ cache[t].expires <= changed[t][cache[t].content + 1] + Ttl + MaxLag
          /\ changed[t][cache[t].content + 1] \in Nat
      BY <1>1, <2>1 DEF Entries, CacheTypeOK, Known, Entry
    <3> QED
      BY <1>1, <3>1 DEF Entry, CacheTypeOK
  <2> QED
    BY <1>1, <2>1, <2>2 DEF Uses, Known, CacheTypeOK
<1> QED
  BY <1>2, <1>3, <1>4

LEMMA SelectInv ==
  ASSUME CacheInv, NEW c \in Checker, NEW t \in Table, Select(c, t) PROVE CacheInv'
<1> USE CacheNumbers DEF CacheInv, Select
<1> DEFINE a == [table |-> t, content |-> Len(changed[t]), at |-> clock]
<1>1. Len(changed[t]) \in Nat /\ Len(changed[t]) \in 1 .. Len(changed[t])
  BY DEF CacheTypeOK, History
<1>2. CacheTypeOK'
  BY <1>1 DEF CacheTypeOK, Answer
<1>3. History' /\ Entries' /\ Uses'
  BY DEF History, Entries, Uses, Known
<1>4. Answers'
  <2> SUFFICES ASSUME NEW d \in Checker, check'[d] # NoEntry
               PROVE  /\ Known(check'[d].table, check'[d].content)
                      /\ CurrentAt(check'[d].table, check'[d].content, check'[d].at)
                      /\ check'[d].at <= clock /\ clock <= check'[d].at + MaxLag
    BY DEF Answers, Known, CurrentAt
  <2>1. CASE d = c
    <3>1. check'[d] = a
      BY <2>1 DEF CacheTypeOK
    <3> QED
      BY <1>1, <3>1 DEF Known, CurrentAt, CacheTypeOK
  <2>2. CASE d # c
    BY <2>2 DEF Answers, CacheTypeOK
  <2> QED
    BY <2>1, <2>2
<1> QED
  BY <1>2, <1>3, <1>4

LEMMA FillInv == ASSUME CacheInv, NEW c \in Checker, Fill(c) PROVE CacheInv'
<1> USE CacheNumbers DEF CacheInv, Fill
<1> DEFINE t == check[c].table
           n == check[c].content
           e == [content |-> n, expires |-> clock + Ttl]
<1>1. check[c] \in Answer /\ check[c] # NoEntry /\ t \in Table /\ n \in Nat
  BY DEF CacheTypeOK, Answer
<1>2. /\ cache' = [cache EXCEPT ![t] = e] /\ check' = [check EXCEPT ![c] = NoEntry]
      /\ used' = [table |-> t, content |-> n, at |-> clock]
      /\ changed' = changed /\ clock' = clock
  BY DEF Use
<1>3. Known(t, n)
  BY <1>1 DEF Answers
<1>4. n < Len(changed[t]) => clock <= changed[t][n + 1] + MaxLag
  <2> SUFFICES ASSUME n < Len(changed[t]) PROVE clock <= changed[t][n + 1] + MaxLag
    OBVIOUS
  <2>1. check[c].at <= changed[t][n + 1] /\ clock <= check[c].at + MaxLag
    BY <1>1 DEF Answers, CurrentAt
  <2>2. changed[t][n + 1] \in Nat /\ check[c].at \in Nat /\ clock \in Nat
    BY <1>1, <1>3 DEF CacheTypeOK, Known, Answer
  <2> DEFINE m == changed[t][n + 1]
             at == check[c].at
  <2>3. at <= m /\ clock <= at + MaxLag /\ m \in Nat /\ at \in Nat /\ clock \in Nat
    BY <2>1, <2>2
  <2> HIDE DEF m, at
  <2>4. clock <= m + MaxLag
    BY <2>3
  <2> QED
    BY <2>4 DEF m
<1>5. n < Len(changed[t]) => changed[t][n + 1] \in Nat
  BY <1>1, <1>3 DEF CacheTypeOK, Known
<1>6. clock \in Nat
  BY DEF CacheTypeOK
<1>7. e \in Entry
  BY <1>1, <1>6 DEF Entry
<1>8. CacheTypeOK'
  <2>1. used' \in Answer
    BY <1>1, <1>2, <1>6 DEF Answer
  <2> QED
    BY <1>1, <1>2, <1>6, <1>7, <2>1 DEF CacheTypeOK
<1> HIDE DEF t, n
<1>9. History'
  BY <1>2 DEF History
<1>10. Answers'
  BY <1>2 DEF Answers, CacheTypeOK, Known, CurrentAt
<1>11. Entries'
  <2> SUFFICES ASSUME NEW u \in Table, cache'[u] # NoEntry
               PROVE  /\ Known(u, cache'[u].content)
                      /\ cache'[u].expires <= clock + Ttl
                      /\ cache'[u].content < Len(changed[u]) =>
                           cache'[u].expires <= changed[u][cache'[u].content + 1] + Ttl + MaxLag
    BY <1>2 DEF Entries, Known
  <2>1. CASE u = t
    <3>1. cache'[u] = e
      BY <1>2, <2>1 DEF CacheTypeOK
    <3>2. n < Len(changed[t]) => clock + Ttl <= changed[t][n + 1] + Ttl + MaxLag
      BY <1>4, <1>5, <1>6
    <3> QED
      BY <1>3, <1>6, <2>1, <3>1, <3>2
  <2>2. CASE u # t
    BY <1>2, <2>2 DEF Entries, CacheTypeOK
  <2> QED
    BY <2>1, <2>2
<1>12. Uses'
  <2>1. n < Len(changed[t]) => clock <= changed[t][n + 1] + Ttl + MaxLag
    BY <1>4, <1>5, <1>6
  <2> QED
    BY <1>2, <1>3, <1>6, <2>1 DEF Uses, Known
<1> QED
  BY <1>8, <1>9, <1>10, <1>11, <1>12

LEMMA PutWritesInv == ASSUME CacheInv, NEW t \in Table, PutWrites(t) PROVE CacheInv'
<1> USE CacheNumbers DEF CacheInv, PutWrites
<1>1. clock \in Nat /\ changed[t] \in Seq(Nat)
  BY DEF CacheTypeOK
<1>2. /\ Len(changed'[t]) = Len(changed[t]) + 1
      /\ changed'[t][Len(changed[t]) + 1] = clock
      /\ \A i \in 1 .. Len(changed[t]) : changed'[t][i] = changed[t][i]
      /\ changed'[t] \in Seq(Nat)
  BY <1>1 DEF CacheTypeOK
<1>3. \A u \in Table : u # t => changed'[u] = changed[u]
  BY DEF CacheTypeOK
<1>4. \A u \in Table : Len(changed[u]) \in Nat
  BY DEF CacheTypeOK
<1>5. \A u \in Table, n \in Nat : Known(u, n) =>
        /\ n \in 1 .. Len(changed'[u])
        /\ n < Len(changed[u]) => changed'[u][n + 1] = changed[u][n + 1]
        /\ ~ n < Len(changed[u]) /\ n < Len(changed'[u]) => changed'[u][n + 1] = clock
  <2> SUFFICES ASSUME NEW u \in Table, NEW n \in Nat, Known(u, n)
               PROVE  /\ n \in 1 .. Len(changed'[u])
                      /\ n < Len(changed[u]) => changed'[u][n + 1] = changed[u][n + 1]
                      /\ ~ n < Len(changed[u]) /\ n < Len(changed'[u]) =>
                           changed'[u][n + 1] = clock
    OBVIOUS
  <2>1. CASE u = t
    BY <1>2, <1>4, <2>1 DEF Known
  <2>2. CASE u # t
    BY <1>3, <1>4, <2>2 DEF Known
  <2> QED
    BY <2>1, <2>2
<1>6. CacheTypeOK'
  BY <1>2 DEF CacheTypeOK
<1>7. History'
  <2> SUFFICES ASSUME NEW u \in Table
               PROVE  /\ changed'[u] # <<>>
                      /\ \A i \in 1 .. Len(changed'[u]) : changed'[u][i] <= clock
    BY DEF History
  <2>1. CASE u = t
    BY <1>1, <1>2, <1>4, <2>1 DEF History
  <2>2. CASE u # t
    BY <1>3, <2>2 DEF History
  <2> QED
    BY <2>1, <2>2
<1>8. Answers'
  <2> SUFFICES ASSUME NEW c \in Checker, check[c] # NoEntry
               PROVE  /\ check[c].content \in 1 .. Len(changed'[check[c].table])
                      /\ check[c].content < Len(changed'[check[c].table]) =>
                           check[c].at <= changed'[check[c].table][check[c].content + 1]
                      /\ check[c].at <= clock /\ clock <= check[c].at + MaxLag
    BY DEF Answers, Known, CurrentAt
  <2>1. /\ check[c].table \in Table /\ check[c].content \in Nat
        /\ Known(check[c].table, check[c].content)
    BY DEF Answers, CacheTypeOK, Answer
  <2>2. /\ CurrentAt(check[c].table, check[c].content, check[c].at)
        /\ check[c].at <= clock /\ clock <= check[c].at + MaxLag
    BY DEF Answers
  <2> QED
    BY <1>5, <2>1, <2>2 DEF CurrentAt
<1>9. Entries'
  <2> SUFFICES ASSUME NEW u \in Table, cache[u] # NoEntry
               PROVE  /\ cache[u].content \in 1 .. Len(changed'[u])
                      /\ cache[u].expires <= clock + Ttl
                      /\ cache[u].content < Len(changed'[u]) =>
                           cache[u].expires <= changed'[u][cache[u].content + 1] + Ttl + MaxLag
    BY DEF Entries, Known
  <2>1. cache[u].expires \in Nat /\ cache[u].content \in Nat
    BY DEF CacheTypeOK, Entry
  <2>2. /\ Known(u, cache[u].content)
        /\ cache[u].expires <= clock + Ttl
        /\ cache[u].content < Len(changed[u]) =>
             cache[u].expires <= changed[u][cache[u].content + 1] + Ttl + MaxLag
    BY DEF Entries
  <2> DEFINE n == cache[u].content
  <2>3. ~ n < Len(changed[u]) /\ n < Len(changed'[u]) =>
          cache[u].expires <= changed'[u][n + 1] + Ttl + MaxLag
    <3> SUFFICES ASSUME ~ n < Len(changed[u]), n < Len(changed'[u])
                 PROVE  cache[u].expires <= changed'[u][n + 1] + Ttl + MaxLag
      OBVIOUS
    <3>1. changed'[u][n + 1] = clock
      BY <1>5, <2>1, <2>2
    <3> QED
      BY <1>1, <2>1, <2>2, <3>1, CacheNumbers
  <2>4. /\ n \in 1 .. Len(changed'[u])
        /\ n < Len(changed[u]) => changed'[u][n + 1] = changed[u][n + 1]
    BY <1>5, <2>1, <2>2
  <2> QED
    BY <2>2, <2>3, <2>4
<1>10. Uses'
  <2> SUFFICES ASSUME used # NoEntry
               PROVE  /\ used.content \in 1 .. Len(changed'[used.table])
                      /\ used.at <= clock
                      /\ used.content < Len(changed'[used.table]) =>
                           used.at <= changed'[used.table][used.content + 1] + Ttl + MaxLag
    BY DEF Uses, Known
  <2>1. used.at \in Nat /\ used.content \in Nat /\ used.table \in Table
    BY DEF CacheTypeOK, Answer
  <2> DEFINE u == used.table
             n == used.content
  <2>2. /\ Known(u, n) /\ used.at <= clock
        /\ n < Len(changed[u]) => used.at <= changed[u][n + 1] + Ttl + MaxLag
    BY DEF Uses
  <2>3. ~ n < Len(changed[u]) /\ n < Len(changed'[u]) =>
          used.at <= changed'[u][n + 1] + Ttl + MaxLag
    <3> SUFFICES ASSUME ~ n < Len(changed[u]), n < Len(changed'[u])
                 PROVE  used.at <= changed'[u][n + 1] + Ttl + MaxLag
      OBVIOUS
    <3>1. changed'[u][n + 1] = clock
      BY <1>5, <2>1, <2>2
    <3> QED
      BY <1>1, <2>1, <2>2, <3>1, CacheNumbers
  <2>4. /\ n \in 1 .. Len(changed'[u])
        /\ n < Len(changed[u]) => changed'[u][n + 1] = changed[u][n + 1]
    BY <1>5, <2>1, <2>2
  <2> QED
    BY <2>2, <2>3, <2>4
<1> QED
  BY <1>6, <1>7, <1>8, <1>9, <1>10

LEMMA TickInv == CacheInv /\ Tick => CacheInv'
<1> SUFFICES ASSUME CacheInv, Tick PROVE CacheInv'
  OBVIOUS
<1> USE CacheNumbers DEF CacheInv, Tick
<1>1. clock \in Nat /\ clock' = clock + 1
  BY DEF CacheTypeOK
<1>2. CacheTypeOK'
  BY <1>1 DEF CacheTypeOK
<1>3. History'
  <2> SUFFICES ASSUME NEW t \in Table, NEW i \in 1 .. Len(changed[t])
               PROVE  changed[t][i] <= clock'
    BY DEF History
  <2> QED
    BY <1>1 DEF History, CacheTypeOK
<1>4. Answers'
  <2> SUFFICES ASSUME NEW c \in Checker, check[c] # NoEntry
               PROVE  check[c].at <= clock' /\ clock' <= check[c].at + MaxLag
    BY DEF Answers, Known, CurrentAt
  <2>1. check[c].at \in Nat
    BY DEF CacheTypeOK, Answer
  <2> QED
    BY <1>1, <2>1 DEF Answers
<1>5. Entries'
  <2> SUFFICES ASSUME NEW t \in Table, cache[t] # NoEntry
               PROVE  cache[t].expires <= clock' + Ttl
    BY DEF Entries, Known
  <2>1. cache[t].expires \in Nat
    BY DEF CacheTypeOK, Entry
  <2> QED
    BY <1>1, <2>1 DEF Entries
<1>6. Uses'
  BY <1>1 DEF Uses, Known, CacheTypeOK, Answer
<1> QED
  BY <1>2, <1>3, <1>4, <1>5, <1>6

LEMMA DropsInv == CacheInv /\ (PutDrops \/ Restart \/ UNCHANGED cacheVars) => CacheInv'
  BY DEF CacheInv, PutDrops, Restart, cacheVars, CacheTypeOK, History, Answers, Entries,
         Uses, Known, CurrentAt

LEMMA CacheNextInv == CacheInv /\ [CacheNext]_cacheVars => CacheInv'
  BY HitInv, SelectInv, FillInv, PutWritesInv, TickInv, DropsInv DEF CacheNext

\* Whatever overlaps, a check goes by limits that were replaced at most one period of
\* the cache and one query ago (getLimits, getDailyLimits and invalidateLimitsCache).
THEOREM LimitsFresh == CacheSpec => []StaleAtMostTtl
<1>1. CacheInv => StaleAtMostTtl
  BY DEF CacheInv, Uses, StaleAtMostTtl
<1> QED
  BY CacheInitInv, CacheNextInv, <1>1, PTL DEF CacheSpec

-----------------------------------------------------------------------------
(* RollingMemory: once a summary has been put before the live agent, it and  *)
(* the agent a tool is moving to go by the last one, and a refresh that is   *)
(* behind the last boundary has been asked to run again.                     *)

MemoryTypeOK ==
  /\ said \in Nat /\ callerTurns \in Nat /\ boundary \in Nat
  /\ older \in Nat /\ condensed \in Nat
  /\ refresh \in {"rest", "asking", "waiting"}
  /\ rerun \in BOOLEAN /\ failed \in BOOLEAN /\ speaking \in BOOLEAN
  /\ rushed \in BOOLEAN

Summaries ==
  /\ built # NotMoving => speaking
  /\ refresh # "rest" => older # 0
  /\ ~rushed /\ refresh # "waiting" =>
       Told = condensed /\ (built # NotMoving => built = condensed)

Refreshes ==
  /\ boundary <= said
  /\ refresh = "rest" => ~rerun
  /\ refresh # "rest" => rerun \/ older >= Older(boundary)
  /\ refresh = "waiting" => ~failed /\ condensed = older

MemoryInv == MemoryTypeOK /\ Summaries /\ Refreshes /\ SummaryCatchesUp

\* What is older than the window: nothing at first, and more as the transcript grows.
LEMMA OlderGrows ==
  /\ Older(0) = 0
  /\ \A n \in Nat : Older(n) \in Nat
  /\ \A m, n \in Nat : m <= n => Older(m) <= Older(n)
  BY MemoryShape DEF Older

LEMMA MemoryInitInv == MemoryInit => MemoryInv
<1> SUFFICES ASSUME MemoryInit PROVE MemoryInv
  OBVIOUS
<1> USE DEF MemoryInit
<1>1. MemoryTypeOK
  BY DEF MemoryTypeOK
<1>2. Summaries
  BY DEF Summaries, Told, NotMoving
<1>3. Refreshes
  BY DEF Refreshes
<1>4. SummaryCatchesUp
  BY OlderGrows DEF SummaryCatchesUp
<1> QED
  BY <1>1, <1>2, <1>3, <1>4 DEF MemoryInv

LEMMA CallerSpeaksInv == MemoryInv /\ CallerSpeaks => MemoryInv'
<1> SUFFICES ASSUME MemoryInv, CallerSpeaks PROVE MemoryInv'
  OBVIOUS
<1> USE DEF MemoryInv, CallerSpeaks
<1>1. /\ said \in Nat /\ said' = said + 1 /\ said' \in Nat /\ boundary \in Nat
      /\ callerTurns' \in Nat
      /\ condensed \in Nat /\ Older(said') \in Nat /\ Older(0) = 0
  BY OlderGrows DEF MemoryTypeOK
<1>2. CASE UNCHANGED <<boundary, refresh, rerun, older>>
  BY <1>1, <1>2 DEF MemoryTypeOK, Summaries, Told, Refreshes, SummaryCatchesUp, Older
<1>3. CASE boundary' = said' /\ refresh = "rest" /\ Regenerate(said')
  <2>1. MemoryTypeOK'
    BY <1>1, <1>3 DEF MemoryTypeOK, Regenerate
  <2>2. Summaries'
    BY <1>1, <1>3 DEF Summaries, Told, Regenerate
  <2>3. Refreshes'
    BY <1>1, <1>3 DEF Refreshes, Regenerate, Older
  <2>4. SummaryCatchesUp'
    BY <1>1, <1>3 DEF SummaryCatchesUp, Regenerate, Older
  <2> QED
    BY <2>1, <2>2, <2>3, <2>4
<1>4. CASE boundary' = said' /\ refresh # "rest" /\ rerun' = TRUE /\ UNCHANGED <<refresh, older>>
  BY <1>1, <1>4 DEF MemoryTypeOK, Summaries, Told, Refreshes, SummaryCatchesUp, Older
<1> QED
  BY <1>2, <1>3, <1>4

\* A refresh that ends has reached the last boundary, or starts again behind it.
LEMMA EndRefreshInv ==
  ASSUME MemoryTypeOK, Refreshes, refresh # "rest", EndRefresh,
         UNCHANGED <<said, boundary>>,
         condensed' \in Nat, failed' \in BOOLEAN,
         ~failed' => condensed' >= older
  PROVE  /\ Refreshes' /\ SummaryCatchesUp'
         /\ refresh' \in {"rest", "asking"} /\ rerun' \in BOOLEAN /\ older' \in Nat
         /\ refresh' = "asking" => older' # 0
<1>1. /\ said \in Nat /\ boundary \in Nat /\ older \in Nat /\ boundary <= said
      /\ Older(said) \in Nat /\ Older(boundary) \in Nat /\ Older(boundary) <= Older(said)
  BY OlderGrows DEF MemoryTypeOK, Refreshes
<1>2. Older(boundary)' = Older(boundary)
  BY DEF Older
<1>3. CASE rerun
  <2>1. /\ rerun' = FALSE /\ older' = Older(said)
        /\ refresh' = IF Older(said) = 0 THEN "rest" ELSE "asking"
    BY <1>3 DEF EndRefresh, Regenerate
  <2>2. Refreshes'
    BY <1>1, <1>2, <2>1 DEF Refreshes
  <2>3. SummaryCatchesUp'
    BY <1>1, <1>2, <2>1 DEF SummaryCatchesUp
  <2> QED
    BY <1>1, <2>1, <2>2, <2>3
<1>4. CASE ~rerun
  <2>1. refresh' = "rest" /\ rerun' = rerun /\ older' = older /\ older >= Older(boundary)
    BY <1>4 DEF EndRefresh, Refreshes
  <2>2. rerun' = FALSE
    BY <1>4, <2>1 DEF MemoryTypeOK
  <2>3. Refreshes'
    BY <1>1, <1>2, <2>1, <2>2 DEF Refreshes
  <2>4. SummaryCatchesUp'
    <3>1. ~failed' => condensed' >= Older(boundary)
      BY <1>1, <2>1
    <3> QED
      BY <1>2, <3>1 DEF SummaryCatchesUp
  <2> QED
    BY <1>1, <2>1, <2>2, <2>3, <2>4
<1> QED
  BY <1>3, <1>4

LEMMA SummarizedInv == MemoryInv /\ (Summarized \/ NotSummarized) => MemoryInv'
<1> SUFFICES ASSUME MemoryInv, Summarized \/ NotSummarized PROVE MemoryInv'
  OBVIOUS
<1> USE DEF MemoryInv
<1>1. CASE Summarized
  BY <1>1 DEF Summarized, MemoryTypeOK, Summaries, Told, Refreshes, SummaryCatchesUp, Older
<1>2. CASE NotSummarized
  <2>1. /\ Refreshes' /\ SummaryCatchesUp' /\ rerun' \in BOOLEAN /\ older' \in Nat
        /\ refresh' \in {"rest", "asking"} /\ (refresh' = "asking" => older' # 0)
    BY <1>2, EndRefreshInv DEF NotSummarized, MemoryTypeOK
  <2>2. Summaries'
    BY <1>2, <2>1 DEF NotSummarized, Summaries, Told
  <2>3. MemoryTypeOK'
    BY <1>2, <2>1 DEF NotSummarized, MemoryTypeOK
  <2> QED
    BY <2>1, <2>2, <2>3
<1> QED
  BY <1>1, <1>2

LEMMA SpliceInv == MemoryInv /\ (Splice \/ SpliceAnyway) => MemoryInv'
<1> SUFFICES ASSUME MemoryInv, Splice \/ SpliceAnyway PROVE MemoryInv'
  OBVIOUS
<1> USE DEF MemoryInv
<1>1. /\ refresh = "waiting" /\ spliced' = condensed /\ EndRefresh
      /\ UNCHANGED <<said, callerTurns, boundary, condensed, failed, speaking, block, built>>
      /\ rushed' = (built # NotMoving)
  BY DEF Splice, SpliceAnyway, AgentIdle, Summaries
<1>2. condensed' \in Nat /\ failed' \in BOOLEAN /\ condensed' >= older
  BY <1>1 DEF MemoryTypeOK, Refreshes
<1>3. /\ Refreshes' /\ SummaryCatchesUp' /\ rerun' \in BOOLEAN /\ older' \in Nat
      /\ refresh' \in {"rest", "asking"} /\ (refresh' = "asking" => older' # 0)
  BY <1>1, <1>2, EndRefreshInv
<1>4. condensed # 0
  BY <1>1 DEF Summaries, Refreshes
<1>5. Summaries'
  BY <1>1, <1>3, <1>4 DEF Summaries, Told
<1>6. MemoryTypeOK'
  BY <1>1, <1>3 DEF MemoryTypeOK
<1> QED
  BY <1>3, <1>5, <1>6

LEMMA MoveInv ==
  ASSUME MemoryInv,
         AgentSpeaks \/ MoveCopies \/ MoveLands \/ MoveAtOnce \/ UNCHANGED memoryVars
  PROVE  MemoryInv'
<1> USE DEF MemoryInv, MemoryTypeOK, Summaries, Told, Refreshes, SummaryCatchesUp, Older, NotMoving
<1>1. CASE AgentSpeaks
  <2>1. MemoryTypeOK'
    <3>1. said' = said + 1 /\ speaking' = FALSE
      BY <1>1 DEF AgentSpeaks
    <3>2. UNCHANGED <<callerTurns, boundary, refresh, rerun, older, condensed, failed, rushed>>
      BY <1>1 DEF AgentSpeaks
    <3>3. said' \in Nat
      BY <3>1
    <3>4. speaking' \in BOOLEAN
      BY <3>1
    <3> QED
      BY <3>2, <3>3, <3>4
  <2>2. Summaries'
    BY <1>1 DEF AgentSpeaks
  <2>3. Refreshes'
    BY <1>1 DEF AgentSpeaks
  <2>4. SummaryCatchesUp'
    BY <1>1 DEF AgentSpeaks
  <2> QED
    BY <2>1, <2>2, <2>3, <2>4
<1>2. CASE MoveCopies
  BY <1>2 DEF MoveCopies
<1>3. CASE MoveLands
  BY <1>3 DEF MoveLands
<1>4. CASE MoveAtOnce
  BY <1>4 DEF MoveAtOnce
<1>5. CASE UNCHANGED memoryVars
  BY <1>5 DEF memoryVars
<1> QED
  BY <1>1, <1>2, <1>3, <1>4, <1>5

LEMMA MemoryNextInv == MemoryInv /\ [MemoryNext]_memoryVars => MemoryInv'
  BY CallerSpeaksInv, SummarizedInv, SpliceInv, MoveInv DEF MemoryNext

\* However often intervals pass while a refresh runs, no boundary is lost with the run
\* that ends (the rerun loop of flow/memory.ts), for any interval and window.
THEOREM SummaryReaches == MemorySpec => []SummaryCatchesUp
<1>1. MemoryInv => SummaryCatchesUp
  BY DEF MemoryInv
<1> QED
  BY MemoryInitInv, MemoryNextInv, <1>1, PTL DEF MemorySpec

\* What a refresh has found out reaches the agent that is live, whatever moves meanwhile:
\* for any interval, any window and any number of turns (flow/memory.ts:145-173).
THEOREM SummaryIsTold == MemorySpec => []AgentIsTold
<1>1. MemoryInv => AgentIsTold
  BY DEF MemoryInv, Summaries, SummaryCatchesUp, AgentIsTold
<1> QED
  BY MemoryInitInv, MemoryNextInv, <1>1, PTL DEF MemorySpec

-----------------------------------------------------------------------------
(* LanguageAligner: the pending language is the one heard last, unless that  *)
(* is the current one.                                                       *)

Scores == [{Lang[i] : i \in DOMAIN Lang} -> 0 .. MaxScore]

\* Every set of numbers that is not empty has a least one.
LEMMA LeastNumber ==
  ASSUME NEW S, S \subseteq Nat, S # {}
  PROVE  \E m \in S : \A k \in S : m <= k
<1>1. PICK R : IsWellFoundedOn(R, Nat) /\ \A k, m \in Nat : k < m => <<k, m>> \in R
  <2> DEFINE R == OpToRel(<, Nat)
  <2>1. IsWellFoundedOn(R, Nat)
    BY NatLessThanWellFounded
  <2>2. \A k, m \in Nat : k < m => <<k, m>> \in R
    BY DEF OpToRel
  <2> HIDE DEF R
  <2> QED
    BY <2>1, <2>2
<1>2. IsWellFoundedOn(R, Nat)
  BY <1>1
<1>3. PICK m \in S : \A k \in S : ~ (<<k, m>> \in R)
  BY <1>2, WFMin
<1>4. \A k \in S : ~ (k < m)
  BY <1>1, <1>3
<1> QED
  BY <1>4

\* Induction up to n.
LEMMA InductionUpTo ==
  ASSUME NEW n \in Nat, NEW S, 0 \in S, \A i \in 1 .. n : i - 1 \in S => i \in S
  PROVE  \A i \in 0 .. n : i \in S
<1> DEFINE Rest == {i \in 0 .. n : i \notin S}
<1> SUFFICES ASSUME Rest # {} PROVE FALSE
  OBVIOUS
<1>1. Rest \subseteq Nat
  OBVIOUS
<1>2. PICK m \in Rest : \A k \in Rest : m <= k
  BY <1>1, LeastNumber
<1>3. m \in 1 .. n /\ m - 1 \in 0 .. n
  BY <1>2
<1>4. m - 1 \notin Rest
  BY <1>2, <1>3
<1> QED
  BY <1>2, <1>3, <1>4

\* The languages there are, and how far the pass has come with f.
ScanTo(f, n, score) ==
  f = [i \in 0 .. n |-> IF i = 0 THEN NothingHeard ELSE Hear(f[i - 1], Lang[i], score[Lang[i]])]

LEMMA Languages ==
  /\ Len(Lang) \in Nat /\ DOMAIN Lang = 1 .. Len(Lang)
  /\ \A score \in Scores, i \in 1 .. Len(Lang) : score[Lang[i]] \in Nat
  BY LanguageShape DEF Scores

\* The recursion of the pass is well-founded.
LEMMA ScanDefined == ASSUME NEW score \in Scores PROVE ScanTo(Scan(score), Len(Lang), score)
<1> DEFINE Reached == {n \in 0 .. Len(Lang) : \E f : ScanTo(f, n, score)}
<1>1. 0 \in Reached
  <2>1. ScanTo([i \in 0 .. 0 |-> NothingHeard], 0, score)
    BY DEF ScanTo
  <2> QED
    BY <2>1, Languages
<1>2. ASSUME NEW n \in 1 .. Len(Lang), n - 1 \in Reached PROVE n \in Reached
  <2>1. n \in Nat /\ n - 1 \in Nat
    BY Languages
  <2>2. PICK f : ScanTo(f, n - 1, score)
    BY <1>2
  <2> DEFINE g == [i \in 0 .. n |-> IF i = n THEN Hear(f[n - 1], Lang[n], score[Lang[n]])
                                    ELSE f[i]]
  <2>3. \A i \in 0 .. n - 1 : g[i] = f[i]
    BY <2>1
  <2>4. ASSUME NEW i \in 0 .. n
        PROVE  g[i] = IF i = 0 THEN NothingHeard ELSE Hear(g[i - 1], Lang[i], score[Lang[i]])
    <3>1. CASE i = n
      BY <2>1, <2>3, <3>1
    <3>2. CASE i # n
      <4>1. i \in 0 .. n - 1 /\ (i # 0 => i - 1 \in 0 .. n - 1)
        BY <2>1, <3>2
      <4>2. f[i] = IF i = 0 THEN NothingHeard ELSE Hear(f[i - 1], Lang[i], score[Lang[i]])
        BY <2>2, <4>1 DEF ScanTo
      <4> QED
        BY <2>3, <4>1, <4>2
    <3> QED
      BY <3>1, <3>2
  <2>5. ScanTo(g, n, score)
    <3>1. g = [i \in 0 .. n |-> g[i]]
      OBVIOUS
    <3> HIDE DEF g
    <3> QED
      BY <2>4, <3>1 DEF ScanTo
  <2> QED
    BY <2>5
<1>3. Len(Lang) \in Reached
  <2>1. \A i \in 0 .. Len(Lang) : i \in Reached
    <3> HIDE DEF Reached
    <3> QED
      BY <1>1, <1>2, Languages, InductionUpTo
  <2> QED
    BY <2>1, Languages
<1>4. PICK f : ScanTo(f, Len(Lang), score)
  BY <1>3
<1>5. Scan(score) = CHOOSE g : ScanTo(g, Len(Lang), score)
  BY DEF Scan, ScanTo
<1> QED
  BY <1>4, <1>5

\* After i languages: j is the first of the best so far (0 before any evidence), and
\* the runner-up is the best of the others.
Leads(b, score, i, j) ==
  /\ IF j = 0 THEN b.best = Unsure /\ b.most = 0
     ELSE b.best = Lang[j] /\ b.most = score[Lang[j]]
  /\ b.second \in Nat /\ b.second <= b.most
  /\ \A k \in 1 .. i : k # j => score[Lang[k]] <= b.second
  /\ b.second = 0 \/ \E k \in 1 .. i : k # j /\ score[Lang[k]] = b.second

LEMMA HearLeads ==
  ASSUME NEW score \in Scores, NEW i \in 1 .. Len(Lang), NEW b, NEW j \in 0 .. i - 1,
         b \in [best : {Unsure} \cup {Lang[k] : k \in DOMAIN Lang}, most : Nat, second : Nat],
         Leads(b, score, i - 1, j)
  PROVE  LET h == Hear(b, Lang[i], score[Lang[i]])
         IN /\ h \in [best : {Unsure} \cup {Lang[k] : k \in DOMAIN Lang}, most : Nat, second : Nat]
            /\ \E l \in 0 .. i : Leads(h, score, i, l)
<1> DEFINE s == score[Lang[i]]
           h == Hear(b, Lang[i], s)
<1>1. /\ s \in Nat /\ i \in Nat /\ i \in DOMAIN Lang /\ j \in Nat /\ j # i /\ j < i
      /\ b.most \in Nat /\ b.second \in Nat /\ b.second <= b.most
      /\ \A k \in 1 .. i - 1 : score[Lang[k]] \in Nat
  BY Languages DEF Leads
<1>2. \A k \in 1 .. i : k = i \/ k \in 1 .. i - 1
  BY <1>1
<1>3. \A k \in 1 .. i - 1 : k \in 1 .. i
  BY <1>1
<1> HIDE DEF s
<1>4. CASE s > b.most
  <2>1. h = [best |-> Lang[i], most |-> s, second |-> b.most]
    BY <1>4 DEF Hear
  <2>2. \A k \in 1 .. i : k # i => score[Lang[k]] <= b.most
    <3> SUFFICES ASSUME NEW k \in 1 .. i - 1 PROVE score[Lang[k]] <= b.most
      BY <1>2
    <3>1. CASE k = j
      BY <1>1, <3>1 DEF Leads
    <3>2. CASE k # j
      BY <1>1, <3>2 DEF Leads
    <3> QED
      BY <3>1, <3>2
  <2>3. b.most = 0 \/ \E k \in 1 .. i : k # i /\ score[Lang[k]] = b.most
    <3>1. CASE j = 0
      BY <3>1 DEF Leads
    <3>2. CASE j # 0
      <4>1. j \in 1 .. i /\ j # i /\ score[Lang[j]] = b.most
        BY <1>1, <3>2 DEF Leads
      <4> QED
        BY <4>1
    <3> QED
      BY <3>1, <3>2
  <2>4. Leads(h, score, i, i)
    BY <1>1, <1>4, <2>1, <2>2, <2>3 DEF Leads, s
  <2> QED
    BY <1>1, <2>1, <2>4 DEF s
<1>5. CASE ~ s > b.most /\ s > b.second
  <2>1. /\ h = [b EXCEPT !.second = s]
        /\ h = [best |-> b.best, most |-> b.most, second |-> s]
    BY <1>5 DEF Hear
  <2>2. \A k \in 1 .. i : k # j => score[Lang[k]] <= s
    BY <1>1, <1>2, <1>5 DEF Leads, s
  <2>3. \E k \in 1 .. i : k # j /\ score[Lang[k]] = s
    <3>1. i \in 1 .. i /\ i # j /\ score[Lang[i]] = s
      BY <1>1 DEF s
    <3> QED
      BY <3>1
  <2>4. Leads(h, score, i, j)
    BY <1>1, <1>5, <2>1, <2>2, <2>3 DEF Leads
  <2> QED
    BY <1>1, <2>1, <2>4 DEF s
<1>6. CASE ~ s > b.most /\ ~ s > b.second
  <2>1. h = b
    BY <1>6 DEF Hear
  <2>2. \A k \in 1 .. i : k # j => score[Lang[k]] <= b.second
    BY <1>1, <1>2, <1>6 DEF Leads, s
  <2>3. Leads(h, score, i, j)
    BY <1>1, <1>3, <2>1, <2>2 DEF Leads
  <2> QED
    BY <1>1, <2>1, <2>3 DEF s
<1> QED
  BY <1>4, <1>5, <1>6 DEF s

\* What the pass knows of all languages.
LEMMA ScanLeads ==
  ASSUME NEW score \in Scores
  PROVE  LET b == Scan(score)[Len(Lang)]
         IN b.most \in Nat /\ \E j \in 0 .. Len(Lang) : Leads(b, score, Len(Lang), j)
<1> DEFINE f == Scan(score)
           Outcome == [best : {Unsure} \cup {Lang[k] : k \in DOMAIN Lang}, most : Nat, second : Nat]
           Right == {i \in 0 .. Len(Lang) : f[i] \in Outcome /\ \E j \in 0 .. i : Leads(f[i], score, i, j)}
<1>1. \A i \in 0 .. Len(Lang) :
        f[i] = IF i = 0 THEN NothingHeard ELSE Hear(f[i - 1], Lang[i], score[Lang[i]])
  <2>1. ScanTo(f, Len(Lang), score)
    BY ScanDefined
  <2> HIDE DEF f
  <2> QED
    BY <2>1 DEF ScanTo
<1> HIDE DEF f
<1>2. 0 \in Right
  <2>1. f[0] = NothingHeard
    BY <1>1, Languages
  <2>2. Leads(f[0], score, 0, 0)
    BY <2>1 DEF Leads, NothingHeard
  <2> QED
    BY <2>1, <2>2, Languages DEF NothingHeard
<1>3. ASSUME NEW i \in 1 .. Len(Lang), i - 1 \in Right PROVE i \in Right
  <2>1. i \in 0 .. Len(Lang) /\ f[i] = Hear(f[i - 1], Lang[i], score[Lang[i]])
    BY <1>1, Languages
  <2>2. PICK j \in 0 .. i - 1 : Leads(f[i - 1], score, i - 1, j)
    BY <1>3
  <2>3. f[i - 1] \in Outcome
    BY <1>3
  <2>4. f[i] \in Outcome /\ \E l \in 0 .. i : Leads(f[i], score, i, l)
    BY <2>1, <2>2, <2>3, HearLeads
  <2> QED
    BY <2>1, <2>4
<1>4. \A i \in 0 .. Len(Lang) : i \in Right
  <2> HIDE DEF Right
  <2> QED
    BY <1>2, <1>3, Languages, InductionUpTo
<1>5. Len(Lang) \in Right
  BY <1>4, Languages
<1> QED
  BY <1>5 DEF f

\* detectLanguage finds, in one pass with a runner-up, the language that is two ahead of
\* every other one, and is unsure when there is none; for any languages and scores.
THEOREM DetectsWinner ==
  \A score \in Scores : Detect(score) = Winner(score)
<1> SUFFICES ASSUME NEW score \in Scores PROVE Detect(score) = Winner(score)
  OBVIOUS
<1> DEFINE n == Len(Lang)
           b == Scan(score)[n]
           ahead == {i \in DOMAIN Lang : /\ score[Lang[i]] >= 2
                                         /\ \A j \in DOMAIN Lang \ {i} :
                                              score[Lang[i]] >= score[Lang[j]] + 2}
<1>1. PICK j \in 0 .. n : b.most \in Nat /\ Leads(b, score, n, j)
  BY ScanLeads
<1>2. /\ n \in Nat /\ DOMAIN Lang = 1 .. n /\ \A i \in 1 .. n : score[Lang[i]] \in Nat
  BY Languages
<1>3. Detect(score) = IF b.most < 2 \/ b.most < b.second + 2 THEN Unsure ELSE b.best
  BY DEF Detect
<1>4. Winner(score) = IF ahead = {} THEN Unsure ELSE Lang[CHOOSE i \in ahead : TRUE]
  BY DEF Winner
<1> HIDE DEF b
<1>5. b.second \in Nat /\ b.second <= b.most
  BY <1>1 DEF Leads
<1>6. CASE ~ (b.most < 2 \/ b.most < b.second + 2)
  <2>1. j \in 1 .. n /\ b.best = Lang[j] /\ b.most = score[Lang[j]]
    BY <1>1, <1>2, <1>6 DEF Leads
  <2>2. j \in ahead
    <3>1. \A i \in 1 .. n : i # j => score[Lang[j]] >= score[Lang[i]] + 2
      BY <1>1, <1>2, <1>5, <1>6, <2>1 DEF Leads
    <3>2. score[Lang[j]] >= 2
      BY <1>1, <1>6, <2>1
    <3> QED
      BY <1>2, <2>1, <3>1, <3>2
  <2>3. \A i \in ahead : i = j
    <3> SUFFICES ASSUME NEW i \in 1 .. n, i \in ahead, i # j PROVE FALSE
      BY <1>2
    <3>1. score[Lang[i]] >= score[Lang[j]] + 2 /\ score[Lang[j]] >= score[Lang[i]] + 2
      BY <1>2, <2>1, <2>2
    <3> QED
      BY <1>2, <2>1, <3>1
  <2>4. ahead = {j}
    BY <2>2, <2>3
  <2> HIDE DEF ahead
  <2>5. (CHOOSE i \in ahead : TRUE) = j
    BY <2>4
  <2> QED
    BY <1>3, <1>4, <1>6, <2>1, <2>4, <2>5
<1>7. CASE b.most < 2 \/ b.most < b.second + 2
  <2>1. ASSUME NEW i \in 1 .. n, i \in ahead PROVE FALSE
    <3>1. /\ score[Lang[i]] >= 2 /\ score[Lang[i]] \in Nat
          /\ \A k \in 1 .. n : k # i => score[Lang[i]] >= score[Lang[k]] + 2
      BY <1>2, <2>1
    <3> HIDE DEF ahead
    <3>2. CASE i = j
      <4>1. b.most = score[Lang[i]]
        BY <1>1, <3>2 DEF Leads
      <4>2. PICK k \in 1 .. n : k # j /\ score[Lang[k]] = b.second
        BY <1>1, <1>5, <1>7, <3>1, <4>1 DEF Leads
      <4>3. score[Lang[i]] >= b.second + 2
        BY <3>1, <3>2, <4>2
      <4> QED
        BY <1>1, <1>5, <1>7, <3>1, <4>1, <4>3
    <3>3. CASE i # j
      <4>1. score[Lang[i]] <= b.second
        BY <1>1, <3>3 DEF Leads
      <4>2. CASE j = 0
        BY <1>1, <1>5, <3>1, <4>1, <4>2 DEF Leads
      <4>3. CASE j # 0
        <5>1. j \in 1 .. n /\ b.most = score[Lang[j]]
          BY <1>1, <1>2, <4>3 DEF Leads
        <5> QED
          BY <1>2, <1>5, <3>1, <3>3, <4>1, <5>1
      <4> QED
        BY <4>2, <4>3
    <3> QED
      BY <3>2, <3>3
  <2>2. ahead = {}
    BY <1>2, <2>1
  <2> QED
    BY <1>3, <1>4, <1>7, <2>2
<1> QED
  BY <1>6, <1>7

LanguageInv ==
  /\ pendingCount \in {0, 1} /\ (pending # Unsure => pendingCount = 1)
  /\ \/ confident = <<>> /\ pending = Unsure
     \/ \E d : /\ d # Unsure
               /\ pending = IF d = current THEN Unsure ELSE d
               /\ \/ confident = <<d>>
                  \/ \E c : confident = <<c, d>> /\ (c = d => current = d)

LEMMA LanguageInitInv == LanguageInit => LanguageInv
  BY DEF LanguageInit, LanguageInv

\* What a guess does to the debounce, and the next two confident guesses with it.
LEMMA GuessSwitches ==
  ASSUME LanguageInv, NEW d, Guess(d), Note(d)
  PROVE  /\ LanguageInv'
         /\ \/ UNCHANGED languageVars
            \/ current' = IF Len(confident') = 2 /\ confident'[1] = confident'[2]
                          THEN confident'[2] ELSE current
<1>1. CASE d = Unsure
  BY <1>1 DEF Guess, Note, LanguageInv, languageVars
<1>2. CASE d # Unsure /\ confident = <<>>
  <2>1. confident' = <<d>> /\ pending = Unsure
    BY <1>2 DEF Note, LanguageInv
  <2>2. Len(confident') = 1
    BY <2>1
  <2>3. current' = current /\ pendingCount' \in {0, 1}
        /\ pending' = (IF d = current THEN Unsure ELSE d)
        /\ (pending' # Unsure => pendingCount' = 1)
    BY <1>2, <2>1 DEF Guess
  <2> QED
    BY <1>2, <2>1, <2>2, <2>3 DEF LanguageInv
<1>3. CASE d # Unsure /\ confident # <<>>
  <2>1. PICK c : /\ c # Unsure
                 /\ pending = IF c = current THEN Unsure ELSE c
                 /\ confident[Len(confident)] = c
    BY <1>3 DEF LanguageInv
  <2>2. confident' = <<c, d>>
    BY <1>3, <2>1 DEF Note
  <2>3. Len(confident') = 2 /\ confident'[1] = c /\ confident'[2] = d
    BY <2>2
  <2>4. CASE d = current
    <3>1. current' = current /\ pending' = Unsure /\ pendingCount' = 0
      BY <1>3, <2>4 DEF Guess
    <3> QED
      BY <1>3, <2>2, <2>3, <2>4, <3>1 DEF LanguageInv
  <2>5. CASE d # current /\ d = pending
    <3>1. c = d /\ pendingCount = 1
      BY <1>3, <2>1, <2>5 DEF LanguageInv
    <3>2. current' = d /\ pending' = Unsure /\ pendingCount' = 0
      BY <1>3, <2>5, <3>1 DEF Guess
    <3> QED
      BY <1>3, <2>2, <2>3, <3>1, <3>2 DEF LanguageInv
  <2>6. CASE d # current /\ d # pending
    <3>1. c # d
      BY <2>1, <2>6
    <3>2. current' = current /\ pending' = d /\ pendingCount' = 1
      BY <1>3, <2>6 DEF Guess
    <3> QED
      BY <1>3, <2>2, <2>3, <2>6, <3>1, <3>2 DEF LanguageInv
  <2> QED
    BY <2>4, <2>5, <2>6
<1> QED
  BY <1>1, <1>2, <1>3

LEMMA LanguageNextInv ==
  ASSUME LanguageInv, LanguageNext
  PROVE  /\ LanguageInv'
         /\ \/ UNCHANGED languageVars
            \/ current' = IF Len(confident') = 2 /\ confident'[1] = confident'[2]
                          THEN confident'[2] ELSE current
<1>1. CASE HearNamed
  BY <1>1, GuessSwitches DEF HearNamed
<1>2. CASE HearText
  BY <1>2, GuessSwitches, DetectsWinner DEF HearText, Scores
<1> QED
  BY <1>1, <1>2 DEF LanguageNext

\* The language follows the caller exactly when two confident guesses in a row agree
\* (onFinalTranscript), for any languages and any evidence in the transcripts.
THEOREM LanguageSwitches == LanguageSpec => LanguageFollows
<1>1. LanguageInv /\ [LanguageNext]_languageVars => LanguageInv'
  BY LanguageNextInv DEF LanguageInv, languageVars
<1>2. LanguageInv /\ [LanguageNext]_languageVars =>
        [current' = IF Len(confident') = 2 /\ confident'[1] = confident'[2]
                    THEN confident'[2] ELSE current]_languageVars
  BY LanguageNextInv
<1> QED
  BY LanguageInitInv, <1>1, <1>2, PTL DEF LanguageSpec, LanguageFollows

-----------------------------------------------------------------------------
(* NumberRegistry: what a handler read stays true as far as it acts on it.   *)

RegistryTypeOK ==
  /\ registry \in [Number -> Row \cup {NoRow}]
  /\ owned \subseteq [ref : Nat, number : Number]
  /\ handler \in [Handler -> Task \cup {Free}]
  /\ ids \in Nat /\ refs \in Nat

\* Ids are given out once, in order.
Numbered ==
  /\ \A o \in owned : o.ref <= refs
  /\ \A o, p \in owned : o.ref = p.ref => o = p
  /\ \A n \in Number : registry[n] # NoRow =>
       registry[n].id <= ids /\ (registry[n].ref \in Nat => registry[n].ref <= refs)
  /\ \A h \in Handler : handler[h] # Free =>
       handler[h].id <= ids /\ (handler[h].ref \in Nat => handler[h].ref <= refs)

Works(h, stages) == handler[h] # Free /\ handler[h].stage \in stages

\* What was bought is inserted under the number it was bought for.
Bought ==
  \A h \in Handler, o \in owned :
    Works(h, {"insert"}) /\ handler[h].ref = o.ref => handler[h].number = o.number

\* While the row that was read is there, it names what the handler releases.
ReadRight ==
  \A h \in Handler : Works(h, {"release", "drop", "delete"}) =>
    LET row == registry[handler[h].number]
    IN row # NoRow /\ row.id = handler[h].id => row.ref = handler[h].ref

\* A row with a provider_ref is dropped when the account has given the number back.
Returned == \A h \in Handler : Works(h, {"drop"}) => ~Ours(handler[h].ref)

RegistryInv == RegistryTypeOK /\ Numbered /\ Bought /\ ReadRight /\ Returned /\ NoneForgotten

LEMMA RegistryInitInv == RegistryInit => RegistryInv
  BY RegistryShape DEF RegistryInit, RegistryInv, RegistryTypeOK, Numbered, Bought, ReadRight,
     Returned, NoneForgotten, Works

\* A handler begins a task, or ends its own; the others go on with theirs.
LEMMA OthersGoOn ==
  ASSUME RegistryTypeOK, NEW h \in Handler
  PROVE  /\ \A stage, n, id, ref : Begins(h, stage, n, id, ref) =>
              /\ handler'[h] = [stage |-> stage, number |-> n, id |-> id, ref |-> ref]
              /\ \A g \in Handler \ {h} : handler'[g] = handler[g]
         /\ Ends(h) => /\ handler'[h] = Free /\ handler' \in [Handler -> Task \cup {Free}]
                       /\ \A g \in Handler \ {h} : handler'[g] = handler[g]
  BY DEF RegistryTypeOK, Begins, Ends

LEMMA BeginsTask ==
  ASSUME RegistryTypeOK, NEW h \in Handler,
         NEW stage \in {"insert", "buy", "release", "drop", "delete"}, NEW n \in Number,
         NEW id \in Nat, NEW ref \in Ref, Begins(h, stage, n, id, ref)
  PROVE  /\ handler' \in [Handler -> Task \cup {Free}] /\ handler'[h] \in Task
         /\ handler'[h] # Free
  BY RegistryShape DEF RegistryTypeOK, Begins, Task

\* A task of a handler, field by field.
LEMMA TaskFields ==
  ASSUME RegistryTypeOK, NEW h \in Handler, handler[h] # Free
  PROVE  /\ handler[h] \in Task /\ handler[h].number \in Number /\ handler[h].id \in Nat
         /\ handler[h].ref \in Ref
  BY DEF RegistryTypeOK, Task

LEMMA RowFields ==
  ASSUME RegistryTypeOK, NEW n \in Number, registry[n] # NoRow
  PROVE  registry[n].id \in Nat /\ registry[n].ref \in Ref
  BY DEF RegistryTypeOK, Row

LEMMA OwnedFields ==
  ASSUME RegistryTypeOK, NEW o \in owned
  PROVE  o.ref \in Nat /\ o.number \in Number /\ o.ref # External /\ o.ref # NoRef
  BY RegistryShape DEF RegistryTypeOK

\* The purchase of an owned number, its INSERT still to come; and NoneForgotten by it.
OnItsWay(h, o) == /\ handler[h] # Free /\ handler[h].stage = "insert"
                  /\ handler[h].number = o.number /\ Names(handler[h].ref, o)

Keeps(o) == \/ o.ref \in lost
            \/ registry[o.number] # NoRow /\ Names(registry[o.number].ref, o)
            \/ \E h \in Handler : OnItsWay(h, o)

LEMMA Kept == /\ NoneForgotten <=> \A o \in owned : Keeps(o)
              /\ NoneForgotten' <=> \A o \in owned' : Keeps(o)'
  BY DEF NoneForgotten, Keeps, OnItsWay

\* A handler that names an owned number by its id, or by its number, would lose it.
LEMMA HeldIsBehind ==
  ASSUME RegistryTypeOK, NEW h \in Handler, NEW o \in owned,
         handler[h].number = o.number, Names(handler[h].ref, o)
  PROVE  o.ref \in Behind(h)
  BY OwnedFields DEF Behind, Names

LEMMA ChecksInv ==
  ASSUME RegistryInv, NEW h \in Handler, NEW n \in Number,
         RegisterChecks(h, n) \/ PurchaseChecks(h, n)
  PROVE  RegistryInv'
<1> USE DEF RegistryInv
<1>1. PICK stage \in {"insert", "buy"} : Begins(h, stage, n, 0, External)
  BY DEF RegisterChecks, PurchaseChecks
<1>2. /\ handler[h] = Free
      /\ UNCHANGED <<registry, owned, ids, refs, lost>>
  BY DEF RegisterChecks, PurchaseChecks
<1>3. /\ handler'[h] = [stage |-> stage, number |-> n, id |-> 0, ref |-> External]
      /\ \A g \in Handler \ {h} : handler'[g] = handler[g]
  BY <1>1, OthersGoOn
<1>4. RegistryTypeOK'
  <2>1. stage \in {"insert", "buy", "release", "drop", "delete"} /\ 0 \in Nat /\ External \in Ref
    BY DEF Ref
  <2>2. handler' \in [Handler -> Task \cup {Free}]
    BY <1>1, <2>1, BeginsTask
  <2> QED
    BY <1>2, <2>2 DEF RegistryTypeOK
<1>5. Numbered'
  BY <1>2, <1>3, RegistryShape DEF Numbered, RegistryTypeOK
<1>6. Bought'
  BY <1>2, <1>3, OwnedFields DEF Bought, Works
<1>7. ReadRight' /\ Returned'
  BY <1>2, <1>3 DEF ReadRight, Returned, Works, Ours
<1>8. NoneForgotten'
  BY <1>2, <1>3 DEF NoneForgotten
<1> QED
  BY <1>4, <1>5, <1>6, <1>7, <1>8

LEMMA BuysInv == ASSUME RegistryInv, NEW h \in Handler, Buys(h) PROVE RegistryInv'
<1> USE DEF RegistryInv
<1> DEFINE n == handler[h].number
           o == [ref |-> refs + 1, number |-> n]
<1>1. handler[h] # Free /\ handler[h].stage = "buy" /\ n \in Number /\ refs \in Nat
  BY TaskFields DEF Buys, RegistryTypeOK
<1>2. UNCHANGED <<registry, ids>>
  BY DEF Buys
<1>3. CASE Ends(h) /\ UNCHANGED <<owned, refs, lost>>
  <2>1. RegistryTypeOK' /\ \A g \in Handler \ {h} : handler'[g] = handler[g]
    BY <1>2, <1>3, OthersGoOn DEF RegistryTypeOK
  <2>2. handler'[h] = Free
    BY <1>3, OthersGoOn
  <2> QED
    BY <1>1, <1>2, <1>3, <2>1, <2>2
       DEF Numbered, Bought, ReadRight, Returned, NoneForgotten, Works, Ours
<1>4. CASE /\ refs' = refs + 1 /\ owned' = owned \cup {o}
           /\ \/ /\ \E ref \in {refs + 1, NoRef} : Begins(h, "insert", n, 0, ref)
                 /\ UNCHANGED lost
              \/ Ends(h) /\ lost' = lost \cup {refs + 1}
  <2>1. /\ \A g \in Handler \ {h} : handler'[g] = handler[g]
        /\ \/ /\ \E ref \in {refs + 1, NoRef} :
                   handler'[h] = [stage |-> "insert", number |-> n, id |-> 0, ref |-> ref]
              /\ handler'[h] # Free
           \/ handler'[h] = Free
        /\ handler' \in [Handler -> Task \cup {Free}]
    <3>1. refs + 1 \in Ref /\ NoRef \in Ref
      BY <1>1 DEF Ref
    <3> QED
      BY <1>1, <1>4, <3>1, OthersGoOn, BeginsTask
  <2>2. RegistryTypeOK'
    BY <1>1, <1>2, <1>4, <2>1 DEF RegistryTypeOK
  <2>3. \A p \in owned : p.ref \in Nat /\ p.ref <= refs
    BY OwnedFields DEF Numbered
  <2>4. Numbered'
    <3>1. \A p, q \in owned' : p.ref <= refs' /\ (p.ref = q.ref => p = q)
      BY <1>1, <1>4, <2>3 DEF Numbered
    <3>2. ASSUME NEW k \in Number, registry[k] # NoRow
          PROVE  registry[k].ref \in Nat => registry[k].ref <= refs + 1
      BY <1>1, <3>2 DEF Numbered
    <3>3. ASSUME NEW g \in Handler, handler'[g] # Free
          PROVE  handler'[g].id <= ids /\ (handler'[g].ref \in Nat => handler'[g].ref <= refs + 1)
      <4>1. CASE g = h
        BY <1>1, <2>1, <3>3, <4>1, RegistryShape DEF RegistryTypeOK
      <4>2. CASE g # h
        BY <1>1, <2>1, <3>3, <4>2 DEF Numbered
      <4> QED
        BY <4>1, <4>2
    <3> QED
      BY <1>2, <1>4, <3>1, <3>2, <3>3 DEF Numbered
  <2>5. Bought'
    <3> SUFFICES ASSUME NEW g \in Handler, NEW p \in owned', Works(g, {"insert"})',
                        handler'[g].ref = p.ref
                 PROVE  handler'[g].number = p.number
      BY DEF Bought, Works
    <3>1. CASE g = h
      BY <1>1, <1>4, <2>1, <2>3, <3>1, RegistryShape DEF Works
    <3>2. CASE g # h
      <4>1. handler[g] # Free /\ handler'[g] = handler[g]
        BY <2>1, <3>2 DEF Works
      <4>2. CASE p \in owned
        BY <4>1, <4>2 DEF Bought, Works
      <4>3. CASE p = o
        <5>1. handler[g].ref = refs + 1
          BY <4>1, <4>3
        <5>2. handler[g].ref <= refs
          BY <1>1, <4>1, <5>1 DEF Numbered
        <5> QED
          BY <1>1, <5>1, <5>2
      <4> QED
        BY <1>4, <4>2, <4>3
    <3> QED
      BY <3>1, <3>2
  <2>6. ReadRight'
    BY <1>2, <2>1 DEF ReadRight, Works
  <2>7. Returned'
    <3> SUFFICES ASSUME NEW g \in Handler, Works(g, {"drop"})', NEW p \in owned',
                        p.ref = handler'[g].ref
                 PROVE  FALSE
      BY DEF Returned, Ours, Works
    <3>1. g # h /\ handler'[g] = handler[g] /\ handler[g] # Free
      BY <2>1 DEF Works
    <3>2. CASE p \in owned
      BY <3>1, <3>2 DEF Returned, Ours, Works
    <3>3. CASE p = o
      <4>1. handler[g].ref = refs + 1
        BY <3>1, <3>3
      <4>2. handler[g].ref <= refs
        BY <1>1, <3>1, <4>1 DEF Numbered
      <4> QED
        BY <1>1, <4>1, <4>2
    <3> QED
      BY <1>4, <3>2, <3>3
  <2>8. NoneForgotten'
    <3> SUFFICES ASSUME NEW p \in owned'
                 PROVE  \/ p.ref \in lost'
                        \/ registry[p.number] # NoRow /\ Names(registry[p.number].ref, p)
                        \/ \E g \in Handler : OnItsWay(g, p)'
      BY <1>2, Kept DEF Keeps
    <3>1. CASE p \in owned
      <4>1. \A g \in Handler : OnItsWay(g, p) => OnItsWay(g, p)'
        BY <1>1, <2>1 DEF OnItsWay
      <4> QED
        BY <1>4, <3>1, <4>1, Kept DEF Keeps
    <3>2. CASE p = o
      <4>1. CASE handler'[h] = Free
        <5>1. \A ref \in {refs + 1, NoRef} : ref \in Ref
          BY <1>1 DEF Ref
        <5>2. \A ref \in {refs + 1, NoRef} : ~Begins(h, "insert", n, 0, ref)
          BY <1>1, <4>1, <5>1, BeginsTask
        <5>3. lost' = lost \cup {refs + 1}
          BY <1>4, <5>2
        <5> QED
          BY <3>2, <5>3
      <4>2. CASE handler'[h] # Free
        BY <2>1, <3>2, <4>2 DEF OnItsWay, Names
      <4> QED
        BY <4>1, <4>2
    <3> QED
      BY <1>4, <3>1, <3>2
  <2> QED
    BY <2>2, <2>4, <2>5, <2>6, <2>7, <2>8
<1> QED
  BY <1>3, <1>4 DEF Buys

LEMMA InsertsInv == ASSUME RegistryInv, NEW h \in Handler, Inserts(h) PROVE RegistryInv'
<1> USE DEF RegistryInv
<1> DEFINE n == handler[h].number
           ref == handler[h].ref
<1>1. /\ Works(h, {"insert"}) /\ handler[h] # Free /\ n \in Number /\ ref \in Ref /\ ids \in Nat
      /\ UNCHANGED <<owned, refs>>
  BY TaskFields DEF Inserts, Works, RegistryTypeOK
<1>2. /\ handler'[h] = Free /\ handler' \in [Handler -> Task \cup {Free}]
      /\ \A g \in Handler \ {h} : handler'[g] = handler[g]
  BY OthersGoOn DEF Inserts
<1>3. Bought' /\ Returned'
  BY <1>1, <1>2 DEF Bought, Returned, Works, Ours
<1>4. CASE /\ registry[n] # NoRow
           /\ lost' = lost \cup Behind(h)
           /\ UNCHANGED <<registry, ids>>
  <2>1. RegistryTypeOK' /\ Numbered' /\ ReadRight'
    BY <1>1, <1>2, <1>4 DEF RegistryTypeOK, Numbered, ReadRight, Works
  <2>2. NoneForgotten'
    <3> SUFFICES ASSUME NEW o \in owned
                 PROVE  \/ o.ref \in lost'
                        \/ registry[o.number] # NoRow /\ Names(registry[o.number].ref, o)
                        \/ \E g \in Handler : OnItsWay(g, o)'
      BY <1>1, <1>4, Kept DEF Keeps
    <3>1. CASE OnItsWay(h, o)
      BY <1>4, <3>1, HeldIsBehind DEF OnItsWay
    <3>2. ASSUME NEW g \in Handler, g # h, OnItsWay(g, o) PROVE OnItsWay(g, o)'
      BY <1>2, <3>2 DEF OnItsWay
    <3> QED
      BY <1>4, <3>1, <3>2, Kept DEF Keeps
  <2> QED
    BY <1>3, <2>1, <2>2
<1>5. CASE /\ registry[n] = NoRow
           /\ registry' = [registry EXCEPT ![n] = [id |-> ids + 1, ref |-> ref]]
           /\ ids' = ids + 1 /\ UNCHANGED lost
  <2> DEFINE r == [id |-> ids + 1, ref |-> ref]
  <2>1. r \in Row /\ r # NoRow
    BY <1>1, RegistryShape DEF Row
  <2>2. registry'[n] = r /\ \A k \in Number \ {n} : registry'[k] = registry[k]
    BY <1>1, <1>5 DEF RegistryTypeOK
  <2>3. RegistryTypeOK'
    BY <1>1, <1>2, <1>5, <2>1 DEF RegistryTypeOK
  <2>4. Numbered'
    <3>1. ASSUME NEW k \in Number, registry'[k] # NoRow
          PROVE  /\ registry'[k].id <= ids + 1
                 /\ registry'[k].ref \in Nat => registry'[k].ref <= refs
      <4>1. CASE k = n
        BY <1>1, <2>2, <4>1 DEF Numbered
      <4>2. CASE k # n
        BY <1>1, <2>2, <3>1, <4>2, RowFields DEF Numbered
      <4> QED
        BY <4>1, <4>2
    <3>2. ASSUME NEW g \in Handler, handler'[g] # Free
          PROVE  handler'[g].id <= ids + 1 /\ (handler'[g].ref \in Nat => handler'[g].ref <= refs)
      BY <1>1, <1>2, <3>2, TaskFields DEF Numbered
    <3> QED
      BY <1>1, <1>5, <3>1, <3>2 DEF Numbered
  <2>5. ReadRight'
    <3> SUFFICES ASSUME NEW g \in Handler, Works(g, {"release", "drop", "delete"})',
                        registry'[handler'[g].number] # NoRow,
                        registry'[handler'[g].number].id = handler'[g].id
                 PROVE  registry'[handler'[g].number].ref = handler'[g].ref
      BY DEF ReadRight, Works
    <3>1. g # h /\ handler'[g] = handler[g] /\ handler[g] # Free
      BY <1>2 DEF Works
    <3>2. handler[g].number \in Number /\ handler[g].id \in Nat /\ handler[g].id <= ids
      BY <3>1, TaskFields DEF Numbered
    <3>3. handler[g].number # n
      BY <1>1, <2>2, <3>1, <3>2
    <3> QED
      BY <2>2, <3>1, <3>2, <3>3 DEF ReadRight, Works
  <2>6. NoneForgotten'
    <3> SUFFICES ASSUME NEW o \in owned
                 PROVE  \/ o.ref \in lost'
                        \/ registry'[o.number] # NoRow /\ Names(registry'[o.number].ref, o)
                        \/ \E g \in Handler : OnItsWay(g, o)'
      BY <1>1, Kept DEF Keeps
    <3>1. CASE o.ref \in lost
      BY <1>5, <3>1
    <3>2. CASE registry[o.number] # NoRow /\ Names(registry[o.number].ref, o)
      BY <1>5, <2>2, <3>2, OwnedFields
    <3>3. CASE \E g \in Handler : OnItsWay(g, o)
      <4>1. PICK g \in Handler : OnItsWay(g, o)
        BY <3>3
      <4>2. CASE g = h
        BY <2>1, <2>2, <4>1, <4>2 DEF OnItsWay
      <4>3. CASE g # h
        BY <1>2, <4>1, <4>3 DEF OnItsWay
      <4> QED
        BY <4>2, <4>3
    <3> QED
      BY <3>1, <3>2, <3>3, Kept DEF Keeps
  <2> QED
    BY <1>3, <2>3, <2>4, <2>5, <2>6
<1> QED
  BY <1>4, <1>5 DEF Inserts

LEMMA ReadsInv ==
  ASSUME RegistryInv, NEW h \in Handler, NEW n \in Number, ReleaseReads(h, n) \/ DeleteReads(h, n)
  PROVE  RegistryInv'
<1> USE DEF RegistryInv
<1>1. PICK stage \in {"release", "delete"} : Begins(h, stage, n, registry[n].id, registry[n].ref)
  BY DEF ReleaseReads, DeleteReads
<1>2. /\ handler[h] = Free /\ registry[n] # NoRow
      /\ UNCHANGED <<registry, owned, ids, refs, lost>>
  BY DEF ReleaseReads, DeleteReads
<1>3. /\ handler'[h] = [stage |-> stage, number |-> n, id |-> registry[n].id,
                        ref |-> registry[n].ref]
      /\ \A g \in Handler \ {h} : handler'[g] = handler[g]
  BY <1>1, OthersGoOn
<1>4. RegistryTypeOK'
  <2>1. /\ stage \in {"insert", "buy", "release", "drop", "delete"}
        /\ registry[n].id \in Nat /\ registry[n].ref \in Ref
    BY <1>2, RowFields
  <2>2. handler' \in [Handler -> Task \cup {Free}]
    BY <1>1, <2>1, BeginsTask
  <2> QED
    BY <1>2, <2>2 DEF RegistryTypeOK
<1>5. Numbered'
  <2>1. ASSUME NEW g \in Handler, handler'[g] # Free
        PROVE  handler'[g].id <= ids /\ (handler'[g].ref \in Nat => handler'[g].ref <= refs)
    BY <1>2, <1>3, <2>1 DEF Numbered
  <2> QED
    BY <1>2, <2>1 DEF Numbered
<1>6. Bought' /\ Returned'
  BY <1>2, <1>3 DEF Bought, Returned, Works, Ours
<1>7. ReadRight'
  BY <1>2, <1>3 DEF ReadRight, Works
<1>8. NoneForgotten'
  BY <1>2, <1>3 DEF NoneForgotten
<1> QED
  BY <1>4, <1>5, <1>6, <1>7, <1>8

LEMMA ReleasesInv == ASSUME RegistryInv, NEW h \in Handler, Releases(h) PROVE RegistryInv'
<1> USE DEF RegistryInv
<1> DEFINE n == handler[h].number
           id == handler[h].id
           ref == handler[h].ref
<1>1. /\ Works(h, {"release", "drop", "delete"}) /\ handler[h].stage = "release"
      /\ n \in Number /\ ref \in Ref /\ id \in Nat
      /\ UNCHANGED <<registry, ids, refs, lost>> /\ handler[h] # Free
  BY TaskFields DEF Releases, Works
<1>2. /\ owned' \subseteq owned
      /\ \A g \in Handler \ {h} : handler'[g] = handler[g]
      /\ handler' \in [Handler -> Task \cup {Free}]
      /\ \/ handler'[h] = Free
         \/ /\ handler'[h] = [stage |-> "drop", number |-> n, id |-> id, ref |-> ref]
            /\ owned' = Without(ref) \/ ref = NoRef
  <2>1. CASE ref = NoRef
    <3>1. UNCHANGED owned /\ Begins(h, "drop", n, id, ref)
      <4>1. ~Ours(ref)
        BY <2>1, OwnedFields DEF Ours
      <4>2. Begins(h, "drop", n, id, NoRef) => Begins(h, "drop", n, id, ref)
        BY <2>1
      <4> QED
        BY <2>1, <4>1, <4>2 DEF Releases
    <3> QED
      BY <1>1, <2>1, <3>1, OthersGoOn, BeginsTask
  <2>2. CASE ref # NoRef
    BY <1>1, <2>2, OthersGoOn, BeginsTask DEF Releases, Without
  <2> QED
    BY <2>1, <2>2
<1>3. RegistryTypeOK'
  BY <1>1, <1>2 DEF RegistryTypeOK
<1>4. Numbered'
  <2>1. ASSUME NEW g \in Handler, handler'[g] # Free
        PROVE  handler'[g].id <= ids /\ (handler'[g].ref \in Nat => handler'[g].ref <= refs)
    BY <1>1, <1>2, <2>1 DEF Numbered
  <2> QED
    BY <1>1, <1>2, <2>1 DEF Numbered
<1>5. Bought' /\ ReadRight'
  BY <1>1, <1>2 DEF Bought, ReadRight, Works
<1>6. Returned'
  BY <1>2, OwnedFields DEF Returned, Works, Ours, Without
<1>7. NoneForgotten'
  BY <1>1, <1>2 DEF NoneForgotten, Names
<1> QED
  BY <1>3, <1>4, <1>5, <1>6, <1>7

LEMMA DropsRowInv == ASSUME RegistryInv, NEW h \in Handler, Drops(h) PROVE RegistryInv'
<1> USE DEF RegistryInv
<1> DEFINE n == handler[h].number
           mine == registry[n] # NoRow /\ registry[n].id = handler[h].id
<1>1. /\ Works(h, {"release", "drop", "delete"}) /\ handler[h].stage \in {"drop", "delete"}
      /\ n \in Number /\ UNCHANGED <<owned, ids, refs>>
  BY TaskFields DEF Drops, Works
<1>2. /\ handler'[h] = Free /\ handler' \in [Handler -> Task \cup {Free}]
      /\ \A g \in Handler \ {h} : handler'[g] = handler[g]
  BY OthersGoOn DEF Drops
<1>3. /\ registry' = IF mine THEN [registry EXCEPT ![n] = NoRow] ELSE registry
      /\ lost' = IF mine /\ (handler[h].stage = "delete" \/ handler[h].ref = NoRef)
                 THEN lost \cup Behind(h) ELSE lost
  BY DEF Drops
<1>4. \A k \in Number : registry'[k] # NoRow => registry'[k] = registry[k]
  BY <1>1, <1>3 DEF RegistryTypeOK
<1>5. RegistryTypeOK'
  BY <1>1, <1>2, <1>3 DEF RegistryTypeOK
<1>6. Numbered'
  BY <1>1, <1>2, <1>4 DEF Numbered
<1>7. Bought' /\ Returned'
  BY <1>1, <1>2 DEF Bought, Returned, Works, Ours
<1>8. ReadRight'
  <2> SUFFICES ASSUME NEW g \in Handler, Works(g, {"release", "drop", "delete"})',
                      registry'[handler'[g].number] # NoRow,
                      registry'[handler'[g].number].id = handler'[g].id
               PROVE  registry'[handler'[g].number].ref = handler'[g].ref
    BY DEF ReadRight, Works
  <2>1. handler'[g] = handler[g] /\ handler[g] # Free
    BY <1>2 DEF Works
  <2> QED
    BY <1>4, <2>1, TaskFields DEF ReadRight, Works
<1>9. NoneForgotten'
  <2> SUFFICES ASSUME NEW o \in owned
               PROVE  \/ o.ref \in lost'
                      \/ registry'[o.number] # NoRow /\ Names(registry'[o.number].ref, o)
                      \/ \E g \in Handler : OnItsWay(g, o)'
    BY <1>1, Kept DEF Keeps
  <2>1. CASE registry[o.number] # NoRow /\ Names(registry[o.number].ref, o)
    <3>1. CASE mine /\ o.number = n
      <4>1. Names(handler[h].ref, o)
        BY <1>1, <2>1, <3>1 DEF ReadRight
      <4>2. handler[h].stage = "delete" \/ handler[h].ref = NoRef
        BY <1>1, <4>1 DEF Returned, Works, Ours, Names
      <4> QED
        BY <1>3, <3>1, <4>1, <4>2, HeldIsBehind
    <3>2. CASE ~(mine /\ o.number = n)
      BY <1>1, <1>3, <2>1, <3>2, OwnedFields DEF RegistryTypeOK
    <3> QED
      BY <3>1, <3>2
  <2>2. CASE \E g \in Handler : OnItsWay(g, o)
    <3>1. PICK g \in Handler : OnItsWay(g, o)
      BY <2>2
    <3>2. g # h
      BY <1>1, <3>1 DEF OnItsWay
    <3> QED
      BY <1>2, <3>1, <3>2 DEF OnItsWay
  <2>3. CASE o.ref \in lost
    BY <1>3, <2>3
  <2> QED
    BY <2>1, <2>2, <2>3, Kept DEF Keeps
<1> QED
  BY <1>5, <1>6, <1>7, <1>8, <1>9

LEMMA HandlerBreaksInv ==
  ASSUME RegistryInv, NEW h \in Handler, HandlerBreaks(h) PROVE RegistryInv'
<1> USE DEF RegistryInv
<1>1. handler[h] # Free /\ UNCHANGED <<registry, owned, ids, refs>>
  BY DEF HandlerBreaks
<1>2. /\ handler'[h] = Free /\ handler' \in [Handler -> Task \cup {Free}]
      /\ \A g \in Handler \ {h} : handler'[g] = handler[g]
  BY OthersGoOn DEF HandlerBreaks
<1>3. RegistryTypeOK' /\ Numbered'
  BY <1>1, <1>2 DEF RegistryTypeOK, Numbered
<1>4. Bought' /\ ReadRight' /\ Returned'
  BY <1>1, <1>2 DEF Bought, ReadRight, Returned, Works, Ours
<1>5. NoneForgotten'
  <2> SUFFICES ASSUME NEW o \in owned
               PROVE  \/ o.ref \in lost'
                      \/ registry[o.number] # NoRow /\ Names(registry[o.number].ref, o)
                      \/ \E g \in Handler : OnItsWay(g, o)'
    BY <1>1, Kept DEF Keeps
  <2>1. CASE OnItsWay(h, o)
    BY <2>1, HeldIsBehind DEF HandlerBreaks, OnItsWay
  <2>2. ASSUME NEW g \in Handler, g # h, OnItsWay(g, o) PROVE OnItsWay(g, o)'
    BY <1>2, <2>2 DEF OnItsWay
  <2>3. CASE o.ref \in lost
    BY <2>3 DEF HandlerBreaks
  <2> QED
    BY <2>1, <2>2, <2>3, Kept DEF Keeps
<1> QED
  BY <1>3, <1>4, <1>5

LEMMA RegistryNextInv == RegistryInv /\ [RegistryNext]_registryVars => RegistryInv'
<1>1. RegistryInv /\ UNCHANGED registryVars => RegistryInv'
  BY DEF registryVars, RegistryInv, RegistryTypeOK, Numbered, Bought, ReadRight, Returned,
         NoneForgotten, Works, Ours
<1> QED
  BY <1>1, ChecksInv, BuysInv, InsertsInv, ReadsInv, ReleasesInv, DropsRowInv, HandlerBreaksInv
     DEF RegistryNext

\* For any numbers and any requests at once, what the account pays for is in the
\* registry, on its way there, or in lost (routes/numbers.ts, lib/phone-numbers.ts).
THEOREM NumbersKept == RegistrySpec => []NoneForgotten
<1>1. RegistryInv => NoneForgotten
  BY DEF RegistryInv
<1> QED
  BY RegistryInitInv, RegistryNextInv, <1>1, PTL DEF RegistrySpec
=============================================================================
