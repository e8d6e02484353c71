------------------------------ MODULE LimitsCache ------------------------------
(***************************************************************************)
(* The cached limits of one project (lib/concurrency.ts, routes/limits.ts):*)
(* a check of a call's capacity takes the limits from a cache, or reads    *)
(* them and fills it; a PUT changes the table and then drops the cache.    *)
(* A reader and a writer can overlap, so the fill may come too late.       *)
(***************************************************************************)
EXTENDS Naturals, Sequences

CONSTANTS
  Checker,        \* calls that check capacity at once
  Table,          \* concurrency_limits and daily_call_limits, each with its cache
  NoEntry,
  Ttl,            \* CACHE_TTL_MS
  MaxLag,         \* the longest a SELECT's answer takes to be used
  MaxPuts, Horizon

ASSUME CacheShape == {Ttl, MaxLag} \subseteq Nat \ {0}

VARIABLES
  clock,
  changed,        \* changed[t]: when each of the table's contents came to be; the
                  \* last one is what a SELECT reads
  cache,          \* cache[t]: which content, and when it expires
  check,          \* check[c]: a SELECT's answer on its way to the cache
  used,           \* the limits the last check went by
  dropping        \* a PUT has written and not yet dropped the cache

cacheVars == <<clock, changed, cache, check, used, dropping>>

CacheInit ==
  /\ clock = 0 /\ changed = [t \in Table |-> <<0>>] /\ cache = [t \in Table |-> NoEntry]
  /\ check = [c \in Checker |-> NoEntry] /\ used = NoEntry /\ dropping = FALSE

Use(t, n) == used' = [table |-> t, content |-> n, at |-> clock]

\* Mutant: an entry in the cache is good as long as it is there.
LiveM(t) == cache[t] # NoEntry

Live(t) == cache[t] # NoEntry /\ cache[t].expires > clock

\* getLimits, getDailyLimits
Hit(t) ==
  /\ Live(t)
  /\ Use(t, cache[t].content)
  /\ UNCHANGED <<clock, changed, cache, check, dropping>>

Select(c, t) ==
  /\ ~Live(t) /\ check[c] = NoEntry
  /\ check' = [check EXCEPT ![c] = [table |-> t, content |-> Len(changed[t]), at |-> clock]]
  /\ UNCHANGED <<clock, changed, cache, used, dropping>>

Fill(c) ==
  /\ check[c] # NoEntry
  /\ cache' = [cache EXCEPT ![check[c].table] =
                 [content |-> check[c].content, expires |-> clock + Ttl]]
  /\ Use(check[c].table, check[c].content)
  /\ check' = [check EXCEPT ![c] = NoEntry]
  /\ UNCHANGED <<clock, changed, dropping>>

\* PUT /limits, PUT /limits/daily: the write, and invalidateLimitsCache after it.
PutWrites(t) ==
  /\ ~dropping /\ Len(changed[t]) <= MaxPuts
  /\ changed' = [changed EXCEPT ![t] = Append(@, clock)]
  /\ dropping' = TRUE
  /\ UNCHANGED <<clock, cache, check, used>>

PutDrops ==
  /\ dropping
  /\ cache' = [t \in Table |-> NoEntry] /\ dropping' = FALSE
  /\ UNCHANGED <<clock, changed, check, used>>

\* The gateway restarts with an empty cache; a PUT is cut short.
Restart ==
  /\ cache' = [t \in Table |-> NoEntry] /\ check' = [c \in Checker |-> NoEntry]
  /\ dropping' = FALSE
  /\ UNCHANGED <<clock, changed, used>>

Tick ==
  /\ clock < Horizon
  /\ \A c \in Checker : check[c] # NoEntry => clock < check[c].at + MaxLag
  /\ clock' = clock + 1
  /\ UNCHANGED <<changed, cache, check, used, dropping>>

CacheNext ==
  \/ \E t \in Table : Hit(t) \/ PutWrites(t) \/ \E c \in Checker : Select(c, t)
  \/ \E c \in Checker : Fill(c)
  \/ PutDrops \/ Restart \/ Tick

CacheSpec == CacheInit /\ [][CacheNext]_cacheVars

-----------------------------------------------------------------------------
\* A limit that was changed stops being applied: even when a check filled the cache
\* behind a PUT, or the PUT died before it dropped it, no check goes by limits that were
\* replaced longer ago than the cache keeps an entry and a query takes.
StaleAtMostTtl ==
  used # NoEntry /\ used.content < Len(changed[used.table]) =>
    used.at <= changed[used.table][used.content + 1] + Ttl + MaxLag
=============================================================================
