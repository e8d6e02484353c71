------------------------------- MODULE MCHelpers -------------------------------
(* Five small parts that do not touch each other, explored side by side: the     *)
(* state space is the sum of theirs, since one of them moves in each behaviour.  *)
EXTENDS RollingMemory, LanguageAligner, LimitsCache, FlowEditor, NumberRegistry

CONSTANTS c1, c2, limits, daily, n1, n2, h1, h2

VARIABLE focus

vars == <<focus, flow, memoryVars, languageVars, cacheVars, registryVars>>

Node(i, kind, x) ==
  [id |-> i, kind |-> kind, block |-> kind = "router", channels |-> {}, closing |-> "no",
   objectives |-> <<>>, exits |-> [j \in DOMAIN x |-> [name |-> j, to |-> x[j]]]]

Flow == [entry |-> "ask", scenarios |-> <<[name |-> "stop", to |-> "tell"]>>,
         nodes |-> <<Node("ask", "agent", <<"pick">>),
                     Node("pick", "router", <<"ask", "tell">>),
                     Node("tell", "agent", <<None>>)>>]

Init ==
  /\ focus \in {"memory", "language", "limits", "flow", "numbers"}
  /\ flow = Flow /\ MemoryInit /\ LanguageInit /\ CacheInit
  /\ RegistryInit

Next ==
  /\ UNCHANGED focus
  /\ \/ focus = "memory" /\ MemoryNext /\ UNCHANGED <<flow, languageVars, cacheVars, registryVars>>
     \/ focus = "language" /\ LanguageNext /\ UNCHANGED <<flow, memoryVars, cacheVars, registryVars>>
     \/ focus = "limits" /\ CacheNext /\ UNCHANGED <<flow, memoryVars, languageVars, registryVars>>
     \/ focus = "flow" /\ EditFlow /\ UNCHANGED <<memoryVars, languageVars, cacheVars, registryVars>>
     \/ focus = "numbers" /\ RegistryNext /\ UNCHANGED <<flow, memoryVars, languageVars, cacheVars>>

Spec == Init /\ [][Next]_vars

MCLang == <<"en", "es", "pt">>
MCSlug(x) == x
=============================================================================
