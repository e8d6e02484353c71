--------------------------- MODULE MCAgentVersions ---------------------------
(* One key every config has and one optional key; two values. *)
EXTENDS AgentVersions

CONSTANTS name, flow

MCComplete == {c \in Config : name \in DOMAIN c}
MCPatch    == {c \in Config : Cardinality(DOMAIN c) = 1}
=============================================================================
