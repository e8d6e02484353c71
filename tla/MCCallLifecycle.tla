--------------------------- MODULE MCCallLifecycle ---------------------------
(* Instances of CallLifecycle for TLC. *)
EXTENDS CallLifecycleProofs, TLC

CONSTANTS project, org

\* Worker jobs are interchangeable, and so are the ticks of one interval.
Interchangeable == Permutations(Job) \cup Permutations(DrainTick)

\* One limit on everything.
OneScope == [s \in Scope |-> Call]
CapOne   == [s \in Scope |-> 1]

\* A project limit on everything and a daily ceiling on one tenant's phone calls.
TenantScopes == [s \in Scope |-> IF s = org THEN Outbound \cup Inbound ELSE Call]
=============================================================================
