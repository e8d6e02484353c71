----------------------------- MODULE NumberRegistry -----------------------------
(***************************************************************************)
(* The registry of phone numbers (routes/numbers.ts) beside the numbers    *)
(* the account pays LiveKit for (lib/phone-numbers.ts).  A handler reads   *)
(* the registry, calls the provider and writes the registry: three steps,  *)
(* with other requests and failures between them.                          *)
(***************************************************************************)
EXTENDS Naturals

CONSTANTS
  Number, Handler,
  External,     \* provider_ref of a number registered by hand ("telnyx")
  NoRef,        \* null, of one the provider sold without telling its id
  NoRow, Free,  \* no row of a number; a handler with nothing to do
  MaxIds, MaxRefs   \* bounds on rows made and numbers bought

Ref  == Nat \cup {External, NoRef}    \* the provider counts its numbers from 1
Row  == [id : Nat, ref : Ref]
Task == [stage : {"insert", "buy", "release", "drop", "delete"}, number : Number,
         id : Nat, ref : Ref]

ASSUME RegistryShape ==
  /\ {External, NoRef} \cap Nat = {} /\ External # NoRef /\ NoRow \notin Row /\ Free \notin Task

VARIABLES
  registry,     \* phone_numbers by e164 (which is UNIQUE): its id and provider_ref
  owned,        \* the account at LiveKit: numbers with the provider's ids
  handler,      \* what a handler holds between its statements
  ids, refs,    \* ids given out, to rows and by the provider
  lost          \* owned numbers the registry was made to forget

registryVars == <<registry, owned, handler, ids, refs, lost>>

RegistryInit ==
  /\ registry = [n \in Number |-> NoRow] /\ owned = {}
  /\ handler = [h \in Handler |-> Free] /\ ids = 0 /\ refs = 0 /\ lost = {}

Ours(ref)     == \E o \in owned : o.ref = ref
Without(ref)  == {o \in owned : o.ref # ref}

\* The numbers of the account that only what the handler holds leads to: the one it has
\* the id of, or, without an id, the one of that number; none, if LiveKit did not sell it.
Behind(h) ==
  IF handler[h].ref = NoRef THEN {o.ref : o \in {p \in owned : p.number = handler[h].number}}
  ELSE {handler[h].ref} \ {External}

Begins(h, stage, n, id, ref) ==
  handler' = [handler EXCEPT ![h] = [stage |-> stage, number |-> n, id |-> id, ref |-> ref]]
Ends(h) == handler' = [handler EXCEPT ![h] = Free]

\* POST /numbers and /numbers/purchase: the number must be new to the registry.
RegisterChecks(h, n) ==
  /\ handler[h] = Free /\ registry[n] = NoRow
  /\ Begins(h, "insert", n, 0, External)
  /\ UNCHANGED <<registry, owned, ids, refs, lost>>

PurchaseChecks(h, n) ==
  /\ handler[h] = Free /\ registry[n] = NoRow
  /\ Begins(h, "buy", n, 0, External)
  /\ UNCHANGED <<registry, owned, ids, refs, lost>>

\* PurchasePhoneNumber: sold, and then the answer arrives, with the number's id or (a
\* field the code reads with a `?? null`) without, or is lost on its way; or refused, as
\* a number that is ours already is.
Buys(h) ==
  /\ handler[h] # Free /\ handler[h].stage = "buy"
  /\ \/ /\ refs < MaxRefs /\ \A o \in owned : o.number # handler[h].number
        /\ refs' = refs + 1
        /\ owned' = owned \cup {[ref |-> refs', number |-> handler[h].number]}
        /\ \/ /\ \E ref \in {refs', NoRef} : Begins(h, "insert", handler[h].number, 0, ref)
              /\ UNCHANGED lost
           \/ Ends(h) /\ lost' = lost \cup {refs'}
     \/ Ends(h) /\ UNCHANGED <<owned, refs, lost>>
  /\ UNCHANGED <<registry, ids>>

\* The INSERT; e164 is UNIQUE, and a handler that comes second gets a 500.
Inserts(h) ==
  /\ handler[h] # Free /\ handler[h].stage = "insert" /\ ids < MaxIds
  /\ LET n == handler[h].number IN
     IF registry[n] = NoRow
     THEN /\ registry' = [registry EXCEPT ![n] = [id |-> ids + 1, ref |-> handler[h].ref]]
          /\ ids' = ids + 1 /\ UNCHANGED lost
     ELSE /\ lost' = lost \cup Behind(h)
          /\ UNCHANGED <<registry, ids>>
  /\ Ends(h)
  /\ UNCHANGED <<owned, refs>>

\* POST /numbers/:id/release reads the row.
ReleaseReads(h, n) ==
  /\ handler[h] = Free /\ registry[n] # NoRow
  /\ Begins(h, "release", n, registry[n].id, registry[n].ref)
  /\ UNCHANGED <<registry, owned, ids, refs, lost>>

\* Mutant: a release the provider refuses goes on, as cancelCall does.
ReleasesM(h) ==
  /\ handler[h] # Free /\ handler[h].stage = "release"
  /\ owned' \in {owned, Without(handler[h].ref)}
  /\ Begins(h, "drop", handler[h].number, handler[h].id, handler[h].ref)
  /\ UNCHANGED <<registry, ids, refs, lost>>

\* ReleasePhoneNumbers: done; or refused, as for an id the account does not have, or
\* the answer is lost, and the row stays.  Without a provider_ref it is not called, and
\* the row goes.
Releases(h) ==
  /\ handler[h] # Free /\ handler[h].stage = "release"
  /\ \/ /\ handler[h].ref = NoRef /\ UNCHANGED owned
        /\ Begins(h, "drop", handler[h].number, handler[h].id, NoRef)
     \/ /\ Ours(handler[h].ref)
        /\ owned' = Without(handler[h].ref)
        /\ \/ Begins(h, "drop", handler[h].number, handler[h].id, handler[h].ref)
           \/ Ends(h)
     \/ handler[h].ref # NoRef /\ Ends(h) /\ UNCHANGED owned
  /\ UNCHANGED <<registry, ids, refs, lost>>

\* DELETE /numbers/:id reads the row.
DeleteReads(h, n) ==
  /\ handler[h] = Free /\ registry[n] # NoRow
  /\ Begins(h, "delete", n, registry[n].id, registry[n].ref)
  /\ UNCHANGED <<registry, owned, ids, refs, lost>>

\* The DELETE, by the row's id.  Without a release by the provider, on its own or of a
\* row that has no provider_ref, it makes the registry forget what the account goes on
\* paying for.
Drops(h) ==
  /\ handler[h] # Free /\ handler[h].stage \in {"drop", "delete"}
  /\ LET n == handler[h].number
         mine == registry[n] # NoRow /\ registry[n].id = handler[h].id
     IN /\ registry' = IF mine THEN [registry EXCEPT ![n] = NoRow] ELSE registry
        /\ lost' = IF mine /\ (handler[h].stage = "delete" \/ handler[h].ref = NoRef)
                    THEN lost \cup Behind(h) ELSE lost
  /\ Ends(h)
  /\ UNCHANGED <<owned, ids, refs>>

\* A statement throws, or the gateway restarts.
HandlerBreaks(h) ==
  /\ handler[h] # Free
  /\ lost' = IF handler[h].stage = "insert" THEN lost \cup Behind(h) ELSE lost
  /\ Ends(h)
  /\ UNCHANGED <<registry, owned, ids, refs>>

RegistryNext ==
  \E h \in Handler :
    \/ Buys(h) \/ Inserts(h) \/ Releases(h) \/ Drops(h) \/ HandlerBreaks(h)
    \/ \E n \in Number : \/ RegisterChecks(h, n) \/ PurchaseChecks(h, n)
                         \/ ReleaseReads(h, n) \/ DeleteReads(h, n)

RegistrySpec == RegistryInit /\ [][RegistryNext]_registryVars

-----------------------------------------------------------------------------
\* What the account pays for is in the registry, by its id or at least by its number, or
\* the purchase is still about to put it there: a release that fails half-way, two at
\* once, or one that meets a DELETE or a new purchase of the number never leave a paid
\* number that no row names.  What does is in lost: a purchase cut short, a DELETE, and
\* the release of a number whose id the purchase did not tell (numbers.ts:123, 145).
Names(ref, o) == ref \in {o.ref, NoRef}

NoneForgotten ==
  \A o \in owned :
    \/ o.ref \in lost
    \/ registry[o.number] # NoRow /\ Names(registry[o.number].ref, o)
    \/ \E h \in Handler : /\ handler[h] # Free /\ handler[h].stage = "insert"
                          /\ handler[h].number = o.number /\ Names(handler[h].ref, o)

\* What is not so: a release that succeeds has given the number back.  (numbers.ts:137
\* says "ReleasePhoneNumbers, then drop the registry row"; a row without a provider_ref
\* is only dropped.)
ReleaseGivesBack == \A h \in Handler :
  handler[h] # Free /\ handler[h].stage = "drop" => \A o \in owned : o.ref \notin Behind(h)
=============================================================================
