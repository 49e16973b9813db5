---------------------------- MODULE SessionVault ----------------------------
(***************************************************************************)
(* pii/anonymize/vault.go, type SessionVault: the two-way mapping of one   *)
(* session, shared by the goroutines of the requests of that session.      *)
(* PlaceholderFor looks the entity up under the read lock, releases it,    *)
(* and allocates under the write lock after looking a second time; so it   *)
(* is two steps here, with any step of another goroutine in between.       *)
(* Resolve, ScanLeak and Purge hold the lock throughout: one step each.    *)
(***************************************************************************)
EXTENDS Naturals

CONSTANTS Types, Values,
          Procs,      \* goroutines that use the vault
          NoEntity    \* "this goroutine is not inside PlaceholderFor"

Entities     == Types \X Values
Placeholders == Types \X Nat

ASSUME VaultAssumption == NoEntity \notin Entities

VARIABLES forward,   \* entity -> placeholder, a map with a growing domain
          reverse,   \* placeholder -> value
          counters,  \* next ordinal of each type
          wanted,    \* the entity a goroutine missed under the read lock
          issued     \* history: <<entity, placeholder>> returned since the last Purge

vars == <<forward, reverse, counters, wanted, issued>>

\* m[k] = v of Go, on a function whose domain holds the keys that are present.
Put(m, k, v) == [x \in DOMAIN m \cup {k} |-> IF x = k THEN v ELSE m[x]]

EmptyMap == [x \in {} |-> x]

TypeOK ==
  /\ DOMAIN forward \subseteq Entities
  /\ forward \in [DOMAIN forward -> Placeholders]
  /\ DOMAIN reverse \subseteq Placeholders
  /\ reverse \in [DOMAIN reverse -> Values]
  /\ counters \in [Types -> Nat]
  /\ wanted \in [Procs -> Entities \cup {NoEntity}]
  /\ issued \subseteq Entities \X Placeholders

Init ==
  /\ forward = EmptyMap
  /\ reverse = EmptyMap
  /\ counters = [t \in Types |-> 0]
  /\ wanted = [p \in Procs |-> NoEntity]
  /\ issued = {}

-----------------------------------------------------------------------------
\* PlaceholderFor, first half: the lookup under RLock.  A hit returns.
Lookup(g, e) ==
  /\ wanted[g] = NoEntity
  /\ IF e \in DOMAIN forward
       THEN /\ issued' = issued \cup {<<e, forward[e]>>}
            /\ UNCHANGED wanted
       ELSE /\ wanted' = [wanted EXCEPT ![g] = e]
            /\ UNCHANGED issued
  /\ UNCHANGED <<forward, reverse, counters>>

\* Second half, after the read lock was given up and the write lock taken:
\* another goroutine allocated meanwhile, and its placeholder is returned ...
LookupAgain(g) ==
  /\ wanted[g] # NoEntity
  /\ wanted[g] \in DOMAIN forward
  /\ issued' = issued \cup {<<wanted[g], forward[wanted[g]]>>}
  /\ wanted' = [wanted EXCEPT ![g] = NoEntity]
  /\ UNCHANGED <<forward, reverse, counters>>

\* ... or the next ordinal of the type is taken.
MissedOnce(g)  == wanted[g] # NoEntity
MissedTwice(g) == wanted[g] # NoEntity /\ wanted[g] \notin DOMAIN forward

SameCounters(t)    == counters
AdvanceCounters(t) == [counters EXCEPT ![t] = @ + 1]

Allocate(g) ==
  /\ MissedTwice(g)
  /\ LET e == wanted[g]
         p == <<e[1], counters[e[1]]>>
     IN /\ counters' = AdvanceCounters(e[1])
        /\ forward' = Put(forward, e, p)
        /\ reverse' = Put(reverse, p, e[2])
        /\ issued' = issued \cup {<<e, p>>}
  /\ wanted' = [wanted EXCEPT ![g] = NoEntity]

\* Purge deletes every key of the three maps, under a goroutine's feet if one
\* is between its two lookups.
KeptCounters    == counters
ClearedCounters == [t \in Types |-> 0]

Purge ==
  /\ forward' = EmptyMap
  /\ reverse' = EmptyMap
  /\ counters' = ClearedCounters
  /\ issued' = {}
  /\ UNCHANGED wanted

Next ==
  \/ \E g \in Procs : \/ \E e \in Entities : Lookup(g, e)
                      \/ LookupAgain(g)
                      \/ Allocate(g)
  \/ Purge

Spec == Init /\ [][Next]_vars

-----------------------------------------------------------------------------
\* Resolve(placeholder): the set of its answers, empty when it is unknown.
Resolve(p) == {reverse[q] : q \in DOMAIN reverse \cap {p}}

\* ScanLeak(payload): the types of the registered values a payload still holds.
ScanLeak(payload) == {p[1] : p \in {q \in DOMAIN reverse : reverse[q] \in payload}}

\* AuditCounts: how many placeholders of each type are registered.
AuditCounts(t) == {p \in DOMAIN reverse : p[1] = t}

-----------------------------------------------------------------------------
\* Within one life of the mapping (between two Purges) every caller gets the
\* same placeholder for an entity, and no placeholder stands for two entities,
\* however the two locked halves of PlaceholderFor interleave: "a given entity
\* keeps a stable placeholder", and two types with one value stay apart.
Agreement == \A a, b \in issued : (a[1] = b[1]) <=> (a[2] = b[2])

\* What Resolve gives back for a placeholder that was handed out is the value
\* it was handed out for.
RoundTrip == \A a \in issued : Resolve(a[2]) = {a[1][2]}

\* The final check before a payload leaves names the type of every value a
\* placeholder was handed out for and that is still in the payload.
ScanCatchesIssued ==
  \A a \in issued : \A payload \in SUBSET Values :
    a[1][2] \in payload => a[1][1] \in ScanLeak(payload)

\* The ordinals in use are 0 .. counters[t]-1: none is skipped or given twice,
\* so the audit view's count of a type is the number of its entities.
OrdinalsDense == \A t \in Types : AuditCounts(t) = {<<t, i>> : i \in 0 .. counters[t] - 1}

\* The vault is the pseudonym table it promises to be: a step of the locked
\* maps is one binding of a fresh placeholder, one erasure, or a stutter.
Abstract == INSTANCE Pseudonyms WITH table <- {<<e, forward[e]>> : e \in DOMAIN forward}
ImplementsPseudonyms == Abstract!Spec

-----------------------------------------------------------------------------
\* The inductive invariant behind them: a handed-out placeholder is the one the
\* forward map holds; forward and reverse are inverse to each other on the
\* value; forward is one-to-one; and the ordinals below a type's counter are
\* exactly the placeholders in the reverse map, so the next one is fresh.
IssuedInForward == \A a \in issued : a[1] \in DOMAIN forward /\ forward[a[1]] = a[2]
ForwardReverse ==
  \A e \in DOMAIN forward : /\ forward[e][1] = e[1]
                            /\ forward[e] \in DOMAIN reverse
                            /\ reverse[forward[e]] = e[2]
ForwardInjective ==
  \A e, f \in DOMAIN forward : forward[e] = forward[f] => e = f
CounterBounds ==
  /\ \A p \in DOMAIN reverse : p[2] < counters[p[1]]
  /\ \A t \in Types : \A i \in 0 .. counters[t] - 1 : <<t, i>> \in DOMAIN reverse
IInv == TypeOK /\ IssuedInForward /\ ForwardReverse /\ ForwardInjective /\ CounterBounds

=============================================================================
