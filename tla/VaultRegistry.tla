--------------------------- MODULE VaultRegistry ---------------------------
(***************************************************************************)
(* pii/anonymize/vault.go, type VaultRegistry: session vaults keyed by     *)
(* tenant and session, in shards with a lock each, reclaimed by age, and   *)
(* the requests that hold a vault between Get and their last restore (the  *)
(* gateway keeps one vault for redaction and restore; the sidecar's        *)
(* /v1/redact and /v1/restore each call Get).  A vault's contents are the  *)
(* pseudonym table that SessionVault implements, for one entity type: the  *)
(* ordinals of two types are independent.                                  *)
(*                                                                         *)
(* A vault is created once and its age is never renewed.  Purging empties  *)
(* the object in place, also when a request still holds it.  An object     *)
(* that is neither registered nor held is garbage: its address is free.    *)
(***************************************************************************)
EXTENDS Naturals, FiniteSets

CONSTANTS Tenants, Sessions, Values,
          Requests,    \* goroutines that call Get and use the vault
          Objects,     \* addresses of SessionVault objects
          NShards,     \* vaultShards
          ShardOf,     \* the hash of the composite key
          MaxPerShard,
          TTL,
          None

Refs   == Tenants \X Sessions
Shards == 1 .. NShards
NoSession == CHOOSE ref \in Refs : TRUE   \* of a request that holds no vault

ASSUME RegistryAssumption ==
  /\ NShards \in Nat \ {0} /\ MaxPerShard \in Nat \ {0} /\ TTL \in Nat \ {0}
  /\ ShardOf \in [Refs -> Shards]
  /\ IsFiniteSet(Refs) /\ Refs # {}
  /\ None \notin Objects

VARIABLES
  slot,     \* shard.vaults: the registered vault of a session, or None
  owner,    \* the session an object was last created for
  left,     \* ttl - time.Since(createdAt), not below 0, while registered
  table,    \* the <<value, ordinal>> pairs an object maps
  next,     \* its counter
  held,     \* the object a request holds, or None
  caller,   \* the session a request works for
  walk,     \* PurgeTenant / PurgeAll: the tenants to erase and the shards walked
  due,      \* history: the objects registered for them when the walk began
  seen      \* history: the values each session's own requests have redacted

vars == <<slot, owner, left, table, next, held, caller, walk, due, seen>>

Idle == [tenants |-> {}, done |-> 0]

TypeOK ==
  /\ slot \in [Refs -> Objects \cup {None}]
  /\ owner \in [Objects -> Refs]
  /\ left \in [Objects -> 0 .. TTL]
  /\ table \in [Objects -> SUBSET (Values \X Nat)]
  /\ next \in [Objects -> Nat]
  /\ held \in [Requests -> Objects \cup {None}]
  /\ caller \in [Requests -> Refs]
  /\ walk \in [tenants : SUBSET Tenants, done : 0 .. NShards]
  /\ due \subseteq Objects
  /\ seen \in [Refs -> SUBSET Values]

Init ==
  /\ slot = [ref \in Refs |-> None]
  /\ owner = [o \in Objects |-> NoSession]
  /\ left = [o \in Objects |-> 0]
  /\ table = [o \in Objects |-> {}]
  /\ next = [o \in Objects |-> 0]
  /\ held = [r \in Requests |-> None]
  /\ caller = [r \in Requests |-> NoSession]
  /\ walk = Idle
  /\ due = {}
  /\ seen = [ref \in Refs |-> {}]

-----------------------------------------------------------------------------
Registered(ref)  == slot[ref] # None
Expired(ref)     == left[slot[ref]] = 0
InShard(s)       == {ref \in Refs : ShardOf[ref] = s /\ Registered(ref)}
UnexpiredIn(s)   == {ref \in InShard(s) : ~Expired(ref)}
ExpiredIn(s)     == {ref \in InShard(s) : Expired(ref)}
Free(o)          == (\A ref \in Refs : slot[ref] # o) /\ (\A r \in Requests : held[r] # o)

\* The address of a new object: a free one, and which does not matter.
Fresh == CHOOSE o \in Objects : Free(o)

\* Purge and delete the vaults of some sessions, holding their shard's lock.
\* Unlinked is the registry without them; the objects are cleared in place.
NothingUnlinked(refs) == slot
Unlinked(refs) == [ref \in Refs |-> IF ref \in refs THEN None ELSE slot[ref]]
Emptied(refs)  ==
  [o \in Objects |-> IF \E ref \in refs : slot[ref] = o THEN {} ELSE table[o]]
Restarted(refs) ==
  [o \in Objects |-> IF \E ref \in refs : slot[ref] = o THEN 0 ELSE next[o]]

Forgotten(refs) ==
  [o \in Objects |-> IF \E ref \in refs : slot[ref] = o THEN 0 ELSE left[o]]

PurgeSessions(refs) ==
  /\ slot' = Unlinked(refs)
  /\ table' = Emptied(refs)
  /\ next' = Restarted(refs)
  /\ left' = Forgotten(refs)

\* The lookup under the composite key (SessionRef.key): a vault or None.
FoundBySession(ref) ==
  LET same == {q \in Refs : q[2] = ref[2] /\ Registered(q)}
  IN IF same = {} THEN None ELSE slot[CHOOSE q \in same : TRUE]
Found(ref) == slot[ref]

\* Get, the session has a vault within its time: it is shared.
GetExisting(r, ref) ==
  /\ held[r] = None
  /\ Found(ref) # None /\ left[Found(ref)] > 0
  /\ held' = [held EXCEPT ![r] = Found(ref)]
  /\ caller' = [caller EXCEPT ![r] = ref]
  /\ UNCHANGED <<slot, owner, left, table, next, walk, due, seen>>

\* The shard's room for one more, once its expired vaults are collected.
Unexpired(ref)      == Cardinality(InShard(ShardOf[ref]) \ ExpiredIn(ShardOf[ref]))
HasRoomForTwo(ref)  == Unexpired(ref) <= MaxPerShard
HasRoom(ref)        == Unexpired(ref) < MaxPerShard

\* Get, otherwise: every expired vault of the shard is purged (the session's own
\* first), and a new one is created if the shard has room.
GetNew(r, ref) ==
  /\ held[r] = None
  /\ ~(Found(ref) # None /\ left[Found(ref)] > 0)
  /\ HasRoom(ref)
  /\ LET gone == ExpiredIn(ShardOf[ref])
     IN \E o \in Objects :
          /\ Free(o) /\ o = Fresh
          /\ slot' = [Unlinked(gone) EXCEPT ![ref] = o]
          /\ table' = [Emptied(gone) EXCEPT ![o] = {}]
          /\ next' = [Restarted(gone) EXCEPT ![o] = 0]
          /\ owner' = [owner EXCEPT ![o] = ref]
          /\ left' = [Forgotten(gone) EXCEPT ![o] = TTL]
          /\ held' = [held EXCEPT ![r] = o]
          /\ due' = due \ {o}
  /\ caller' = [caller EXCEPT ![r] = ref]
  /\ UNCHANGED <<walk, seen>>

\* Get, the shard is full of unexpired vaults: an error, after the collection.
GetRefused(r, ref) ==
  /\ held[r] = None
  /\ ~(Found(ref) # None /\ left[Found(ref)] > 0)
  /\ ~HasRoom(ref)
  /\ PurgeSessions(ExpiredIn(ShardOf[ref]))
  /\ UNCHANGED <<owner, held, caller, walk, due, seen>>

\* RedactTo: PlaceholderFor on the vault the request got, whatever became of it
\* since; the placeholder goes out in the text.
Redact(r, v) ==
  LET o == held[r]
      known == {b \in table[o] : b[1] = v}
      b == IF known # {} THEN CHOOSE k \in known : TRUE ELSE <<v, next[o]>>
  IN /\ o # None
     /\ table' = [table EXCEPT ![o] = @ \cup {b}]
     /\ next' = [next EXCEPT ![o] = IF known # {} THEN @ ELSE @ + 1]
     /\ seen' = [seen EXCEPT ![caller[r]] = @ \cup {v}]
     /\ UNCHANGED <<slot, owner, left, held, caller, walk, due>>

\* The request returns and drops its pointer; an unregistered vault nobody else
\* holds is garbage with its contents.
Return(r) ==
  LET o == held[r]
      orphan == /\ \A ref \in Refs : slot[ref] # o
                /\ \A q \in Requests \ {r} : held[q] # o
  IN /\ o # None
     /\ held' = [held EXCEPT ![r] = None]
     /\ table' = [table EXCEPT ![o] = IF orphan THEN {} ELSE @]
     /\ next' = [next EXCEPT ![o] = IF orphan THEN 0 ELSE @]
     /\ caller' = [caller EXCEPT ![r] = NoSession]
     /\ UNCHANGED <<slot, owner, left, walk, due, seen>>

\* Drop: the caller ends the session (/v1/session/end).
Drop(ref) ==
  /\ Registered(ref)
  /\ PurgeSessions({ref})
  /\ UNCHANGED <<owner, held, caller, walk, due, seen>>

\* The janitor's ticker reclaims one shard at a time.
Collect(s) ==
  /\ ExpiredIn(s) # {}
  /\ PurgeSessions(ExpiredIn(s))
  /\ UNCHANGED <<owner, held, caller, walk, due, seen>>

\* PurgeTenant and PurgeAll: one shard after the other, a lock at a time.
OwnedBy(ts) == {ref \in Refs : ref[1] \in ts /\ Registered(ref)}

BeginErase(ts) ==
  /\ walk = Idle
  /\ walk' = [tenants |-> ts, done |-> 0]
  /\ due' = {slot[ref] : ref \in OwnedBy(ts)}
  /\ UNCHANGED <<slot, owner, left, table, next, held, caller, seen>>

PreviousShard == walk.done
NextShard     == walk.done + 1

EraseShard ==
  LET refs == OwnedBy(walk.tenants) \cap InShard(NextShard)
  IN /\ walk.tenants # {}
     /\ walk.done < NShards
     /\ PurgeSessions(refs)
     /\ walk' = [walk EXCEPT !.done = @ + 1]
     /\ UNCHANGED <<owner, held, caller, due, seen>>

EndErase ==
  /\ walk.tenants # {} /\ walk.done = NShards
  /\ walk' = Idle
  /\ due' = {}
  /\ UNCHANGED <<slot, owner, left, table, next, held, caller, seen>>

\* Time passes for the registered vaults.
Tick ==
  /\ \E ref \in Refs : Registered(ref) /\ ~Expired(ref)
  /\ left' = [o \in Objects |->
       IF left[o] > 0 /\ (\E ref \in Refs : slot[ref] = o) THEN left[o] - 1 ELSE left[o]]
  /\ UNCHANGED <<slot, owner, table, next, held, caller, walk, due, seen>>

Next ==
  \/ \E r \in Requests :
       \/ \E ref \in Refs : GetExisting(r, ref) \/ GetNew(r, ref) \/ GetRefused(r, ref)
       \/ \E v \in Values : Redact(r, v)
       \/ Return(r)
  \/ \E ref \in Refs : Drop(ref)
  \/ \E s \in Shards : Collect(s)
  \/ \E ts \in {{t} : t \in Tenants} \cup {Tenants} : BeginErase(ts)
  \/ EraseShard \/ EndErase
  \/ Tick

Spec == Init /\ [][Next]_vars

\* The janitor's goroutine runs forever and walks every shard; time passes.
Fairness == WF_vars(Tick) /\ \A s \in Shards : WF_vars(Collect(s))
FairSpec == Spec /\ Fairness

-----------------------------------------------------------------------------
\* A request can only ever be given back a value that a request of its own
\* session redacted: whatever placeholder the model returns, the vault it holds
\* never maps it to a value of another session or another tenant.
TenantIsolation ==
  \A r \in Requests : held[r] # None =>
    \A b \in table[held[r]] : b[1] \in seen[caller[r]]

\* maxSessions is enforced per shard: no interleaving of Get, collection and
\* erasure leaves more vaults in a shard than it may hold.
ShardCapacity == \A s \in Shards : Cardinality(InShard(s)) <= MaxPerShard

\* When PurgeTenant has walked the last shard, none of the vaults the tenant had
\* when it began can still be reached through Get, although requests of the
\* tenant went on meanwhile and each shard was locked on its own.
EraseUnregisters ==
  walk.tenants # {} /\ walk.done = NShards =>
    \A ref \in Refs : slot[ref] \notin due

\* A conversation loses its vault only by age, by its own end or by an erasure
\* of its tenant: room for a new session is never made by evicting a live one.
OnlyExpiredEvicted ==
  [][\A ref \in Refs :
       slot[ref] # None /\ left[slot[ref]] > 0 /\ slot'[ref] # slot[ref]
         => \/ Drop(ref)
            \/ EraseShard /\ ref[1] \in walk.tenants]_vars

\* While its vault stays registered, everything a request redacted into it can
\* be read back: a collection, a Drop or an erasure elsewhere in the shard never
\* touches the vault of a conversation that goes on.
RegisteredReadable ==
  [][\A ref \in Refs :
       slot[ref] # None /\ slot'[ref] = slot[ref]
         => table[slot[ref]] \subseteq table'[slot[ref]]]_vars

\* No mapping of real values stays registered past its time: the janitor removes
\* what no Get comes by to remove.
ExpiredCollected ==
  \A ref \in Refs, o \in Objects :
    (slot[ref] = o /\ left[o] = 0) ~> ~(slot[ref] = o /\ left[o] = 0)

-----------------------------------------------------------------------------
\* The inductive invariant: a registered or held vault was created for the
\* session that reaches it, a vault maps only values its session redacted, and
\* a walk leaves nothing that was due in the shards behind it.
SlotOwner == \A ref \in Refs : slot[ref] # None => owner[slot[ref]] = ref
HeldOwner == \A r \in Requests : held[r] # None => owner[held[r]] = caller[r]
TableSeen == \A o \in Objects : \A b \in table[o] : b[1] \in seen[owner[o]]
WalkProgress ==
  \A ref \in Refs : slot[ref] \in due =>
    ref[1] \in walk.tenants /\ ShardOf[ref] > walk.done
IInv == /\ TypeOK /\ SlotOwner /\ HeldOwner /\ TableSeen
        /\ ShardCapacity /\ WalkProgress

=============================================================================
