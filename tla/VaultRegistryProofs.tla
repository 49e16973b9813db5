------------------------ MODULE VaultRegistryProofs ------------------------
(***************************************************************************)
(* The registry's invariant, for any tenants, sessions, shards and         *)
(* requests: sessions are isolated, shards are bounded, and an erasure     *)
(* leaves no vault behind it.                                              *)
(***************************************************************************)
EXTENDS VaultRegistry, TLAPS, FiniteSetTheorems

LEMMA NoSessionIsOne == NoSession \in Refs
  BY RegistryAssumption DEF NoSession

LEMMA InitIInv == Init => IInv
  <1> SUFFICES ASSUME Init PROVE IInv
    OBVIOUS
  <1>1. NoSession \in Refs
    BY NoSessionIsOne
  <1>2. TypeOK
    BY <1>1, RegistryAssumption DEF Init, TypeOK, Idle
  <1>3. SlotOwner /\ HeldOwner /\ TableSeen /\ WalkProgress
    BY RegistryAssumption DEF Init, SlotOwner, HeldOwner, TableSeen, WalkProgress
  <1>4. ShardCapacity
    <2> SUFFICES ASSUME NEW s \in Shards PROVE Cardinality(InShard(s)) <= MaxPerShard
      BY DEF ShardCapacity
    <2>1. InShard(s) = {}
      BY DEF Init, InShard, Registered
    <2> QED BY <2>1, FS_EmptySet, RegistryAssumption
  <1> QED BY <1>2, <1>3, <1>4 DEF IInv

\* A shard is a finite set of sessions, and fewer registered sessions are never
\* more of them.
LEMMA ShardSmaller ==
  ASSUME IInv, NEW s \in Shards, InShard(s)' \subseteq InShard(s)
  PROVE  Cardinality(InShard(s)') <= MaxPerShard
  <1>1. IsFiniteSet(InShard(s))
    BY FS_Subset, RegistryAssumption DEF InShard
  <1>2. Cardinality(InShard(s)) \in Nat /\ Cardinality(InShard(s)) <= MaxPerShard
    BY <1>1, FS_CardinalityType DEF IInv, ShardCapacity
  <1>3. /\ IsFiniteSet(InShard(s)')
        /\ Cardinality(InShard(s)') <= Cardinality(InShard(s))
    BY <1>1, FS_Subset
  <1>4. Cardinality(InShard(s)') \in Nat
    BY <1>3, FS_CardinalityType
  <1> QED BY <1>2, <1>3, <1>4, RegistryAssumption

\* Purging registered vaults disturbs no other session: what is left of the
\* registry and of the tables satisfies the invariant.
LEMMA PurgeKeeps ==
  ASSUME IInv, NEW refs \in SUBSET Refs, PurgeSessions(refs),
         UNCHANGED <<owner, held, caller, seen, due>>,
         walk' \in [tenants : SUBSET Tenants, done : 0 .. NShards]
  PROVE  /\ TypeOK' /\ SlotOwner' /\ HeldOwner' /\ TableSeen' /\ ShardCapacity'
         /\ \A ref \in Refs : slot'[ref] = IF ref \in refs THEN None ELSE slot[ref]
  <1>1. \A ref \in Refs : slot'[ref] = IF ref \in refs THEN None ELSE slot[ref]
    BY DEF PurgeSessions, Unlinked
  <1>2. \A o \in Objects : table'[o] = table[o] \/ table'[o] = {}
    BY DEF PurgeSessions, Emptied
  <1>3. TypeOK'
    <2>1. slot' \in [Refs -> Objects \cup {None}]
      BY DEF PurgeSessions, Unlinked, IInv, TypeOK
    <2>2. table' \in [Objects -> SUBSET (Values \X Nat)]
      BY DEF PurgeSessions, Emptied, IInv, TypeOK
    <2>3. next' \in [Objects -> Nat] /\ left' \in [Objects -> 0 .. TTL]
      BY RegistryAssumption DEF PurgeSessions, Restarted, Forgotten, IInv, TypeOK
    <2> QED BY <2>1, <2>2, <2>3 DEF IInv, TypeOK
  <1>4. SlotOwner' /\ HeldOwner'
    BY <1>1 DEF IInv, SlotOwner, HeldOwner
  <1>5. TableSeen'
    BY <1>2 DEF IInv, TableSeen
  <1>6. ShardCapacity'
    <2> SUFFICES ASSUME NEW s \in Shards PROVE Cardinality(InShard(s)') <= MaxPerShard
      BY DEF ShardCapacity
    <2>1. InShard(s)' \subseteq InShard(s)
      BY <1>1 DEF InShard, Registered
    <2> QED BY <2>1, ShardSmaller
  <1> QED BY <1>1, <1>3, <1>4, <1>5, <1>6

\* Creating a vault: the object is fresh, so no other session reaches it, and
\* the shard had room once its expired vaults were gone.
LEMMA GetNewIInv ==
  ASSUME IInv, NEW r \in Requests, NEW ref \in Refs, GetNew(r, ref)
  PROVE  IInv'
  <1> DEFINE gone == ExpiredIn(ShardOf[ref])
  <1> PICK o \in Objects :
       /\ Free(o)
       /\ slot' = [Unlinked(gone) EXCEPT ![ref] = o]
       /\ table' = [Emptied(gone) EXCEPT ![o] = {}]
       /\ next' = [Restarted(gone) EXCEPT ![o] = 0]
       /\ owner' = [owner EXCEPT ![o] = ref]
       /\ left' = [Forgotten(gone) EXCEPT ![o] = TTL]
       /\ held' = [held EXCEPT ![r] = o]
       /\ due' = due \ {o}
    BY DEF GetNew
  <1>1. /\ held[r] = None
        /\ Cardinality(InShard(ShardOf[ref]) \ gone) < MaxPerShard
        /\ caller' = [caller EXCEPT ![r] = ref]
        /\ UNCHANGED <<walk, seen>>
    BY DEF GetNew, HasRoom, Unexpired
  <1>2. gone \subseteq Refs
    BY DEF ExpiredIn, InShard
  <1>3. \A q \in Refs : slot'[q] = IF q = ref THEN o ELSE IF q \in gone THEN None ELSE slot[q]
    BY DEF Unlinked
  <1>4. \A p \in Objects : p # o => table'[p] = table[p] \/ table'[p] = {}
    BY DEF Emptied
  <1>5. table'[o] = {} /\ owner'[o] = ref /\ (\A p \in Objects : p # o => owner'[p] = owner[p])
    BY DEF Emptied, IInv, TypeOK
  <1>6. \A q \in Requests : /\ held'[q] = IF q = r THEN o ELSE held[q]
                            /\ caller'[q] = IF q = r THEN ref ELSE caller[q]
    BY <1>1 DEF IInv, TypeOK
  <1> HIDE DEF gone
  <1>7. TypeOK'
    <2>1. slot' \in [Refs -> Objects \cup {None}]
      BY DEF Unlinked, IInv, TypeOK
    <2>2. table' \in [Objects -> SUBSET (Values \X Nat)]
      BY DEF Emptied, IInv, TypeOK
    <2>3. next' \in [Objects -> Nat]
      BY DEF Restarted, IInv, TypeOK
    <2>4. left' \in [Objects -> 0 .. TTL]
      BY RegistryAssumption DEF Forgotten, IInv, TypeOK
    <2>5. /\ owner' \in [Objects -> Refs] /\ held' \in [Requests -> Objects \cup {None}]
          /\ caller' \in [Requests -> Refs] /\ due' \subseteq Objects
      BY <1>1 DEF IInv, TypeOK
    <2> QED BY <2>1, <2>2, <2>3, <2>4, <2>5, <1>1 DEF IInv, TypeOK
  <1>8. SlotOwner'
    <2> SUFFICES ASSUME NEW q \in Refs, slot'[q] # None PROVE owner'[slot'[q]] = q
      BY DEF SlotOwner
    <2>1. CASE q = ref
      BY <2>1, <1>3, <1>5
    <2>2. CASE q # ref
      <3>1. slot'[q] = slot[q] /\ slot[q] # o /\ slot[q] \in Objects
        BY <2>2, <1>3 DEF Free, IInv, TypeOK
      <3> QED BY <3>1, <1>5 DEF IInv, SlotOwner
    <2> QED BY <2>1, <2>2
  <1>9. HeldOwner'
    <2> SUFFICES ASSUME NEW q \in Requests, held'[q] # None PROVE owner'[held'[q]] = caller'[q]
      BY DEF HeldOwner
    <2>1. CASE q = r
      BY <2>1, <1>5, <1>6
    <2>2. CASE q # r
      <3>1. held'[q] = held[q] /\ held[q] # o /\ held[q] \in Objects
        BY <2>2, <1>6 DEF Free, IInv, TypeOK
      <3> QED BY <3>1, <2>2, <1>5, <1>6 DEF IInv, HeldOwner
    <2> QED BY <2>1, <2>2
  <1>10. TableSeen'
    BY <1>1, <1>4, <1>5 DEF IInv, TableSeen
  <1>11. ShardCapacity'
    <2> SUFFICES ASSUME NEW s \in Shards PROVE Cardinality(InShard(s)') <= MaxPerShard
      BY DEF ShardCapacity
    <2>1. CASE s # ShardOf[ref]
      <3>1. InShard(s)' \subseteq InShard(s)
        BY <2>1, <1>3 DEF InShard, Registered
      <3> QED BY <3>1, ShardSmaller
    <2>2. CASE s = ShardOf[ref]
      <3> DEFINE rest == InShard(s) \ gone
      <3>1. InShard(s)' \subseteq rest \cup {ref}
        BY <2>2, <1>3 DEF InShard, Registered
      <3>2. IsFiniteSet(rest) /\ IsFiniteSet(rest \cup {ref})
        BY FS_Subset, FS_AddElement, RegistryAssumption DEF InShard
      <3>3. Cardinality(rest) \in Nat /\ Cardinality(rest \cup {ref}) <= Cardinality(rest) + 1
        <4> HIDE DEF rest
        <4>1. Cardinality(rest) \in Nat
          BY <3>2, FS_CardinalityType
        <4>2. Cardinality(rest \cup {ref}) = IF ref \in rest THEN Cardinality(rest) ELSE Cardinality(rest) + 1
          BY <3>2, FS_AddElement
        <4> QED BY <4>1, <4>2
      <3>4. /\ Cardinality(InShard(s)') <= Cardinality(rest \cup {ref})
            /\ IsFiniteSet(InShard(s)')
        BY <3>1, <3>2, FS_Subset
      <3>5. /\ Cardinality(InShard(s)') \in Nat /\ Cardinality(rest \cup {ref}) \in Nat
        BY <3>2, <3>4, FS_CardinalityType
      <3>6. Cardinality(rest) < MaxPerShard
        BY <2>2, <1>1
      <3> HIDE DEF rest
      <3> QED BY <3>3, <3>4, <3>5, <3>6, RegistryAssumption
    <2> QED BY <2>1, <2>2
  <1>12. WalkProgress'
    <2> SUFFICES ASSUME NEW q \in Refs, slot'[q] \in due'
                 PROVE  q[1] \in walk'.tenants /\ ShardOf[q] > walk'.done
      BY DEF WalkProgress
    <2>1. q # ref /\ q \notin gone
      BY <1>3, RegistryAssumption DEF IInv, TypeOK
    <2>2. slot[q] \in due
      BY <2>1, <1>3
    <2> QED BY <2>2, <1>1 DEF IInv, WalkProgress
  <1> QED BY <1>7, <1>8, <1>9, <1>10, <1>11, <1>12 DEF IInv

\* Steps that only purge, and leave the walk alone.
LEMMA PurgeIInv ==
  ASSUME IInv, NEW refs \in SUBSET Refs, PurgeSessions(refs),
         UNCHANGED <<owner, held, caller, seen, due, walk>>
  PROVE  IInv'
  <1>1. walk' \in [tenants : SUBSET Tenants, done : 0 .. NShards]
    BY DEF IInv, TypeOK
  <1>2. /\ TypeOK' /\ SlotOwner' /\ HeldOwner' /\ TableSeen' /\ ShardCapacity'
        /\ \A ref \in Refs : slot'[ref] = IF ref \in refs THEN None ELSE slot[ref]
    BY <1>1, PurgeKeeps
  <1>3. WalkProgress'
    BY <1>2, RegistryAssumption DEF IInv, TypeOK, WalkProgress
  <1> QED BY <1>2, <1>3 DEF IInv

LEMMA EraseShardIInv == IInv /\ EraseShard => IInv'
  <1> SUFFICES ASSUME IInv, EraseShard PROVE IInv'
    OBVIOUS
  <1> DEFINE s == NextShard
             refs == OwnedBy(walk.tenants) \cap InShard(s)
  <1>1. /\ PurgeSessions(refs) /\ refs \subseteq Refs
        /\ walk' = [walk EXCEPT !.done = @ + 1] /\ walk.done < NShards
        /\ UNCHANGED <<owner, held, caller, seen, due>>
    BY DEF EraseShard, InShard
  <1>2. walk' \in [tenants : SUBSET Tenants, done : 0 .. NShards]
    BY <1>1, RegistryAssumption DEF IInv, TypeOK
  <1>3. /\ TypeOK' /\ SlotOwner' /\ HeldOwner' /\ TableSeen' /\ ShardCapacity'
        /\ \A ref \in Refs : slot'[ref] = IF ref \in refs THEN None ELSE slot[ref]
    BY <1>1, <1>2, PurgeKeeps
  <1>4. WalkProgress'
    <2> SUFFICES ASSUME NEW ref \in Refs, slot'[ref] \in due'
                 PROVE  ref[1] \in walk'.tenants /\ ShardOf[ref] > walk'.done
      BY DEF WalkProgress
    <2>1. ref \notin refs /\ slot[ref] \in due /\ slot[ref] # None
      BY <1>1, <1>3, RegistryAssumption DEF IInv, TypeOK
    <2>2. ref[1] \in walk.tenants /\ ShardOf[ref] > walk.done
      BY <2>1 DEF IInv, WalkProgress
    <2>3. ShardOf[ref] # s
      BY <2>1, <2>2 DEF OwnedBy, InShard, Registered
    <2>4. walk'.tenants = walk.tenants /\ walk'.done = walk.done + 1
      BY <1>1 DEF IInv, TypeOK
    <2> QED BY <2>2, <2>3, <2>4, RegistryAssumption DEF NextShard, IInv, TypeOK, Shards
  <1> QED BY <1>3, <1>4 DEF IInv

\* An erasure begins with the registered vaults of its tenants, and a vault is
\* registered for one session only.
LEMMA BeginEraseIInv ==
  ASSUME IInv, NEW ts \in SUBSET Tenants, BeginErase(ts)
  PROVE  IInv'
  <1>1. /\ walk' = [tenants |-> ts, done |-> 0]
        /\ due' = {slot[ref] : ref \in OwnedBy(ts)}
        /\ UNCHANGED <<slot, owner, left, table, next, held, caller, seen>>
    BY DEF BeginErase
  <1>2. due' \subseteq Objects
    BY <1>1 DEF OwnedBy, Registered, IInv, TypeOK
  <1>3. TypeOK'
    BY <1>1, <1>2, RegistryAssumption DEF IInv, TypeOK
  <1>4. ShardCapacity'
    BY <1>1 DEF IInv, ShardCapacity, InShard, Registered
  <1>5. WalkProgress'
    <2> SUFFICES ASSUME NEW ref \in Refs, slot'[ref] \in due'
                 PROVE  ref[1] \in walk'.tenants /\ ShardOf[ref] > walk'.done
      BY DEF WalkProgress
    <2>1. PICK q \in OwnedBy(ts) : slot[q] = slot[ref]
      BY <1>1
    <2>2. q = ref /\ q[1] \in ts
      BY <2>1 DEF IInv, SlotOwner, OwnedBy, Registered
    <2> QED BY <2>2, <1>1, RegistryAssumption DEF Shards
  <1> QED BY <1>1, <1>3, <1>4, <1>5 DEF IInv, SlotOwner, HeldOwner, TableSeen

\* Redacting writes into the vault the request holds, which belongs to the
\* request's own session even when it is no longer registered.
LEMMA RedactIInv ==
  ASSUME IInv, NEW r \in Requests, NEW v \in Values, Redact(r, v)
  PROVE  IInv'
  <1> DEFINE o == held[r]
             known == {b \in table[o] : b[1] = v}
             b == IF known # {} THEN CHOOSE k \in known : TRUE ELSE <<v, next[o]>>
  <1>1. /\ o # None
        /\ table' = [table EXCEPT ![o] = @ \cup {b}]
        /\ next' = [next EXCEPT ![o] = IF known # {} THEN @ ELSE @ + 1]
        /\ seen' = [seen EXCEPT ![caller[r]] = @ \cup {v}]
        /\ UNCHANGED <<slot, owner, left, held, caller, walk, due>>
    BY DEF Redact
  <1>2. o \in Objects /\ owner[o] = caller[r] /\ caller[r] \in Refs
    BY <1>1 DEF IInv, TypeOK, HeldOwner
  <1>3. b \in Values \X Nat /\ b[1] = v
    BY <1>2 DEF IInv, TypeOK
  <1> HIDE DEF o, known, b
  <1>4. TypeOK'
    <2>1. table' \in [Objects -> SUBSET (Values \X Nat)]
      BY <1>1, <1>2, <1>3 DEF IInv, TypeOK
    <2>2. next' \in [Objects -> Nat] /\ seen' \in [Refs -> SUBSET Values]
      BY <1>1, <1>2 DEF IInv, TypeOK
    <2> QED BY <2>1, <2>2, <1>1 DEF IInv, TypeOK
  <1>5. TableSeen'
    <2>1. \A p \in Objects : \A c \in table'[p] : c \in table[p] \/ (p = o /\ c = b)
      BY <1>1, <1>2 DEF IInv, TypeOK
    <2>2. \A ref \in Refs : seen[ref] \subseteq seen'[ref]
      BY <1>1, <1>2 DEF IInv, TypeOK
    <2>3. v \in seen'[caller[r]]
      BY <1>1, <1>2 DEF IInv, TypeOK
    <2>4. \A p \in Objects : owner[p] \in Refs
      BY DEF IInv, TypeOK
    <2> QED BY <2>1, <2>2, <2>3, <2>4, <1>1, <1>2, <1>3 DEF IInv, TableSeen
  <1>6. ShardCapacity'
    BY <1>1 DEF IInv, ShardCapacity, InShard, Registered
  <1> QED BY <1>1, <1>4, <1>5, <1>6 DEF IInv, SlotOwner, HeldOwner, WalkProgress

LEMMA ReturnIInv ==
  ASSUME IInv, NEW r \in Requests, Return(r)
  PROVE  IInv'
  <1>1. /\ held' = [held EXCEPT ![r] = None]
        /\ \A o \in Objects : table'[o] = table[o] \/ table'[o] = {}
        /\ caller' = [caller EXCEPT ![r] = NoSession]
        /\ UNCHANGED <<slot, owner, left, walk, due, seen>>
    BY DEF Return, IInv, TypeOK
  <1>2. TypeOK'
    <2>1. /\ table' \in [Objects -> SUBSET (Values \X Nat)] /\ next' \in [Objects -> Nat]
          /\ held' \in [Requests -> Objects \cup {None}] /\ caller' \in [Requests -> Refs]
      BY NoSessionIsOne DEF Return, IInv, TypeOK
    <2> QED BY <1>1, <2>1 DEF IInv, TypeOK
  <1>3. HeldOwner' /\ TableSeen'
    BY <1>1 DEF IInv, TypeOK, HeldOwner, TableSeen
  <1>4. ShardCapacity'
    BY <1>1 DEF IInv, ShardCapacity, InShard, Registered
  <1> QED BY <1>1, <1>2, <1>3, <1>4 DEF IInv, SlotOwner, WalkProgress

LEMMA GetExistingIInv ==
  ASSUME IInv, NEW r \in Requests, NEW ref \in Refs, GetExisting(r, ref)
  PROVE  IInv'
  <1>1. /\ slot[ref] # None
        /\ held' = [held EXCEPT ![r] = slot[ref]] /\ caller' = [caller EXCEPT ![r] = ref]
        /\ UNCHANGED <<slot, owner, left, table, next, walk, due, seen>>
    BY DEF GetExisting, Found
  <1>2. TypeOK'
    BY <1>1 DEF IInv, TypeOK
  <1>3. HeldOwner'
    BY <1>1 DEF IInv, TypeOK, HeldOwner, SlotOwner
  <1>4. ShardCapacity'
    BY <1>1 DEF IInv, ShardCapacity, InShard, Registered
  <1> QED BY <1>1, <1>2, <1>3, <1>4 DEF IInv, SlotOwner, TableSeen, WalkProgress

LEMMA NextIInv == IInv /\ [Next]_vars => IInv'
  <1> SUFFICES ASSUME IInv, [Next]_vars PROVE IInv'
    OBVIOUS
  <1>1. ASSUME NEW r \in Requests, NEW ref \in Refs, GetExisting(r, ref) PROVE IInv'
    BY <1>1, GetExistingIInv
  <1>2. ASSUME NEW r \in Requests, NEW ref \in Refs, GetNew(r, ref) PROVE IInv'
    BY <1>2, GetNewIInv
  <1>3. ASSUME NEW r \in Requests, NEW ref \in Refs, GetRefused(r, ref) PROVE IInv'
    <2>1. ExpiredIn(ShardOf[ref]) \in SUBSET Refs
      BY DEF ExpiredIn, InShard
    <2> QED BY <1>3, <2>1, PurgeIInv DEF GetRefused
  <1>4. ASSUME NEW r \in Requests, NEW v \in Values, Redact(r, v) PROVE IInv'
    BY <1>4, RedactIInv
  <1>5. ASSUME NEW r \in Requests, Return(r) PROVE IInv'
    BY <1>5, ReturnIInv
  <1>6. ASSUME NEW ref \in Refs, Drop(ref) PROVE IInv'
    BY <1>6, PurgeIInv DEF Drop
  <1>7. ASSUME NEW s \in Shards, Collect(s) PROVE IInv'
    <2>1. ExpiredIn(s) \in SUBSET Refs
      BY DEF ExpiredIn, InShard
    <2> QED BY <1>7, <2>1, PurgeIInv DEF Collect
  <1>8. ASSUME NEW ts \in {{t} : t \in Tenants} \cup {Tenants}, BeginErase(ts) PROVE IInv'
    <2>1. ts \in SUBSET Tenants
      OBVIOUS
    <2> QED BY <1>8, <2>1, BeginEraseIInv
  <1>9. CASE EraseShard
    BY <1>9, EraseShardIInv
  <1>10. CASE EndErase
    <2>1. TypeOK'
      BY <1>10, RegistryAssumption DEF EndErase, Idle, IInv, TypeOK
    <2> QED BY <1>10, <2>1 DEF EndErase, IInv, SlotOwner, HeldOwner, TableSeen,
                               ShardCapacity, InShard, Registered, WalkProgress
  <1>11. CASE Tick
    <2>1. left' \in [Objects -> 0 .. TTL]
      BY <1>11, RegistryAssumption DEF Tick, IInv, TypeOK
    <2> QED BY <1>11, <2>1 DEF Tick, IInv, TypeOK, SlotOwner, HeldOwner, TableSeen,
                               ShardCapacity, InShard, Registered, WalkProgress
  <1>12. CASE UNCHANGED vars
    BY <1>12 DEF vars, IInv, TypeOK, SlotOwner, HeldOwner, TableSeen, ShardCapacity,
                 InShard, Registered, WalkProgress
  <1> QED BY <1>1, <1>2, <1>3, <1>4, <1>5, <1>6, <1>7, <1>8, <1>9, <1>10, <1>11, <1>12
          DEF Next

\* The registry's invariant holds for every number of tenants, sessions, shards,
\* requests and objects.
THEOREM RegistryInvariant == Spec => []IInv
  BY InitIInv, NextIInv, PTL DEF Spec

\* Whatever placeholder a model returns, a request can only be given a value
\* that its own session redacted: no cross-tenant and no cross-session restore.
THEOREM RegistryTenantIsolation == Spec => []TenantIsolation
  <1>1. IInv => TenantIsolation
    BY DEF IInv, TypeOK, HeldOwner, TableSeen, TenantIsolation
  <1> QED BY <1>1, RegistryInvariant, PTL

\* The per-shard limit holds in every state, not only at the check in Get.
THEOREM RegistryShardCapacity == Spec => []ShardCapacity
  <1>1. IInv => ShardCapacity
    BY DEF IInv
  <1> QED BY <1>1, RegistryInvariant, PTL

\* After the last shard of an erasure, none of the vaults that were due can be
\* reached through the registry.
THEOREM RegistryEraseUnregisters == Spec => []EraseUnregisters
  <1>1. IInv => EraseUnregisters
    BY RegistryAssumption DEF IInv, WalkProgress, EraseUnregisters, Shards
  <1> QED BY <1>1, RegistryInvariant, PTL

\* No live conversation is evicted to make room, or by the expiry of another.
THEOREM RegistryOnlyExpiredEvicted == Spec => OnlyExpiredEvicted
  <1>1. ASSUME IInv, [Next]_vars, NEW ref \in Refs,
               slot[ref] # None, left[slot[ref]] > 0, slot'[ref] # slot[ref]
        PROVE  Drop(ref) \/ (EraseShard /\ ref[1] \in walk.tenants)
    <2>1. \A s \in Shards : ref \notin ExpiredIn(s)
      BY <1>1 DEF ExpiredIn, Expired
    <2>2. ASSUME NEW s \in Shards, PurgeSessions(ExpiredIn(s)) PROVE FALSE
      BY <1>1, <2>1, <2>2 DEF PurgeSessions, Unlinked
    <2>3. ASSUME NEW r \in Requests, NEW q \in Refs, GetNew(r, q) PROVE FALSE
      <3>1. ShardOf[q] \in Shards
        BY RegistryAssumption
      <3>2. CASE q = ref
        BY <3>2, <2>3, <1>1 DEF GetNew, Found
      <3>3. CASE q # ref
        BY <3>1, <3>3, <2>1, <2>3, <1>1 DEF GetNew, Unlinked
      <3> QED BY <3>2, <3>3
    <2>4. ASSUME NEW r \in Requests, NEW q \in Refs, GetRefused(r, q) PROVE FALSE
      BY <2>2, <2>4, RegistryAssumption DEF GetRefused
    <2>5. ASSUME NEW s \in Shards, Collect(s) PROVE FALSE
      BY <2>2, <2>5 DEF Collect
    <2>6. ASSUME NEW q \in Refs, Drop(q) PROVE Drop(ref)
      BY <1>1, <2>6 DEF Drop, PurgeSessions, Unlinked
    <2>7. ASSUME EraseShard PROVE ref[1] \in walk.tenants
      BY <1>1, <2>7 DEF EraseShard, PurgeSessions, Unlinked, OwnedBy
    <2>8. CASE UNCHANGED slot
      BY <1>1, <2>8
    <2>9. \/ \E r \in Requests, q \in Refs : GetNew(r, q) \/ GetRefused(r, q)
          \/ \E s \in Shards : Collect(s)
          \/ \E q \in Refs : Drop(q)
          \/ EraseShard
          \/ UNCHANGED slot
      BY <1>1 DEF Next, vars, GetExisting, Redact, Return, BeginErase, EndErase, Tick
    <2> QED BY <2>3, <2>4, <2>5, <2>6, <2>7, <2>8, <2>9
  <1>2. IInv /\ [Next]_vars =>
          [\A ref \in Refs :
             slot[ref] # None /\ left[slot[ref]] > 0 /\ slot'[ref] # slot[ref]
               => \/ Drop(ref)
                  \/ EraseShard /\ ref[1] \in walk.tenants]_vars
    BY <1>1
  <1> QED BY <1>2, RegistryInvariant, PTL DEF Spec, OnlyExpiredEvicted

\* As long as a session keeps its vault, the vault forgets nothing.
THEOREM RegistryKeepsReadable == Spec => RegisteredReadable
  <1>1. ASSUME IInv, [Next]_vars, NEW ref \in Refs,
               slot[ref] # None, slot'[ref] = slot[ref]
        PROVE  table[slot[ref]] \subseteq table'[slot[ref]]
    <2> DEFINE o == slot[ref]
    <2>1. o \in Objects /\ \A q \in Refs : slot[q] = o => q = ref
      BY <1>1 DEF IInv, TypeOK, SlotOwner
    <2>2. ASSUME NEW refs \in SUBSET Refs, PurgeSessions(refs) PROVE table'[o] = table[o]
      <3>1. ref \notin refs
        BY <1>1, <2>2 DEF PurgeSessions, Unlinked
      <3> QED BY <2>1, <2>2, <3>1 DEF PurgeSessions, Emptied
    <2>3. \A s : ExpiredIn(s) \in SUBSET Refs /\ InShard(s) \in SUBSET Refs
      BY DEF ExpiredIn, InShard
    <2>4. ASSUME NEW r \in Requests, NEW q \in Refs, GetNew(r, q) PROVE table'[o] = table[o]
      <3> DEFINE gone == ExpiredIn(ShardOf[q])
      <3>1. PICK p \in Objects : /\ Free(p)
                                /\ slot' = [Unlinked(gone) EXCEPT ![q] = p]
                                /\ table' = [Emptied(gone) EXCEPT ![p] = {}]
        BY <2>4 DEF GetNew
      <3>2. p # o /\ q # ref
        BY <1>1, <3>1 DEF Free, Unlinked
      <3>3. ref \notin gone
        BY <1>1, <3>1, <3>2 DEF Unlinked
      <3>4. \A x \in gone : slot[x] # o
        BY <2>1, <2>3, <3>3
      <3> QED BY <2>1, <3>1, <3>2, <3>4 DEF Emptied
    <2>5. ASSUME NEW r \in Requests, NEW q \in Refs, GetRefused(r, q) PROVE table'[o] = table[o]
      BY <2>2, <2>3, <2>5 DEF GetRefused
    <2>6. ASSUME NEW s \in Shards, Collect(s) PROVE table'[o] = table[o]
      BY <2>2, <2>3, <2>6 DEF Collect
    <2>7. ASSUME NEW q \in Refs, Drop(q) PROVE table'[o] = table[o]
      BY <2>2, <2>7 DEF Drop
    <2>8. ASSUME EraseShard PROVE table'[o] = table[o]
      BY <2>2, <2>3, <2>8 DEF EraseShard
    <2>9. ASSUME NEW r \in Requests, NEW v \in Values, Redact(r, v)
          PROVE  table[o] \subseteq table'[o]
      BY <2>1, <2>9 DEF Redact, IInv, TypeOK
    <2>10. ASSUME NEW r \in Requests, Return(r) PROVE table'[o] = table[o]
      BY <1>1, <2>1, <2>10 DEF Return, IInv, TypeOK
    <2>11. CASE UNCHANGED table
      BY <2>11
    <2>12. \/ \E r \in Requests, q \in Refs : GetNew(r, q) \/ GetRefused(r, q)
           \/ \E r \in Requests : Return(r)
           \/ \E r \in Requests, v \in Values : Redact(r, v)
           \/ \E s \in Shards : Collect(s)
           \/ \E q \in Refs : Drop(q)
           \/ EraseShard
           \/ UNCHANGED table
      BY <1>1 DEF Next, vars, GetExisting, BeginErase, EndErase, Tick
    <2> HIDE DEF o
    <2>13. table[o] \subseteq table'[o]
      BY <2>4, <2>5, <2>6, <2>7, <2>8, <2>9, <2>10, <2>11, <2>12
    <2> QED BY <2>13 DEF o
  <1>2. IInv /\ [Next]_vars =>
          [\A ref \in Refs :
             slot[ref] # None /\ slot'[ref] = slot[ref]
               => table[slot[ref]] \subseteq table'[slot[ref]]]_vars
    BY <1>1
  <1> QED BY <1>2, RegistryInvariant, PTL DEF Spec, RegisteredReadable

=============================================================================
