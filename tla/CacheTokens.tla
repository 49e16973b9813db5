----------------------------- MODULE CacheTokens -----------------------------
(***************************************************************************)
(* pii/anonymize/tokenstore.go, type CacheTokenStore, and its TokenRecord: *)
(* one record per mapping in a key-value store shared by the replicas.     *)
(* Issue derives the token from the identity, seals the value under the    *)
(* replica's data key version, stamps an expiry in whole seconds, hands    *)
(* the record to FindOrCreate and opens whatever record is authoritative   *)
(* afterwards.  The clock has SecondTicks ticks a second.                  *)
(*                                                                         *)
(* The store is external and keeps the Cache contract (tokenstore.go:310): *)
(* FindOrCreate is atomic, a hit does not renew, nothing is dropped before *)
(* its TTL.  A compliant one drops a key at its TTL; one that is Slack     *)
(* ticks late models a coarse TTL.  A namespace is part of a value here.   *)
(***************************************************************************)
EXTENDS Naturals, FiniteSets

CONSTANTS Tenants, Values,
          Versions,    \* data key versions
          Epochs,      \* token identity epochs
          Callers,     \* goroutines of all the replicas that call Issue
          VersionOf,   \* the version a caller's replica writes with
          EpochOf,     \* the epoch of a caller's replica
          Erasable,
          TTL,         \* in ticks
          Slack,
          SecondTicks,
          MaxTime,
          NoRecord

Identities == Tenants \X Values
NoIdentity == CHOOSE i \in Identities : TRUE   \* of a caller outside Issue

ASSUME CacheAssumption ==
  /\ Tenants # {} /\ Values # {}
  /\ TTL \in Nat \ {0} /\ Slack \in Nat /\ SecondTicks \in Nat \ {0} /\ MaxTime \in Nat
  /\ VersionOf \in [Callers -> Versions] /\ EpochOf \in [Callers -> Epochs]

VARIABLES cache,   \* the records in the store
          now,
          pc,
          asked,   \* the identity a caller asks for
          mine,    \* the expiry of the record it sealed
          got,     \* the record FindOrCreate gave back, or NoRecord
          why,     \* why Issue failed
          excused, \* history: the tenant was erased while Issue ran
          ever     \* history: the <<identity, token>> pairs that ever resolved

vars == <<cache, now, pc, asked, mine, got, why, excused, ever>>

\* The token is an HMAC of the identity under the key of the epoch: a name that
\* differs when any of them does.
TokenOfValue(c, i) == <<EpochOf[c], i[2]>>
TokenOf(c, i)      == <<EpochOf[c], i>>

Init ==
  /\ cache = {}
  /\ now = SecondTicks
  /\ pc = [c \in Callers |-> "idle"]
  /\ asked = [c \in Callers |-> NoIdentity]
  /\ mine = [c \in Callers |-> 0]
  /\ got = [c \in Callers |-> NoRecord]
  /\ why = [c \in Callers |-> ""]
  /\ excused = [c \in Callers |-> FALSE]
  /\ ever = {}

-----------------------------------------------------------------------------
\* Encode keeps Unix seconds: the part of a second is cut off.
WholeSecondUp(t) == ((t + SecondTicks - 1) \div SecondTicks) * SecondTicks
WholeSecond(t)   == (t \div SecondTicks) * SecondTicks

\* TokenRecord.Expired.
Expired(e) == now > e.expires

\* decodeAndOpen derives the key of the version the record names; a record
\* opens under the version it was sealed with.
OwnVersion(c, e)  == VersionOf[c]
VersionUsed(c, e) == e.ver
Opens(c, e)       == VersionUsed(c, e) = e.ver

\* The record under the key of a tenant's token: a set of at most one.
At(tenant, t) == {e \in cache : e.tenant = tenant /\ e.token = t}

\* Resolve on a caller's replica.
Resolved(c, tenant, t) ==
  {e.value : e \in {d \in At(tenant, t) : ~Expired(d) /\ Opens(c, d)}}

\* The token is derived and the record sealed and stamped.
Seal(c, i) ==
  /\ pc[c] = "idle"
  /\ pc' = [pc EXCEPT ![c] = "create"]
  /\ asked' = [asked EXCEPT ![c] = i]
  /\ mine' = [mine EXCEPT ![c] = WholeSecond(now + TTL)]
  /\ excused' = [excused EXCEPT ![c] = FALSE]
  /\ UNCHANGED <<cache, now, got, why, ever>>

Create(c) ==
  LET i == asked[c]
      e == [tenant |-> i[1], token |-> TokenOf(c, i), ver |-> VersionOf[c],
            value |-> i[2], expires |-> mine[c], born |-> now]
  IN /\ At(i[1], TokenOf(c, i)) = {}
     /\ cache' = cache \cup {e}
     /\ ever' = IF Expired(e) THEN ever ELSE ever \cup {<<i, TokenOf(c, i)>>}
     /\ got' = [got EXCEPT ![c] = e]

Find(c) ==
  /\ \E e \in At(asked[c][1], TokenOf(c, asked[c])) :
       /\ got' = [got EXCEPT ![c] = e]
  /\ UNCHANGED <<cache, ever>>

\* cache.FindOrCreate.
FindOrCreate(c) ==
  /\ pc[c] = "create"
  /\ Find(c) \/ Create(c)
  /\ pc' = [pc EXCEPT ![c] = "open"]
  /\ mine' = [mine EXCEPT ![c] = 0]
  /\ UNCHANGED <<now, asked, why, excused>>

\* The call fails, before or after the store did it.
StoreFails(c) ==
  /\ pc[c] = "create"
  /\ Find(c) \/ Create(c) \/ UNCHANGED <<cache, got, ever>>
  /\ pc' = [pc EXCEPT ![c] = "failed"]
  /\ why' = [why EXCEPT ![c] = "store"]
  /\ mine' = [mine EXCEPT ![c] = 0]
  /\ UNCHANGED <<now, asked, excused>>

\* The authoritative record is opened before its token is returned ...
Open(c) ==
  /\ pc[c] = "open"
  /\ ~Expired(got[c])
  /\ Opens(c, got[c]) /\ got[c].value = asked[c][2]
  /\ pc' = [pc EXCEPT ![c] = "issued"]
  /\ UNCHANGED <<cache, now, asked, mine, got, why, excused, ever>>

\* ... and Issue fails if it is expired, or does not open to the value.
OpenFails(c) ==
  /\ pc[c] = "open"
  /\ \/ Expired(got[c]) /\ why' = [why EXCEPT ![c] = "expired"]
     \/ /\ ~Expired(got[c])
        /\ ~(Opens(c, got[c]) /\ got[c].value = asked[c][2])
        /\ why' = [why EXCEPT ![c] = "unopened"]
  /\ pc' = [pc EXCEPT ![c] = "failed"]
  /\ UNCHANGED <<cache, now, asked, mine, got, excused, ever>>

Return(c) ==
  /\ pc[c] \in {"issued", "failed"}
  /\ pc' = [pc EXCEPT ![c] = "idle"]
  /\ got' = [got EXCEPT ![c] = NoRecord]
  /\ why' = [why EXCEPT ![c] = ""]
  /\ asked' = [asked EXCEPT ![c] = NoIdentity]
  /\ excused' = [excused EXCEPT ![c] = FALSE]
  /\ UNCHANGED <<cache, now, mine, ever>>

\* Clear: DeleteByPrefix of the tenant's prefix.
Clear(tenant) ==
  /\ \E e \in cache : e.tenant = tenant
  /\ cache' = {e \in cache : e.tenant # tenant}
  /\ excused' = [c \in Callers |->
                   pc[c] # "idle" /\ (excused[c] \/ asked[c][1] = tenant)]
  /\ UNCHANGED <<now, pc, asked, mine, got, why, ever>>

\* Time passes.  The store drops the keys whose TTL ends, some of them late.
Tick ==
  LET within == {e \in cache : now + 1 <= e.born + TTL}
      late   == {e \in cache \ within : now + 1 <= e.born + TTL + Slack}
  IN /\ now < MaxTime
     /\ now' = now + 1
     /\ \E kept \in SUBSET late : cache' = within \cup kept
     /\ UNCHANGED <<pc, asked, mine, got, why, excused, ever>>

Next ==
  \/ \E c \in Callers :
       \/ \E i \in Identities : Seal(c, i)
       \/ FindOrCreate(c) \/ StoreFails(c)
       \/ Open(c) \/ OpenFails(c)
       \/ Return(c)
  \/ \E tenant \in Erasable : Clear(tenant)
  \/ Tick

Spec == Init /\ [][Next]_vars

-----------------------------------------------------------------------------
\* "An issued token resolves immediately", on every replica, whatever versions
\* they write with: the record that was read before the check is still there
\* when its token is returned, unless the tenant was erased meanwhile.
Answered(c, d) ==
  excused[c] \/ Resolved(d, asked[c][1], TokenOf(c, asked[c])) = {asked[c][2]}
IssuedResolves ==
  [][\A c, d \in Callers : pc[c] = "open" /\ pc'[c] = "issued" => Answered(c, d)']_vars

\* The TTL is the retention period: no value is readable longer than that after
\* its record was created, even from a store that is late to drop it.
RetentionBound ==
  \A c \in Callers : \A e \in cache :
    Resolved(c, e.tenant, e.token) # {} => now <= e.born + TTL

\* A rotation of the data key version does not orphan records: a replica with a
\* newer or an older version never fails to open what another one sealed.
RotationOpens == \A c \in Callers : why[c] # "unopened"

\* The records implement the contract of every driver.
Contract == INSTANCE TokenContract WITH
  Tokens <- Epochs \X Identities,
  live <- {<< <<e.tenant, e.value>>, e.token >> : e \in {d \in cache : ~Expired(d)}}

ImplementsContract == Contract!Spec

Names  == {EpochOf[c] : c \in Callers} \X Identities   \* the tokens there can be
Record == [tenant : Tenants, token : Names, ver : Versions, value : Values,
           expires : Nat, born : Nat]

TypeOK ==
  /\ cache \subseteq Record /\ now \in Nat /\ mine \in [Callers -> Nat]
  /\ pc \in [Callers -> {"idle", "create", "open", "issued", "failed"}]
  /\ asked \in [Callers -> Identities]
  /\ got \in [Callers -> Record \cup {NoRecord}]
  /\ excused \in [Callers -> BOOLEAN]
  /\ why \in [Callers -> {"", "store", "expired", "unopened"}]
  /\ ever \subseteq Identities \X Names

\* The reason RetentionBound does not depend on the store: a record's own expiry
\* never lies beyond the store's TTL, because it was sealed before it was stored.
StampWithinTTL ==
  /\ \A e \in cache : e.expires <= e.born + TTL
  /\ \A c \in Callers : pc[c] = "create" => mine[c] <= now + TTL

\* A token is a name of what its record says, so a key has one record.
NamesWhat(e) == e.token[2] = <<e.tenant, e.value>>
TokensName ==
  /\ \A e \in cache : NamesWhat(e)
  /\ \A e, f \in cache : e.token = f.token => e = f
  /\ \A b \in ever : b[2][2] = b[1]

\* What a caller is about to open is the record it asked for, and that is still
\* there, or out of date, or of a tenant that was erased meanwhile.
GotAsked ==
  \A c \in Callers : pc[c] = "open" =>
    /\ got[c] \in Record /\ got[c].token = TokenOf(c, asked[c]) /\ NamesWhat(got[c])
    /\ excused[c] \/ got[c] \in cache \/ Expired(got[c])

IInv == TypeOK /\ StampWithinTTL /\ TokensName /\ GotAsked /\ RotationOpens

=============================================================================
