-------------------------- MODULE TokenDriversProofs --------------------------
(***************************************************************************)
(* What is proved of the two drivers of the token store that keep no table *)
(* of rows, for any callers, values, versions, clocks and TTLs.            *)
(*                                                                         *)
(* The cache: a token is a name of the identity it stands for, so a key    *)
(* has one record, whoever wins FindOrCreate, and the record carries its   *)
(* own expiry, sealed before it was stored.  The memory: an entry that one *)
(* of the two maps has lost is out of date, and a token that is drawn and  *)
(* not stored yet belongs to one caller.                                   *)
(***************************************************************************)
EXTENDS MCTokenDrivers, TLAPS

(***************************************************************************)
(* The cache.                                                              *)
(***************************************************************************)
\* Encode's cut to whole seconds never moves an expiry up.
LEMMA WholeSecondDown ==
  ASSUME NEW t \in Nat PROVE WholeSecond(t) \in Nat /\ WholeSecond(t) <= t
<1>1. SecondTicks \in Nat \ {0}
  BY CacheAssumption
<1>2. t \div SecondTicks \in Nat /\ t % SecondTicks \in Nat
      /\ t = SecondTicks * (t \div SecondTicks) + (t % SecondTicks)
  BY <1>1
<1>3. (t \div SecondTicks) * SecondTicks \in Nat
      /\ (t \div SecondTicks) * SecondTicks = SecondTicks * (t \div SecondTicks)
  BY <1>1, <1>2
<1> QED BY <1>1, <1>2, <1>3 DEF WholeSecond

LEMMA NoIdentityIs == NoIdentity \in Identities
<1>1. PICK t \in Tenants, v \in Values : TRUE
  BY CacheAssumption
<1>2. <<t, v>> \in Identities
  BY DEF Identities
<1> QED BY <1>2 DEF NoIdentity

LEMMA IdentityPair ==
  ASSUME NEW i \in Identities
  PROVE  i = <<i[1], i[2]>> /\ i[1] \in Tenants /\ i[2] \in Values
BY DEF Identities

LEMMA CacheInit == Init => IInv
<1> SUFFICES ASSUME Init PROVE IInv
  OBVIOUS
<1>1. TypeOK
  BY CacheAssumption, NoIdentityIs DEF Init, TypeOK
<1>2. StampWithinTTL /\ TokensName /\ GotAsked /\ RotationOpens
  BY DEF Init, StampWithinTTL, TokensName, GotAsked, RotationOpens
<1> QED BY <1>1, <1>2 DEF IInv

\* What the store has of a record that it did not have: nothing under its key.
LEMMA CreateKeeps ==
  ASSUME IInv, NEW c \in Callers, pc[c] = "create", Create(c), now' = now
  PROVE  /\ cache' \subseteq Record /\ got' \in [Callers -> Record \cup {NoRecord}]
         /\ ever' \subseteq Identities \X Names
         /\ cache \subseteq cache' /\ \A e \in cache' : e.expires <= e.born + TTL
         /\ TokensName' /\ \A d \in Callers \ {c} : got'[d] = got[d]
         /\ got'[c] \in cache' /\ got'[c].token = TokenOf(c, asked[c])
<1> DEFINE i == asked[c]
           e == [tenant |-> i[1], token |-> TokenOf(c, i), ver |-> VersionOf[c],
                 value |-> i[2], expires |-> mine[c], born |-> now]
<1>1. /\ At(i[1], TokenOf(c, i)) = {} /\ cache' = cache \cup {e}
      /\ ever' = IF Expired(e) THEN ever ELSE ever \cup {<<i, TokenOf(c, i)>>}
      /\ got' = [got EXCEPT ![c] = e]
  BY DEF Create
<1>2. /\ i \in Identities /\ i = <<i[1], i[2]>> /\ i[1] \in Tenants /\ i[2] \in Values
  BY IdentityPair DEF IInv, TypeOK
<1>3. TokenOf(c, i) \in Names /\ TokenOf(c, i)[2] = i
  BY <1>2 DEF Names, TokenOf
<1>4. e \in Record
  BY <1>2, <1>3, CacheAssumption DEF Record, IInv, TypeOK
<1>5. /\ e.tenant = i[1] /\ e.token = TokenOf(c, i) /\ e.value = i[2]
      /\ e.expires = mine[c] /\ e.born = now
  OBVIOUS
<1> HIDE DEF e, i
<1>6. cache' \subseteq Record /\ ever' \subseteq Identities \X Names
  <2>1. <<i, TokenOf(c, i)>> \in Identities \X Names
    BY <1>2, <1>3
  <2> QED BY <1>1, <1>4, <2>1 DEF IInv, TypeOK
<1>7. got' \in [Callers -> Record \cup {NoRecord}] /\ got'[c] = e
      /\ \A d \in Callers \ {c} : got'[d] = got[d]
  BY <1>1, <1>4 DEF IInv, TypeOK
<1>8. \A f \in cache' : f.expires <= f.born + TTL
  BY <1>1, <1>5 DEF IInv, StampWithinTTL
<1>9. TokensName'
  <2>1. NamesWhat(e)
    BY <1>2, <1>3, <1>5 DEF NamesWhat
  <2>2. \A f \in cache : f.token # e.token
    <3> SUFFICES ASSUME NEW f \in cache, f.token = e.token PROVE FALSE
      OBVIOUS
    <3>1. <<f.tenant, f.value>> = i
      BY <1>3, <1>5 DEF IInv, TokensName, NamesWhat
    <3>2. f.tenant = i[1]
      BY <1>2, <3>1
    <3> QED BY <1>1, <1>5, <3>2 DEF At
  <2>3. \A b \in ever' : b[2][2] = b[1]
    BY <1>1, <1>3 DEF IInv, TokensName
  <2> QED BY <1>1, <2>1, <2>2, <2>3 DEF IInv, TokensName, NamesWhat
<1> QED BY <1>1, <1>5, <1>6, <1>7, <1>8, <1>9 DEF i

LEMMA FindKeeps ==
  ASSUME IInv, NEW c \in Callers, pc[c] = "create", Find(c), now' = now
  PROVE  /\ got' \in [Callers -> Record \cup {NoRecord}]
         /\ \A d \in Callers \ {c} : got'[d] = got[d]
         /\ got'[c] \in cache /\ got'[c].token = TokenOf(c, asked[c])
<1>1. PICK e \in cache : e.token = TokenOf(c, asked[c]) /\ got' = [got EXCEPT ![c] = e]
  BY DEF Find, At
<1> QED BY <1>1 DEF IInv, TypeOK

\* FindOrCreate, and the call of it that fails: what the other callers hold stays.
LEMMA StoreKeeps ==
  ASSUME IInv, NEW c \in Callers, FindOrCreate(c) \/ StoreFails(c) PROVE IInv'
<1>1. /\ pc[c] = "create" /\ mine' = [mine EXCEPT ![c] = 0]
      /\ UNCHANGED <<now, asked, excused>>
      /\ \/ pc' = [pc EXCEPT ![c] = "open"] /\ why' = why /\ (Find(c) \/ Create(c))
         \/ /\ pc' = [pc EXCEPT ![c] = "failed"] /\ why' = [why EXCEPT ![c] = "store"]
            /\ Find(c) \/ Create(c) \/ UNCHANGED <<cache, got, ever>>
  BY DEF FindOrCreate, StoreFails
<1>2. /\ cache' \subseteq Record /\ got' \in [Callers -> Record \cup {NoRecord}]
      /\ ever' \subseteq Identities \X Names /\ cache \subseteq cache'
      /\ TokensName' /\ (\A e \in cache' : e.expires <= e.born + TTL)
      /\ \A d \in Callers \ {c} : got'[d] = got[d]
      /\ pc'[c] = "open" => got'[c] \in cache' /\ got'[c].token = TokenOf(c, asked[c])
  <2>1. CASE Create(c)
    BY <1>1, <2>1, CreateKeeps
  <2>2. CASE Find(c)
    <3>1. cache' = cache /\ ever' = ever
      BY <2>2 DEF Find
    <3> QED BY <1>1, <2>2, <3>1, FindKeeps
            DEF IInv, TypeOK, StampWithinTTL, TokensName, NamesWhat
  <2>3. CASE UNCHANGED <<cache, got, ever>> /\ pc' = [pc EXCEPT ![c] = "failed"]
    BY <2>3 DEF IInv, TypeOK, StampWithinTTL, TokensName, NamesWhat
  <2> QED BY <1>1, <2>1, <2>2, <2>3
<1>3. TypeOK'
  BY <1>1, <1>2 DEF IInv, TypeOK
<1>4. /\ StampWithinTTL' /\ RotationOpens'
  BY <1>1, <1>2 DEF IInv, TypeOK, StampWithinTTL, RotationOpens
<1>5. GotAsked'
  <2> SUFFICES ASSUME NEW d \in Callers, pc'[d] = "open"
               PROVE  /\ got'[d] \in Record /\ got'[d].token = TokenOf(d, asked[d])
                      /\ NamesWhat(got'[d])
                      /\ excused[d] \/ got'[d] \in cache' \/ now > got'[d].expires
    BY <1>1 DEF GotAsked, NamesWhat, Expired, TokenOf
  <2>1. CASE d = c
    BY <1>2, <2>1 DEF TokensName, NamesWhat
  <2>2. CASE d # c
    <3>1. pc[d] = "open" /\ got'[d] = got[d]
      BY <1>1, <1>2, <2>2 DEF IInv, TypeOK
    <3> QED BY <1>2, <3>1 DEF IInv, GotAsked, Expired
  <2> QED BY <2>1, <2>2
<1> QED BY <1>2, <1>3, <1>4, <1>5 DEF IInv
\* The calls that leave the records alone.
LEMMA CallKeeps ==
  ASSUME IInv, NEW c \in Callers,
         (\E i \in Identities : Seal(c, i)) \/ Open(c) \/ OpenFails(c) \/ Return(c)
  PROVE  IInv'
<1>1. /\ UNCHANGED <<cache, now, ever>> /\ pc' \in [Callers -> {"idle", "create", "open", "issued", "failed"}]
      /\ pc'[c] # "open" /\ \A d \in Callers \ {c} : pc'[d] = pc[d]
      /\ \A d \in Callers \ {c} :
           got'[d] = got[d] /\ asked'[d] = asked[d] /\ excused'[d] = excused[d]
           /\ mine'[d] = mine[d] /\ why'[d] = why[d]
      /\ got' \in [Callers -> Record \cup {NoRecord}]
  BY DEF Seal, Open, OpenFails, Return, IInv, TypeOK
<1>2. /\ mine' \in [Callers -> Nat] /\ (pc'[c] = "create" => mine'[c] <= now + TTL)
  <2>1. CASE \E i \in Identities : Seal(c, i)
    <3>1. mine' = [mine EXCEPT ![c] = WholeSecond(now + TTL)]
      BY <2>1 DEF Seal
    <3>2. WholeSecond(now + TTL) \in Nat /\ WholeSecond(now + TTL) <= now + TTL
      <4>1. now \in Nat /\ TTL \in Nat
        BY CacheAssumption DEF IInv, TypeOK
      <4>2. now + TTL \in Nat
        BY <4>1
      <4> HIDE DEF IInv
      <4> QED BY <4>2, WholeSecondDown
    <3> QED BY <3>1, <3>2 DEF IInv, TypeOK
  <2>2. CASE Open(c) \/ OpenFails(c) \/ Return(c)
    <3>1. mine' = mine /\ pc'[c] # "create"
      BY <2>2 DEF Open, OpenFails, Return, IInv, TypeOK
    <3> QED BY <3>1 DEF IInv, TypeOK
  <2> QED BY <2>1, <2>2
<1>3. asked' \in [Callers -> Identities] /\ excused' \in [Callers -> BOOLEAN]
  <2>1. asked \in [Callers -> Identities] /\ excused \in [Callers -> BOOLEAN]
    BY DEF IInv, TypeOK
  <2>2. \/ \E i \in Identities : asked' = [asked EXCEPT ![c] = i]
        \/ asked' = asked
    BY NoIdentityIs DEF Seal, Open, OpenFails, Return
  <2>3. excused' = [excused EXCEPT ![c] = FALSE] \/ excused' = excused
    BY DEF Seal, Open, OpenFails, Return
  <2> QED BY <2>1, <2>2, <2>3
<1>4. /\ why' \in [Callers -> {"", "store", "expired", "unopened"}] /\ why'[c] # "unopened"
  <2>1. CASE OpenFails(c)
    <3>1. Opens(c, got[c]) /\ got[c].value = asked[c][2]
      <4>1. NamesWhat(got[c]) /\ got[c].token[2] = asked[c]
        BY <2>1 DEF OpenFails, IInv, GotAsked, TokenOf
      <4> QED BY <4>1 DEF Opens, VersionUsed, NamesWhat
    <3>2. why' = [why EXCEPT ![c] = "expired"]
      BY <2>1, <3>1 DEF OpenFails
    <3> QED BY <3>2 DEF IInv, TypeOK
  <2>2. CASE (\E i \in Identities : Seal(c, i)) \/ Open(c) \/ Return(c)
    BY <2>2 DEF Seal, Open, Return, IInv, TypeOK, RotationOpens
  <2> QED BY <2>1, <2>2
<1>5. TypeOK'
  BY <1>1, <1>2, <1>3, <1>4 DEF IInv, TypeOK
<1>6. StampWithinTTL' /\ TokensName' /\ RotationOpens'
  BY <1>1, <1>2, <1>4 DEF IInv, StampWithinTTL, TokensName, NamesWhat, RotationOpens
<1>7. GotAsked'
  BY <1>1 DEF IInv, GotAsked, NamesWhat, Expired, TokenOf
<1> QED BY <1>5, <1>6, <1>7 DEF IInv

LEMMA ClearKeeps ==
  ASSUME IInv, NEW tenant, Clear(tenant) PROVE IInv'
<1>1. /\ cache' = {e \in cache : e.tenant # tenant}
      /\ excused' = [c \in Callers |-> pc[c] # "idle" /\ (excused[c] \/ asked[c][1] = tenant)]
      /\ UNCHANGED <<now, pc, asked, mine, got, why, ever>>
  BY DEF Clear
<1>2. TypeOK'
  BY <1>1 DEF IInv, TypeOK
<1>3. StampWithinTTL' /\ TokensName' /\ RotationOpens'
  BY <1>1 DEF IInv, StampWithinTTL, TokensName, NamesWhat, RotationOpens
<1>4. GotAsked'
  <2> SUFFICES ASSUME NEW c \in Callers, pc[c] = "open", ~excused'[c]
               PROVE  got[c] \in cache' \/ Expired(got[c])
    BY <1>1 DEF IInv, GotAsked, NamesWhat, Expired, TokenOf
  <2>1. asked[c][1] # tenant /\ ~excused[c]
    BY <1>1
  <2>2. NamesWhat(got[c]) /\ got[c].token[2] = asked[c] /\ (got[c] \in cache \/ Expired(got[c]))
    BY <2>1 DEF IInv, GotAsked, TokenOf
  <2>3. got[c].tenant # tenant
    BY <2>1, <2>2 DEF NamesWhat
  <2> QED BY <1>1, <2>2, <2>3
<1> QED BY <1>2, <1>3, <1>4 DEF IInv

\* What the store drops is out of date by its own expiry.
LEMMA TickKeeps ==
  ASSUME IInv, Tick PROVE IInv'
<1> DEFINE within == {e \in cache : now + 1 <= e.born + TTL}
<1>1. /\ now' = now + 1 /\ within \subseteq cache' /\ cache' \subseteq cache
      /\ UNCHANGED <<pc, asked, mine, got, why, excused, ever>>
  BY DEF Tick
<1>2. now \in Nat /\ TTL \in Nat
  BY CacheAssumption DEF IInv, TypeOK
<1>3. TypeOK'
  <2>1. now' \in Nat
    BY <1>1, <1>2
  <2>2. cache' \subseteq Record
    BY <1>1 DEF IInv, TypeOK
  <2> QED BY <1>1, <2>1, <2>2 DEF IInv, TypeOK
<1>4. StampWithinTTL'
  <2>1. \A e \in cache' : e.expires <= e.born + TTL
    BY <1>1 DEF IInv, StampWithinTTL
  <2>2. ASSUME NEW c \in Callers, pc[c] = "create" PROVE mine[c] <= now' + TTL
    <3>1. mine[c] \in Nat /\ mine[c] <= now + TTL
      BY <2>2 DEF IInv, TypeOK, StampWithinTTL
    <3> QED BY <1>1, <1>2, <3>1
  <2> QED BY <1>1, <2>1, <2>2 DEF StampWithinTTL
<1>5. TokensName' /\ RotationOpens'
  BY <1>1 DEF IInv, TokensName, NamesWhat, RotationOpens
<1>6. GotAsked'
  <2> SUFFICES ASSUME NEW c \in Callers, pc[c] = "open", ~excused[c]
               PROVE  got[c] \in cache' \/ now + 1 > got[c].expires
    BY <1>1 DEF IInv, GotAsked, NamesWhat, Expired, TokenOf
  <2>1. got[c] \in Record /\ (got[c] \in cache \/ now > got[c].expires)
    BY DEF IInv, GotAsked, Expired
  <2>2. got[c].expires \in Nat /\ got[c].born \in Nat
    BY <2>1 DEF Record
  <2>3. CASE got[c] \in cache
    <3>1. got[c].expires <= got[c].born + TTL
      BY <2>3 DEF IInv, StampWithinTTL
    <3> QED BY <1>1, <1>2, <2>2, <2>3, <3>1
  <2> QED BY <1>2, <2>1, <2>2, <2>3
<1> QED BY <1>3, <1>4, <1>5, <1>6 DEF IInv

LEMMA CacheStep == IInv /\ [Next]_vars => IInv'
<1> SUFFICES ASSUME IInv, [Next]_vars PROVE IInv'
  OBVIOUS
<1>1. ASSUME UNCHANGED vars PROVE IInv'
  <2>1. UNCHANGED <<cache, now, pc, asked, mine, got, why, excused, ever>>
    BY <1>1 DEF vars
  <2>2. TypeOK' /\ StampWithinTTL' /\ RotationOpens'
    BY <2>1 DEF IInv, TypeOK, StampWithinTTL, RotationOpens
  <2>3. TokensName' /\ GotAsked'
    BY <2>1 DEF IInv, TokensName, GotAsked, NamesWhat, Expired, TokenOf
  <2> QED BY <2>2, <2>3 DEF IInv
<1> QED BY <1>1, StoreKeeps, CallKeeps, ClearKeeps, TickKeeps DEF Next

\* The inductive invariant of the cache driver: a key has one record, which is of the
\* identity its token names and expires within the store's TTL, and what a caller is
\* about to open is that record (CacheTokenStore.Issue, tokenstore.go:501).
THEOREM CacheInvariant == Spec => []IInv
  BY CacheInit, CacheStep, PTL DEF Spec

\* No value is readable longer than the TTL after its record was created, whatever
\* the store is late to drop (TokenRecord.Expired).
THEOREM CacheRetentionBound == Spec => []RetentionBound
<1>1. IInv => RetentionBound
  <2> SUFFICES ASSUME IInv, NEW c \in Callers, NEW e \in cache,
                      Resolved(c, e.tenant, e.token) # {}
               PROVE  now <= e.born + TTL
    BY DEF RetentionBound
  <2>1. PICK d \in At(e.tenant, e.token) : ~Expired(d)
    BY DEF Resolved
  <2>2. d = e
    BY <2>1 DEF At, IInv, TokensName
  <2>3. now <= e.expires /\ e.expires <= e.born + TTL
    <3>1. now \in Nat /\ e.expires \in Nat
      BY DEF IInv, TypeOK, Record
    <3> QED BY <2>1, <2>2, <3>1 DEF Expired, IInv, StampWithinTTL
  <2>4. now \in Nat /\ e.expires \in Nat /\ e.born \in Nat /\ TTL \in Nat
    BY CacheAssumption DEF IInv, TypeOK, Record
  <2> QED BY <2>3, <2>4
<1> QED BY <1>1, CacheInvariant, PTL

\* No replica fails to open what another one sealed, whatever versions they write
\* with (decodeAndOpen).
THEOREM CacheRotationOpens == Spec => []RotationOpens
<1>1. IInv => RotationOpens
  BY DEF IInv
<1> QED BY <1>1, CacheInvariant, PTL

\* When Issue returns a token, every replica resolves it to the value that was asked
\* for, unless the tenant was erased while Issue ran.
THEOREM CacheIssuedResolves == Spec => IssuedResolves
<1> DEFINE Issues == \A c, d \in Callers : pc[c] = "open" /\ pc'[c] = "issued" => Answered(c, d)'
<1>1. IInv /\ [Next]_vars => [Issues]_vars
  <2> SUFFICES ASSUME IInv, Next, NEW c \in Callers, NEW d \in Callers,
                      pc[c] = "open", pc'[c] = "issued"
               PROVE  Answered(c, d)'
    BY DEF vars
  <2>1. Open(c)
    BY DEF Next, Seal, FindOrCreate, StoreFails, Open, OpenFails, Return, Clear, Tick, IInv, TypeOK
  <2>2. /\ ~Expired(got[c]) /\ got[c].value = asked[c][2]
        /\ UNCHANGED <<cache, now, asked, excused>>
    BY <2>1 DEF Open
  <2>3. /\ got[c].token = TokenOf(c, asked[c]) /\ NamesWhat(got[c])
        /\ excused[c] \/ got[c] \in cache
    BY <2>2 DEF IInv, GotAsked
  <2>4. CASE excused[c]
    BY <2>2, <2>4 DEF Answered
  <2>5. CASE got[c] \in cache
    <3>1. got[c].tenant = asked[c][1]
      BY <2>3 DEF NamesWhat, TokenOf
    <3>2. At(asked[c][1], TokenOf(c, asked[c])) = {got[c]}
      BY <2>3, <2>5, <3>1 DEF At, IInv, TokensName
    <3>3. {e \in At(asked[c][1], TokenOf(c, asked[c])) : ~Expired(e) /\ Opens(d, e)} = {got[c]}
      BY <2>2, <3>2 DEF Opens, VersionUsed
    <3>4. Resolved(d, asked[c][1], TokenOf(c, asked[c])) = {asked[c][2]}
      BY <2>2, <3>3 DEF Resolved
    <3> QED BY <2>2, <3>4 DEF Answered, Resolved, At, Expired, Opens, VersionUsed, TokenOf
  <2> QED BY <2>3, <2>4, <2>5
<1> QED BY <1>1, CacheInvariant, PTL DEF Spec, IssuedResolves

\* The refinement: a record that is created and not yet out of date issues its token,
\* time and an erasure lose some, and every other step stutters.
CacheLive == {<< <<e.tenant, e.value>>, e.token >> : e \in {d \in cache : ~Expired(d)}}
OneEpochInUse == \A c, d \in Callers : EpochOf[c] = EpochOf[d]

LEMMA CreateIssues ==
  ASSUME OneEpochInUse, IInv, NEW c \in Callers, pc[c] = "create", Create(c), now' = now
  PROVE  Contract!Next \/ UNCHANGED <<CacheLive, ever>>
<1> DEFINE i == asked[c]
           t == TokenOf(c, i)
           e == [tenant |-> i[1], token |-> t, ver |-> VersionOf[c],
                 value |-> i[2], expires |-> mine[c], born |-> now]
<1>1. /\ At(i[1], t) = {} /\ cache' = cache \cup {e}
      /\ ever' = IF Expired(e) THEN ever ELSE ever \cup {<<i, t>>}
  BY DEF Create
<1>2. i \in Identities /\ i = <<i[1], i[2]>> /\ i[1] \in Tenants /\ i[2] \in Values
  BY IdentityPair DEF IInv, TypeOK
<1>3. t \in Epochs \X Identities /\ t[1] = EpochOf[c] /\ t[2] = i
  BY <1>2, CacheAssumption DEF TokenOf
<1>4. e.tenant = i[1] /\ e.value = i[2] /\ e.token = t
  OBVIOUS
<1> HIDE DEF e, t, i
<1>5. CASE Expired(e)
  <2>1. ever' = ever
    BY <1>1, <1>5
  <2>2. {d \in cache' : ~Expired(d)} = {d \in cache : ~Expired(d)}
    BY <1>1, <1>5
  <2>3. CacheLive' = CacheLive
    BY <2>2 DEF CacheLive, Expired
  <2> QED BY <2>1, <2>3
<1>6. CASE ~Expired(e)
  <2> DEFINE b == <<i, t>>
  <2>1. b \in Identities \X (Epochs \X Identities)
    BY <1>2, <1>3
  <2>2. CacheLive' = CacheLive \cup {b} /\ ever' = ever \cup {b}
    <3>1. {d \in cache' : ~Expired(d)} = {d \in cache : ~Expired(d)} \cup {e}
      BY <1>1, <1>6
    <3>2. << <<e.tenant, e.value>>, e.token >> = b
      BY <1>2, <1>4
    <3>3. CacheLive' = {<< <<d.tenant, d.value>>, d.token >> : d \in {d \in cache' : ~Expired(d)}}
      BY DEF CacheLive, Expired
    <3> HIDE DEF b
    <3>4. CacheLive' = CacheLive \cup {b}
      BY <3>1, <3>2, <3>3 DEF CacheLive
    <3> QED BY <1>1, <1>6, <3>4 DEF b
  <2>3. \A d \in cache : <<d.tenant, d.value>> # i
    <3> SUFFICES ASSUME NEW d \in cache, <<d.tenant, d.value>> = i PROVE FALSE
      OBVIOUS
    <3>1. d.token \in Names /\ d.token[2] = i
      BY DEF IInv, TypeOK, Record, TokensName, NamesWhat
    <3>2. d.token = <<d.token[1], d.token[2]>> /\ d.token[1] = EpochOf[c]
      BY <3>1 DEF Names, OneEpochInUse
    <3>3. d.token = t /\ d.tenant = i[1]
      BY <1>2, <3>1, <3>2 DEF TokenOf, t
    <3> QED BY <1>1, <3>3 DEF At
  <2>4. (\A l \in CacheLive : l[1] # b[1]) /\ (\A l \in ever : l[2] = b[2] => l[1] = b[1])
    BY <1>3, <2>3 DEF CacheLive, IInv, TokensName
  <2> HIDE DEF b
  <2>5. Contract!Issue(b) /\ b \in CacheLive'
    BY <2>1, <2>2, <2>4 DEF Contract!Issue, CacheLive
  <2>6. \E l \in CacheLive' : Contract!Issue(l)
    BY <2>5 DEF Contract!Issue
  <2> QED BY <2>6 DEF Contract!Next, CacheLive
<1> QED BY <1>5, <1>6

\* A cache driver whose replicas use one identity epoch implements TokenStore.  (With
\* two, an identity has a live token in each: that is what a rotation of the epoch is.)
THEOREM CacheRefinesContract ==
  ASSUME OneEpochInUse PROVE Spec => ImplementsContract
<1>1. Init => Contract!Init
  BY DEF Init, Contract!Init
<1>2. IInv /\ [Next]_vars => [Contract!Next]_<<CacheLive, ever>>
  <2> SUFFICES ASSUME IInv, [Next]_vars
               PROVE  Contract!Next \/ UNCHANGED <<CacheLive, ever>>
    OBVIOUS
  <2>1. ASSUME NEW c \in Callers, FindOrCreate(c) \/ StoreFails(c)
        PROVE  Contract!Next \/ UNCHANGED <<CacheLive, ever>>
    <3>1. /\ pc[c] = "create" /\ now' = now
          /\ Create(c) \/ UNCHANGED <<cache, ever>>
      BY <2>1 DEF FindOrCreate, StoreFails, Find
    <3>2. CASE Create(c)
      BY <3>1, <3>2, CreateIssues
    <3>3. CASE UNCHANGED <<cache, ever>>
      BY <3>1, <3>3 DEF CacheLive, Expired
    <3> QED BY <3>1, <3>2, <3>3
  <2>2. ASSUME NEW c \in Callers,
               (\E i \in Identities : Seal(c, i)) \/ Open(c) \/ OpenFails(c) \/ Return(c)
        PROVE  UNCHANGED <<CacheLive, ever>>
    BY <2>2 DEF Seal, Open, OpenFails, Return, CacheLive, Expired
  <2>3. ASSUME (\E tenant \in Erasable : Clear(tenant)) \/ Tick PROVE Contract!Lose
    <3>1. ever' = ever /\ cache' \subseteq cache /\ (now' = now \/ now' = now + 1)
      BY <2>3 DEF Clear, Tick
    <3>2. now \in Nat /\ \A e \in cache : e.expires \in Nat
      BY DEF IInv, TypeOK, Record
    <3>3. \A e \in cache' : Expired(e) => now' > e.expires
      BY <3>1, <3>2 DEF Expired
    <3>4. CacheLive' \subseteq CacheLive
      BY <3>1, <3>3 DEF CacheLive, Expired
    <3> QED BY <3>1, <3>4 DEF Contract!Lose, CacheLive
  <2>4. CASE UNCHANGED vars
    BY <2>4 DEF vars, CacheLive, Expired
  <2> QED BY <2>1, <2>2, <2>3, <2>4 DEF Next, Contract!Next
<1> QED BY <1>1, <1>2, CacheInvariant, PTL DEF Spec, ImplementsContract, Contract!Spec, CacheLive

(***************************************************************************)
(* The memory.                                                             *)
(***************************************************************************)
LEMMA MemoryInit == Memory!Init => Memory!IInv
<1> SUFFICES ASSUME Memory!Init PROVE Memory!IInv
  OBVIOUS
<1>1. Memory!NoIdentity \in Memory!Identities
  BY NoIdentityIs DEF NoIdentity, Identities, Memory!NoIdentity, Memory!Identities
<1>2. Memory!TypeOK
  BY <1>1 DEF Memory!Init, Memory!TypeOK
<1>3. Memory!PairResolves /\ Memory!LeftBehind /\ Memory!DrawnFresh
  BY DEF Memory!Init, Memory!PairResolves, Memory!LeftBehind, Memory!DrawnFresh
<1> QED BY <1>2, <1>3 DEF Memory!IInv

LEMMA LookupKeeps ==
  ASSUME Memory!IInv, NEW c \in Callers, NEW i \in Memory!Identities, Memory!Lookup(c, i)
  PROVE  Memory!IInv'
<1>1. /\ masked' = [masked EXCEPT ![c] = i] /\ read' = [read EXCEPT ![c] = mnow]
      /\ UNCHANGED <<byPair, byTok, mnow, mever>> /\ drawn \subseteq drawn'
  BY DEF Memory!Lookup
<1>2. \/ \E e \in Memory!Held(i, mnow) : token' = [token EXCEPT ![c] = e[2]]
         /\ mpc' = [mpc EXCEPT ![c] = "issued"] /\ drawn' = drawn
      \/ \E t \in Tokens \ drawn : token' = [token EXCEPT ![c] = t]
         /\ mpc' = [mpc EXCEPT ![c] = "drawn"] /\ drawn' = drawn \cup {t}
  BY DEF Memory!Lookup
<1>3. \A e \in Memory!Held(i, mnow) : e[2] \in Tokens
  BY DEF Memory!Held, Memory!IInv, Memory!TypeOK, Memory!Entries
<1>4. Memory!TypeOK'
  <2>1. /\ masked' \in [Callers -> Memory!Identities] /\ read' \in [Callers -> Nat]
        /\ mpc' \in [Callers -> {"idle", "drawn", "issued"}]
        /\ token' \in [Callers -> Tokens \cup {None}] /\ drawn' \subseteq Tokens
    BY <1>1, <1>2, <1>3 DEF Memory!IInv, Memory!TypeOK
  <2> QED BY <1>1, <2>1 DEF Memory!IInv, Memory!TypeOK
<1>5. Memory!PairResolves' /\ Memory!LeftBehind'
  BY <1>1 DEF Memory!IInv, Memory!PairResolves, Memory!LeftBehind, Memory!ExpiredAt
<1>6. Memory!DrawnFresh'
  <2>1. /\ token \in [Callers -> Tokens \cup {None}] /\ mpc \in [Callers -> {"idle", "drawn", "issued"}]
        /\ read \in [Callers -> Nat] /\ mnow \in Nat
    BY DEF Memory!IInv, Memory!TypeOK
  <2>2. \A d \in Callers \ {c} : mpc'[d] = mpc[d] /\ token'[d] = token[d] /\ read'[d] = read[d]
    BY <1>1, <1>2, <2>1
  <2>3. CASE mpc'[c] = "issued"
    BY <1>1, <2>2, <2>3 DEF Memory!IInv, Memory!DrawnFresh
  <2>4. CASE mpc'[c] = "drawn" /\ token'[c] \in drawn' \ drawn /\ read'[c] = mnow
    BY <1>1, <2>1, <2>2, <2>4 DEF Memory!IInv, Memory!DrawnFresh
  <2> QED BY <1>1, <1>2, <2>1, <2>3, <2>4
<1> QED BY <1>4, <1>5, <1>6 DEF Memory!IInv

\* Issue under the write lock.  An entry that is overwritten in byPair was out of date
\* at the time the caller had read, so it still is.
LEMMA MemoryStoreKeeps ==
  ASSUME Memory!IInv, NEW c \in Callers, Memory!Store(c)
  PROVE  Memory!IInv'
<1> DEFINE e == <<masked[c], token[c], Memory!Expiry(read[c])>>
<1>1. /\ mpc[c] = "drawn" /\ Memory!Winner(c) = {}
      /\ byPair' = {d \in byPair : d[1] # masked[c]} \cup {e} /\ byTok' = byTok \cup {e}
      /\ mever' = IF Memory!ExpiredAt(e, mnow) THEN mever ELSE mever \cup {<<masked[c], token[c]>>}
      /\ mpc' = [mpc EXCEPT ![c] = "issued"]
      /\ UNCHANGED <<mnow, masked, read, token, drawn>>
  BY DEF Memory!Store
<1>2. /\ masked[c] \in Memory!Identities /\ read[c] \in Nat /\ read[c] <= mnow /\ mnow \in Nat
      /\ token[c] \in drawn /\ token[c] \in Tokens
  BY <1>1 DEF Memory!IInv, Memory!TypeOK, Memory!DrawnFresh
<1>3. Memory!Expiry(read[c]) \in Nat
  BY <1>2, MemoryAssumption DEF Memory!Expiry
<1>4. e \in Memory!Entries /\ e[1] = masked[c] /\ e[2] = token[c]
  BY <1>2, <1>3 DEF Memory!Entries
<1>5. <<masked[c], token[c]>> \in Memory!Identities \X Tokens
  BY <1>2
<1> HIDE DEF e
<1>6. Memory!TypeOK'
  <2>1. byPair' \subseteq Memory!Entries /\ byTok' \subseteq Memory!Entries
    BY <1>1, <1>4 DEF Memory!IInv, Memory!TypeOK
  <2>2. mever' \subseteq Memory!Identities \X Tokens
    BY <1>1, <1>5 DEF Memory!IInv, Memory!TypeOK
  <2>3. mpc' \in [Callers -> {"idle", "drawn", "issued"}]
    BY <1>1 DEF Memory!IInv, Memory!TypeOK
  <2> QED BY <1>1, <2>1, <2>2, <2>3 DEF Memory!IInv, Memory!TypeOK
<1>7. Memory!PairResolves'
  BY <1>1 DEF Memory!IInv, Memory!PairResolves
<1>8. Memory!LeftBehind'
  <2> SUFFICES ASSUME NEW d \in byTok, d \notin byPair' PROVE Memory!ExpiredAt(d, mnow)
    BY <1>1 DEF Memory!LeftBehind, Memory!ExpiredAt
  <2>1. CASE d \in byPair
    <3>1. d[1] = masked[c] /\ d[3] \in Nat
      BY <1>1, <2>1 DEF Memory!IInv, Memory!TypeOK, Memory!Entries
    <3>2. Memory!ExpiredAt(d, read[c])
      BY <1>1, <2>1, <3>1 DEF Memory!Winner, Memory!Held
    <3> QED BY <1>2, <3>1, <3>2 DEF Memory!ExpiredAt
  <2>2. CASE d \notin byPair
    BY <2>2 DEF Memory!IInv, Memory!LeftBehind
  <2> QED BY <2>1, <2>2
<1>9. Memory!DrawnFresh'
  <2>1. /\ \A d \in byTok' : d[2] \in drawn /\ (d \in byTok \/ d[2] = token[c])
        /\ \A b \in mever' : b[2] \in drawn /\ (b \in mever \/ b[2] = token[c])
    BY <1>1, <1>2, <1>4 DEF Memory!IInv, Memory!DrawnFresh
  <2>2. \A d \in Callers : mpc'[d] = "drawn" => d # c /\ mpc[d] = "drawn"
    BY <1>1 DEF Memory!IInv, Memory!TypeOK
  <2> QED BY <1>1, <2>1, <2>2 DEF Memory!IInv, Memory!DrawnFresh
<1> QED BY <1>6, <1>7, <1>8, <1>9 DEF Memory!IInv

LEMMA MemoryOthersKeep ==
  ASSUME Memory!IInv,
         \/ \E c \in Callers : Memory!Adopt(c) \/ Memory!Return(c)
         \/ \E tenant \in Tenants : Memory!Clear(tenant)
         \/ Memory!Tick \/ UNCHANGED Memory!vars
  PROVE  Memory!IInv'
<1>1. ASSUME NEW c \in Callers, Memory!Adopt(c) \/ Memory!Return(c) PROVE Memory!IInv'
  <2>1. /\ UNCHANGED <<byPair, byTok, mnow, drawn, mever>>
        /\ mpc' = [mpc EXCEPT ![c] = "issued"] \/ mpc' = [mpc EXCEPT ![c] = "idle"]
        /\ masked' = masked \/ masked' = [masked EXCEPT ![c] = Memory!NoIdentity]
        /\ read' = read \/ read' = [read EXCEPT ![c] = 0]
        /\ \/ \E e \in byPair : token' = [token EXCEPT ![c] = e[2]]
           \/ token' = [token EXCEPT ![c] = None]
    BY <1>1 DEF Memory!Adopt, Memory!Return, Memory!Winner, Memory!Held
  <2>2. Memory!NoIdentity \in Memory!Identities
    BY NoIdentityIs DEF NoIdentity, Identities, Memory!NoIdentity, Memory!Identities
  <2>3. \A e \in byPair : e[2] \in Tokens
    BY DEF Memory!IInv, Memory!TypeOK, Memory!Entries
  <2>4. Memory!TypeOK'
    <3>1. /\ mpc' \in [Callers -> {"idle", "drawn", "issued"}]
          /\ masked' \in [Callers -> Memory!Identities] /\ read' \in [Callers -> Nat]
      BY <2>1, <2>2 DEF Memory!IInv, Memory!TypeOK
    <3>2. token' \in [Callers -> Tokens \cup {None}]
      BY <2>1, <2>3 DEF Memory!IInv, Memory!TypeOK
    <3> QED BY <2>1, <3>1, <3>2 DEF Memory!IInv, Memory!TypeOK
  <2>5. Memory!PairResolves' /\ Memory!LeftBehind'
    BY <2>1 DEF Memory!IInv, Memory!PairResolves, Memory!LeftBehind, Memory!ExpiredAt
  <2>6. \A d \in Callers : mpc'[d] = "drawn" =>
          mpc[d] = "drawn" /\ token'[d] = token[d] /\ read'[d] = read[d]
    BY <2>1 DEF Memory!IInv, Memory!TypeOK
  <2>7. Memory!DrawnFresh'
    BY <2>1, <2>6 DEF Memory!IInv, Memory!DrawnFresh
  <2> QED BY <2>4, <2>5, <2>7 DEF Memory!IInv
<1>2. ASSUME NEW tenant, Memory!Clear(tenant) PROVE Memory!IInv'
  <2>1. /\ byTok' = {e \in byTok : e[1][1] # tenant} /\ byPair' = {e \in byPair : e[1][1] # tenant}
        /\ UNCHANGED <<mnow, mpc, masked, read, token, drawn, mever>>
    BY <1>2 DEF Memory!Clear, Memory!PairsLeft
  <2>2. Memory!TypeOK' /\ Memory!PairResolves'
    BY <2>1 DEF Memory!IInv, Memory!TypeOK, Memory!PairResolves
  <2>3. Memory!LeftBehind' /\ Memory!DrawnFresh'
    BY <2>1 DEF Memory!IInv, Memory!LeftBehind, Memory!DrawnFresh, Memory!ExpiredAt
  <2> QED BY <2>2, <2>3 DEF Memory!IInv
<1>3. ASSUME Memory!Tick \/ UNCHANGED Memory!vars PROVE Memory!IInv'
  <2>1. /\ (mnow' = mnow \/ mnow' = mnow + 1) /\ mnow \in Nat \ {0}
        /\ UNCHANGED <<byPair, byTok, mpc, masked, read, token, drawn, mever>>
    BY <1>3 DEF Memory!Tick, Memory!vars, Memory!IInv, Memory!TypeOK
  <2>2. mnow' \in Nat \ {0} /\ mnow <= mnow'
    BY <2>1
  <2>3. Memory!TypeOK' /\ Memory!PairResolves'
    BY <2>1, <2>2 DEF Memory!IInv, Memory!TypeOK, Memory!PairResolves
  <2>4. Memory!LeftBehind'
    <3>1. \A e \in byTok : e[3] \in Nat
      BY DEF Memory!IInv, Memory!TypeOK, Memory!Entries
    <3>2. \A e \in byTok : Memory!ExpiredAt(e, mnow) => Memory!ExpiredAt(e, mnow')
      BY <2>1, <2>2, <3>1 DEF Memory!ExpiredAt
    <3> QED BY <2>1, <3>2 DEF Memory!IInv, Memory!LeftBehind, Memory!ExpiredAt
  <2>5. Memory!DrawnFresh'
    <3>1. \A c \in Callers : read[c] \in Nat /\ (read[c] <= mnow => read[c] <= mnow')
      BY <2>1, <2>2 DEF Memory!IInv, Memory!TypeOK
    <3> QED BY <2>1, <3>1 DEF Memory!IInv, Memory!DrawnFresh
  <2> QED BY <2>3, <2>4, <2>5 DEF Memory!IInv
<1> QED BY <1>1, <1>2, <1>3

LEMMA MemoryStep == Memory!IInv /\ [Memory!Next]_(Memory!vars) => Memory!IInv'
  BY LookupKeeps, MemoryStoreKeeps, MemoryOthersKeep DEF Memory!Next

\* The invariant of the memory driver, for any callers, values and TTL: its two maps stay
\* together, and a drawn token belongs to one caller until it is stored.
THEOREM MemoryInvariant == Memory!Spec => []Memory!IInv
  BY MemoryInit, MemoryStep, PTL DEF Memory!Spec

\* What resolves now (Contract's live in MemoryTokens).
MemoryLive == {<<e[1], e[2]>> : e \in {d \in byTok : ~Memory!ExpiredAt(d, mnow)}}

\* Issue under the write lock creates a mapping, unless its time read is already too old.
LEMMA MemoryStoreIssues ==
  ASSUME Memory!IInv, NEW c \in Callers, Memory!Store(c)
  PROVE  Memory!Contract!Next \/ UNCHANGED <<MemoryLive, mever>>
<1> DEFINE e == <<masked[c], token[c], Memory!Expiry(read[c])>>
           b == <<masked[c], token[c]>>
<1>1. /\ mpc[c] = "drawn" /\ Memory!Winner(c) = {} /\ byTok' = byTok \cup {e} /\ mnow' = mnow
      /\ mever' = IF Memory!ExpiredAt(e, mnow) THEN mever ELSE mever \cup {b}
  BY DEF Memory!Store
<1>2. /\ masked[c] \in Memory!Identities /\ token[c] \in Tokens
      /\ read[c] \in Nat /\ read[c] <= mnow /\ mnow \in Nat
  BY <1>1 DEF Memory!IInv, Memory!TypeOK, Memory!DrawnFresh
<1>3. <<e[1], e[2]>> = b /\ b \in Memory!Identities \X Tokens
      /\ b[1] = masked[c] /\ b[2] = token[c]
  BY <1>2
<1> HIDE DEF e, b
<1>4. CASE Memory!ExpiredAt(e, mnow)
  <2>1. {d \in byTok' : ~Memory!ExpiredAt(d, mnow)} = {d \in byTok : ~Memory!ExpiredAt(d, mnow)}
    BY <1>1, <1>4
  <2> QED BY <1>1, <1>4, <2>1 DEF MemoryLive, Memory!ExpiredAt
<1>5. CASE ~Memory!ExpiredAt(e, mnow)
  <2>1. {d \in byTok' : ~Memory!ExpiredAt(d, mnow)} = {d \in byTok : ~Memory!ExpiredAt(d, mnow)} \cup {e}
    BY <1>1, <1>5
  <2>2. MemoryLive' = {<<d[1], d[2]>> : d \in {d \in byTok' : ~Memory!ExpiredAt(d, mnow)}}
    BY <1>1 DEF MemoryLive, Memory!ExpiredAt
  <2>3. MemoryLive' = MemoryLive \cup {b}
    BY <1>3, <2>1, <2>2 DEF MemoryLive
  <2>4. \A d \in byTok : d[1] = masked[c] => Memory!ExpiredAt(d, mnow)
    <3> SUFFICES ASSUME NEW d \in byTok, d[1] = masked[c], d \in byPair
                 PROVE  Memory!ExpiredAt(d, mnow)
      BY DEF Memory!IInv, Memory!LeftBehind
    <3>1. d[3] \in Nat /\ Memory!ExpiredAt(d, read[c])
      BY <1>1 DEF Memory!Winner, Memory!Held, Memory!IInv, Memory!TypeOK, Memory!Entries
    <3> QED BY <1>2, <3>1 DEF Memory!ExpiredAt
  <2>5. (\A l \in MemoryLive : l[1] # b[1]) /\ (\A l \in mever : l[2] = b[2] => l[1] = b[1])
    BY <1>1, <1>3, <2>4 DEF MemoryLive, Memory!IInv, Memory!DrawnFresh
  <2>6. Memory!Contract!Issue(b) /\ b \in MemoryLive'
    BY <1>1, <1>3, <1>5, <2>3, <2>5 DEF Memory!Contract!Issue, MemoryLive
  <2>7. \E l \in MemoryLive' : Memory!Contract!Issue(l)
    BY <2>6 DEF Memory!Contract!Issue
  <2> QED BY <2>7 DEF Memory!Contract!Next, MemoryLive
<1> QED BY <1>4, <1>5

\* The memory driver implements TokenStore, and its maps stay together: the time Issue
\* reads before its locks is never later than the clock at the write, so an entry it
\* overwrites no longer resolves.
THEOREM MemoryRefinesContract == Memory!Spec => MemoryImplementsContract
<1>1. Memory!Init => Memory!Contract!Init
  BY DEF Memory!Init, Memory!Contract!Init
<1>2. Memory!IInv /\ [Memory!Next]_(Memory!vars) => [Memory!Contract!Next]_<<MemoryLive, mever>>
  <2> SUFFICES ASSUME Memory!IInv, [Memory!Next]_(Memory!vars)
               PROVE  Memory!Contract!Next \/ UNCHANGED <<MemoryLive, mever>>
    OBVIOUS
  <2>1. ASSUME NEW c \in Callers,
               (\E i \in Memory!Identities : Memory!Lookup(c, i)) \/ Memory!Adopt(c) \/ Memory!Return(c)
        PROVE  UNCHANGED <<MemoryLive, mever>>
    BY <2>1 DEF Memory!Lookup, Memory!Adopt, Memory!Return, MemoryLive, Memory!ExpiredAt
  <2>2. ASSUME (\E tenant \in Tenants : Memory!Clear(tenant)) \/ Memory!Tick
        PROVE  Memory!Contract!Lose
    <3>1. mever' = mever /\ byTok' \subseteq byTok /\ (mnow' = mnow \/ mnow' = mnow + 1)
      BY <2>2 DEF Memory!Clear, Memory!Tick
    <3>2. mnow \in Nat /\ \A e \in byTok : e[3] \in Nat
      BY DEF Memory!IInv, Memory!TypeOK, Memory!Entries
    <3>3. \A e \in byTok' : Memory!ExpiredAt(e, mnow) => Memory!ExpiredAt(e, mnow')
      BY <3>1, <3>2 DEF Memory!ExpiredAt
    <3>4. MemoryLive' \subseteq MemoryLive
      BY <3>1, <3>3 DEF MemoryLive, Memory!ExpiredAt
    <3> QED BY <3>1, <3>4 DEF Memory!Contract!Lose, MemoryLive
  <2>3. CASE UNCHANGED Memory!vars
    BY <2>3 DEF Memory!vars, MemoryLive, Memory!ExpiredAt
  <2> QED BY MemoryStoreIssues, <2>1, <2>2, <2>3 DEF Memory!Next, Memory!Contract!Next
<1> QED BY <1>1, <1>2, MemoryInvariant, PTL
        DEF Memory!Spec, Memory!ImplementsContract, Memory!Contract!Spec, MemoryLive,
            MemoryImplementsContract

\* In the specification of the run, where a behaviour is of one driver and the other
\* one stays as it began, both keep their tables.
THEOREM DriversTablesKept == EitherSpec => []TablesKept
<1>1. EitherInit => Init /\ Memory!Init
  BY DEF EitherInit
<1>2. [EitherNext]_<<driver, vars, memoryVars>> => [Next]_vars
  BY DEF EitherNext, vars, memoryVars
<1>3. [EitherNext]_<<driver, vars, memoryVars>> => [Memory!Next]_(Memory!vars)
  BY DEF EitherNext, memoryVars, Memory!vars
<1>4. EitherSpec => Spec /\ Memory!Spec
  BY <1>1, <1>2, <1>3, PTL DEF EitherSpec, Spec, Memory!Spec
<1> QED BY <1>4, CacheInvariant, MemoryInvariant, PTL DEF TablesKept

=============================================================================
