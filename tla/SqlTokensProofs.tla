--------------------------- MODULE SqlTokensProofs ---------------------------
(***************************************************************************)
(* The SQL token store, for any tenants, namespaces, values, callers and   *)
(* TTL: its invariant, that an issued token resolves at once, that callers *)
(* converge, and that the table implements the contract of every driver.   *)
(* UNIQUE makes the refused INSERT harmless; that the drawn token is fresh *)
(* makes an adopted one safe.  Then the sidecar, the other part of the run *)
(* MCErasure, and the run itself.                                          *)
(***************************************************************************)
EXTENDS MCErasure, TLAPS

\* The row a caller's INSERT stores, and its <<identity, token>> pair.
NewRow(c) == [scope |-> asked[c][1], value |-> asked[c][2],
              token |-> token[c], expires |-> Stamp]

LEMMA InitIInv == Init => IInv
  BY SqlAssumption
  DEF Init, IInv, TypeOK, OneRow, RowsRecorded, EverDrawn, TokenUnique, PendingFresh,
      Pending, IssuedRecorded

\* A stamp is a legal expiry, and later than now if it is an expiry at all.
LEMMA StampFact == ASSUME TypeOK PROVE Stamp \in Nat /\ (Stamp = Never \/ Stamp > now)
  BY SqlAssumption DEF Stamp, Never, TypeOK

\* The step that stores a row: the constraint keeps the identity's row unique,
\* and the token was drawn by this caller alone.
LEMMA StoreIInv ==
  ASSUME IInv, NEW c \in Callers, pc[c] = "insert", KeyFree(c), Store(c),
         pc' \in {[pc EXCEPT ![c] = "issued"], [pc EXCEPT ![c] = "again"]},
         excused' \in [Callers -> BOOLEAN],
         UNCHANGED <<now, asked, token, drawn>>
  PROVE  IInv'
  <1> DEFINE row == NewRow(c)
             b   == <<asked[c], token[c]>>
  <1>1. /\ asked[c] \in Identities
        /\ asked[c][1] \in Scopes /\ asked[c][2] \in Values
        /\ asked[c] = <<asked[c][1], asked[c][2]>>
    BY DEF IInv, TypeOK, Identities
  <1>2. token[c] \in drawn /\ token[c] \in Tokens /\ (\A d \in ever : d[2] # token[c])
    BY DEF IInv, PendingFresh, Pending, TypeOK
  <1>3. rows' = rows \cup {row} /\ ever' = ever \cup {b}
    BY DEF Store, NewRow
  <1>4. row \in Row /\ row.scope = asked[c][1] /\ row.value = asked[c][2] /\ row.token = token[c]
    BY <1>1, <1>2, StampFact DEF NewRow, Row, IInv, Expiries
  <1>5. \A r \in rows : r.token # token[c] /\ ~(r.scope = row.scope /\ r.value = row.value)
    BY <1>2, <1>4 DEF IInv, RowsRecorded, KeyFree, RowsOf
  <1> HIDE DEF row
  <1>6. TypeOK'
    BY <1>1, <1>2, <1>3, <1>4 DEF IInv, TypeOK
  <1>7. OneRow'
    BY <1>3, <1>4, <1>5 DEF IInv, OneRow
  <1>8. RowsRecorded'
    BY <1>1, <1>3, <1>4 DEF IInv, RowsRecorded
  <1>9. EverDrawn' /\ TokenUnique'
    BY <1>2, <1>3 DEF IInv, EverDrawn, TokenUnique
  <1>10. PendingFresh'
    BY <1>2, <1>3 DEF IInv, TypeOK, PendingFresh, Pending
  <1>11. IssuedRecorded'
    BY <1>3 DEF IInv, TypeOK, IssuedRecorded
  <1> QED BY <1>6, <1>7, <1>8, <1>9, <1>10, <1>11 DEF IInv

\* The token of a row that a SELECT found was stored for that identity.
LEMMA SelectedFact ==
  ASSUME IInv, NEW c \in Callers, NEW r \in Selected(asked[c])
  PROVE  /\ r.token \in Tokens
         /\ <<asked[c], r.token>> \in ever
         /\ Resolved(asked[c][1], r.token) = {asked[c][2]}
  <1>1. /\ r \in rows /\ r.scope = asked[c][1] /\ r.value = asked[c][2] /\ Unexpired(r)
        /\ asked[c] = <<asked[c][1], asked[c][2]>>
        /\ r.token \in Tokens
    BY DEF Selected, RowsOf, IInv, TypeOK, Identities, Row
  <1> QED BY <1>1 DEF IInv, RowsRecorded, OneRow, Resolved

LEMMA NextIInv == IInv /\ [Next]_vars => IInv'
  <1> SUFFICES ASSUME IInv, [Next]_vars PROVE IInv'
    OBVIOUS
  <1> USE DEF IInv
  <1>1. ASSUME NEW c \in Callers, NEW i \in Identities, Call(c, i) PROVE IInv'
    BY <1>1
    DEF Call, TypeOK, OneRow, RowsRecorded, EverDrawn, TokenUnique, PendingFresh, Pending,
        IssuedRecorded
  <1>2. ASSUME NEW c \in Callers, LookupHit(c) \/ Adopt(c) PROVE IInv'
    <2>1. PICK r \in Selected(asked[c]) : token' = [token EXCEPT ![c] = r.token]
      BY <1>2 DEF LookupHit, Adopt
    <2>2. r.token \in Tokens /\ <<asked[c], r.token>> \in ever
      BY <2>1, SelectedFact
    <2>3. /\ pc' = [pc EXCEPT ![c] = "issued"] /\ pc[c] # "insert"
          /\ UNCHANGED <<rows, now, asked, drawn, excused, ever>>
      BY <1>2 DEF LookupHit, Adopt
    <2>4. TypeOK' /\ OneRow' /\ RowsRecorded' /\ EverDrawn' /\ TokenUnique'
      BY <2>1, <2>2, <2>3 DEF TypeOK, OneRow, RowsRecorded, EverDrawn, TokenUnique
    <2>5. PendingFresh'
      BY <2>1, <2>3 DEF PendingFresh, Pending, TypeOK
    <2>6. IssuedRecorded'
      BY <2>1, <2>2, <2>3 DEF IssuedRecorded, TypeOK
    <2> QED BY <2>4, <2>5, <2>6
  <1>3. ASSUME NEW c \in Callers, LookupMiss(c) PROVE IInv'
    <2>1. PICK t \in Tokens \ drawn :
            /\ token' = [token EXCEPT ![c] = t]
            /\ drawn' = drawn \cup {t}
      BY <1>3 DEF LookupMiss
    <2>2. pc' = [pc EXCEPT ![c] = "insert"] /\ UNCHANGED <<rows, now, asked, excused, ever>>
      BY <1>3 DEF LookupMiss
    <2>3. TypeOK' /\ OneRow' /\ RowsRecorded' /\ EverDrawn' /\ TokenUnique'
      BY <2>1, <2>2 DEF TypeOK, OneRow, RowsRecorded, EverDrawn, TokenUnique
    <2>4. PendingFresh'
      BY <2>1, <2>2 DEF PendingFresh, Pending, TypeOK, EverDrawn
    <2>5. IssuedRecorded'
      BY <2>1, <2>2 DEF IssuedRecorded, TypeOK
    <2> QED BY <2>3, <2>4, <2>5
  <1>4. ASSUME NEW c \in Callers, Insert(c) PROVE IInv'
    <2>1. excused' \in [Callers -> BOOLEAN]
      BY <1>4 DEF Insert, TypeOK
    <2> QED BY <1>4, <2>1, StoreIInv DEF Insert
  <1>5. ASSUME NEW c \in Callers, InsertFails(c) PROVE IInv'
    <2>1. excused' \in [Callers -> BOOLEAN]
      BY <1>5 DEF InsertFails, TypeOK
    <2>2. CASE KeyFree(c) /\ Store(c)
      BY <1>5, <2>1, <2>2, StoreIInv DEF InsertFails
    <2>3. CASE UNCHANGED <<rows, ever>>
      BY <1>5, <2>1, <2>3
      DEF InsertFails, TypeOK, OneRow, RowsRecorded, EverDrawn, TokenUnique, PendingFresh,
          Pending, IssuedRecorded
    <2> QED BY <1>5, <2>2, <2>3 DEF InsertFails
  <1>6. ASSUME NEW c \in Callers,
               InsertRefused(c) \/ NoWinner(c) \/ SelectFails(c) \/ Return(c)
        PROVE IInv'
    <2>1. /\ \E p \in {"again", "failed", "idle"} : pc' = [pc EXCEPT ![c] = p]
          /\ token' \in {token, [token EXCEPT ![c] = None]}
          /\ excused' \in [Callers -> BOOLEAN]
          /\ UNCHANGED <<rows, now, asked, drawn, ever>>
      BY <1>6 DEF InsertRefused, NoWinner, SelectFails, Return, TypeOK
    <2>2. TypeOK' /\ OneRow' /\ RowsRecorded' /\ EverDrawn' /\ TokenUnique'
      BY <2>1 DEF TypeOK, OneRow, RowsRecorded, EverDrawn, TokenUnique
    <2>3. PendingFresh' /\ IssuedRecorded'
      BY <2>1 DEF PendingFresh, Pending, IssuedRecorded, TypeOK
    <2> QED BY <2>2, <2>3
  <1>7. ASSUME NEW t \in Erasable, Clear(t) PROVE IInv'
    BY <1>7
    DEF Clear, TypeOK, OneRow, RowsRecorded, EverDrawn, TokenUnique, PendingFresh, Pending,
        IssuedRecorded
  <1>8. CASE Tick
    BY <1>8
    DEF Tick, TypeOK, OneRow, RowsRecorded, EverDrawn, TokenUnique, PendingFresh, Pending,
        IssuedRecorded
  <1>9. CASE UNCHANGED vars
    BY <1>9
    DEF vars, TypeOK, OneRow, RowsRecorded, EverDrawn, TokenUnique, PendingFresh, Pending,
        IssuedRecorded
  <1> QED BY <1>1, <1>2, <1>3, <1>4, <1>5, <1>6, <1>7, <1>8, <1>9 DEF Next

\* The invariant of the table and its callers, in every reachable state.
THEOREM SqlInvariant == Spec => []IInv
  <1> QED BY InitIInv, NextIInv, PTL DEF Spec

-----------------------------------------------------------------------------
\* Whatever statements fail or interleave, the token Issue returns resolves to
\* the caller's value.
THEOREM SqlIssuedResolves == Spec => IssuedResolves
  <1>1. IInv /\ IInv' /\ [Next]_vars
          => [\A c \in Callers : pc[c] # "issued" /\ pc'[c] = "issued" => Answered(c)']_vars
    <2> SUFFICES ASSUME IInv, IInv', Next,
                        NEW c \in Callers, pc[c] # "issued", pc'[c] = "issued"
                 PROVE  Answered(c)'
      OBVIOUS
    <2>1. CASE LookupHit(c) \/ Adopt(c)
      <3>1. PICK r \in Selected(asked[c]) : token' = [token EXCEPT ![c] = r.token]
        BY <2>1 DEF LookupHit, Adopt
      <3>2. UNCHANGED <<rows, now, asked>> /\ token'[c] = r.token
        BY <2>1, <3>1 DEF LookupHit, Adopt, IInv, TypeOK
      <3>3. Resolved(asked[c][1], r.token) = {asked[c][2]}
        BY <3>1, SelectedFact
      <3> QED BY <3>2, <3>3 DEF Answered, Resolved, Unexpired
    <2>2. CASE Insert(c)
      <3>1. NewRow(c) \in rows' /\ UNCHANGED <<now, asked, token>>
        BY <2>2 DEF Insert, Store, NewRow
      <3>2. Unexpired(NewRow(c))'
        BY <2>2, StampFact DEF Insert, NewRow, Unexpired, IInv, Stamp
      <3>3. \A r \in rows' : r.token = token[c] => r = NewRow(c)
        BY <3>1 DEF IInv, OneRow, NewRow
      <3>4. /\ NewRow(c).scope = asked[c][1] /\ NewRow(c).value = asked[c][2]
            /\ NewRow(c).token = token[c]
        BY DEF NewRow
      <3>5. \A r \in rows' : r.token = token[c] => r.value = asked[c][2]
        BY <3>3, <3>4
      <3>6. /\ NewRow(c).expires = Never \/ NewRow(c).expires > now'
        BY <3>1, StampFact DEF NewRow, IInv
      <3> QED BY <3>1, <3>4, <3>5, <3>6 DEF Answered, Resolved, Unexpired
    <2>3. CASE ~(LookupHit(c) \/ Adopt(c) \/ Insert(c))
      <3>1. ASSUME NEW d \in Callers,
                   \/ \E i \in Identities : Call(d, i)
                   \/ LookupMiss(d) \/ InsertRefused(d) \/ InsertFails(d)
                   \/ NoWinner(d) \/ SelectFails(d) \/ Return(d)
            PROVE FALSE
        BY <3>1
        DEF IInv, TypeOK, Call, LookupMiss, InsertRefused, InsertFails, NoWinner,
            SelectFails, Return
      <3>2. ASSUME NEW d \in Callers, d # c, LookupHit(d) \/ Adopt(d) \/ Insert(d)
            PROVE FALSE
        BY <3>2 DEF IInv, TypeOK, LookupHit, Adopt, Insert
      <3>3. ASSUME (\E t \in Erasable : Clear(t)) \/ Tick PROVE FALSE
        BY <3>3 DEF Clear, Tick
      <3> QED BY <2>3, <3>1, <3>2, <3>3 DEF Next
    <2> QED BY <2>1, <2>2, <2>3
  <1> QED BY <1>1, SqlInvariant, PTL DEF Spec, IssuedResolves

\* Callers that hold a token of one identity hold the same one.
THEOREM SqlConverge == Spec => []Converge
  <1>1. IInv => Converge
    <2> SUFFICES ASSUME IInv, NEW c \in Callers, NEW d \in Callers,
                        pc[c] = "issued", pc[d] = "issued", asked[c] = asked[d],
                        Resolved(asked[c][1], token[c]) # {},
                        Resolved(asked[d][1], token[d]) # {}
                 PROVE  token[c] = token[d]
      BY DEF Converge
    <2>1. PICK r \in rows : r.token = token[c] BY DEF Resolved
    <2>2. PICK q \in rows : q.token = token[d] BY DEF Resolved
    <2>3. <<r.scope, r.value>> = asked[c] /\ <<q.scope, q.value>> = asked[d]
      <3>1. /\ << <<r.scope, r.value>>, r.token >> \in ever /\ <<asked[c], token[c]>> \in ever
            /\ << <<q.scope, q.value>>, q.token >> \in ever /\ <<asked[d], token[d]>> \in ever
        BY DEF IInv, RowsRecorded, IssuedRecorded
      <3> QED BY <3>1, <2>1, <2>2 DEF IInv, TokenUnique
    <2>4. r = q BY <2>3 DEF IInv, OneRow
    <2> QED BY <2>1, <2>2, <2>4
  <1> QED BY <1>1, SqlInvariant, PTL

-----------------------------------------------------------------------------
\* The refinement: storing a row issues a token, time and an erasure lose some,
\* and every other step stutters.
Live == {<< <<r.scope, r.value>>, r.token >> : r \in {q \in rows : Unexpired(q)}}

LEMMA StoreIssues ==
  ASSUME IInv, IInv', NEW c \in Callers, pc[c] = "insert", KeyFree(c), Store(c),
         UNCHANGED <<now, asked, token>>
  PROVE  Contract!Next
  <1> DEFINE b == <<asked[c], token[c]>>
  <1>1. rows' = rows \cup {NewRow(c)} /\ ever' = ever \cup {b}
    BY DEF Store, NewRow
  <1>2. /\ asked[c] = <<NewRow(c).scope, NewRow(c).value>> /\ NewRow(c).token = token[c]
        /\ b \in Identities \X Tokens
    BY DEF NewRow, IInv, TypeOK, Identities, PendingFresh, Pending
  <1>3. NewRow(c).expires = Never \/ NewRow(c).expires > now
    BY StampFact DEF NewRow, IInv
  <1>4. Live' = Live \cup {b}
    BY <1>1, <1>2, <1>3 DEF Live, Unexpired
  <1>5. \A d \in Live : d[1] # b[1]
    BY <1>2 DEF Live, KeyFree, RowsOf, NewRow
  <1>6. \A d \in ever : d[2] # b[2]
    BY DEF IInv, PendingFresh, Pending
  <1> HIDE DEF b
  <1>7. \E d \in Live' : Contract!Issue(d)
    <2>1. b \in Live' BY <1>4
    <2>2. Contract!Issue(b)
      BY <1>1, <1>2, <1>4, <1>5, <1>6 DEF Contract!Issue, Live
    <2> QED BY <2>1, <2>2 DEF Contract!Issue
  <1> QED BY <1>7 DEF Contract!Next, Live

\* A SQL token table, with its three-statement Issue, implements TokenStore.
THEOREM SqlRefinesContract == Spec => ImplementsContract
  <1>1. Init => Contract!Init
    BY DEF Init, Contract!Init
  <1>2. IInv /\ IInv' /\ [Next]_vars => [Contract!Next]_<<Live, ever>>
    <2> SUFFICES ASSUME IInv, IInv', [Next]_vars
                 PROVE  Contract!Next \/ UNCHANGED <<Live, ever>>
      OBVIOUS
    <2>1. ASSUME NEW c \in Callers, Insert(c) PROVE Contract!Next
      BY <2>1, StoreIssues DEF Insert
    <2>2. ASSUME NEW c \in Callers, InsertFails(c)
          PROVE  Contract!Next \/ UNCHANGED <<Live, ever>>
      <3>1. CASE KeyFree(c) /\ Store(c)
        BY <2>2, <3>1, StoreIssues DEF InsertFails
      <3>2. CASE UNCHANGED <<rows, ever>>
        BY <2>2, <3>2 DEF InsertFails, Live, Unexpired
      <3> QED BY <2>2, <3>1, <3>2 DEF InsertFails
    <2>3. ASSUME NEW c \in Callers,
                 \/ \E i \in Identities : Call(c, i)
                 \/ LookupHit(c) \/ LookupMiss(c) \/ InsertRefused(c) \/ Adopt(c)
                 \/ NoWinner(c) \/ SelectFails(c) \/ Return(c)
          PROVE  UNCHANGED <<Live, ever>>
      BY <2>3
      DEF Call, LookupHit, LookupMiss, InsertRefused, Adopt, NoWinner, SelectFails, Return,
          Live, Unexpired
    <2>4. ASSUME (\E t \in Erasable : Clear(t)) \/ Tick PROVE Contract!Lose
      <3>1. Live' \subseteq Live
        <4>1. CASE Tick
          <5>1. rows' = rows /\ now' = now + 1 /\ now \in Nat
            BY <4>1 DEF Tick, IInv, TypeOK
          <5>2. \A r \in rows : r.expires \in Nat
            BY DEF IInv, TypeOK, Row, Expiries
          <5>3. \A r \in rows : Unexpired(r)' => Unexpired(r)
            BY <5>1, <5>2 DEF Unexpired
          <5> QED BY <5>1, <5>3 DEF Live
        <4>2. CASE \E t \in Erasable : Clear(t)
          BY <4>2 DEF Clear, Live, Unexpired
        <4> QED BY <2>4, <4>1, <4>2
      <3> QED BY <2>4, <3>1 DEF Clear, Tick, Contract!Lose, Live
    <2>5. CASE UNCHANGED vars
      BY <2>5 DEF vars, Live, Unexpired
    <2> QED BY <2>1, <2>2, <2>3, <2>4, <2>5 DEF Next, Contract!Next
  <1> QED BY <1>1, <1>2, SqlInvariant, PTL DEF Spec, ImplementsContract, Contract!Spec, Live

(***************************************************************************)
(* The sidecar (SidecarStreams), for any tenants, sessions and calls: the  *)
(* inductive invariant IInv, that an object belongs to one session and     *)
(* that what an erasure has gone through stays clean; and from it, that    *)
(* nobody is given anything of another session and that an erasure which   *)
(* reports success has reached all that was there.                         *)
(***************************************************************************)
LEMMA SidecarInit == Sidecar!Init => Sidecar!IInv
<1> SUFFICES ASSUME Sidecar!Init PROVE Sidecar!IInv
  OBVIOUS
<1>1. Sidecar!TypeOK
  <2>1. /\ vault \in [Sidecar!Refs -> Nat] /\ tokens \in [Tenants -> SUBSET Sidecar!Ages]
        /\ streamers \in [Sidecar!Keys -> Nat]
    BY DEF Sidecar!Init
  <2>2. /\ owner \in Seq(Sidecar!Refs) /\ content \in Seq(SUBSET Sidecar!Ages)
        /\ Len(content) = Len(owner)
    BY DEF Sidecar!Init
  <2>3. made \in Seq(Sidecar!Restorer)
    BY DEF Sidecar!Init
  <2>4. call \in [Sidecar!Serving -> Sidecar!Call]
    BY DEF Sidecar!Init, Sidecar!NoCall, Sidecar!Call
  <2>5. erasing \in Sidecar!Erasure /\ crossed \in BOOLEAN
    BY DEF Sidecar!Init, Sidecar!Erasure
  <2> QED BY <2>1, <2>2, <2>3, <2>4, <2>5 DEF Sidecar!TypeOK
<1>2. Sidecar!Owned
  BY DEF Sidecar!Init, Sidecar!Owned, Sidecar!VaultsOwned, Sidecar!RestorersOwned,
     Sidecar!StreamsOwned, Sidecar!CallsOwned, Sidecar!At, Sidecar!NoCall, Sidecar!Keys
<1>3. Sidecar!Reached
  BY DEF Sidecar!Init, Sidecar!Reached
<1>4. ~crossed
  BY DEF Sidecar!Init
<1> QED BY <1>1, <1>2, <1>3, <1>4 DEF Sidecar!IInv

-----------------------------------------------------------------------------
\* A vault or a restorer that is made gets the next number: what the others are does
\* not change.
LEMMA Appended ==
  ASSUME NEW S, NEW seq \in Seq(S), NEW e \in S
  PROVE  /\ Append(seq, e) \in Seq(S) /\ Len(Append(seq, e)) = Len(seq) + 1
         /\ DOMAIN Append(seq, e) = DOMAIN seq \cup {Len(seq) + 1}
         /\ \A n \in DOMAIN seq : Append(seq, e)[n] = seq[n]
         /\ Append(seq, e)[Len(seq) + 1] = e /\ Len(seq) + 1 \notin DOMAIN seq
         /\ Len(seq) \in Nat
OBVIOUS

\* A sequence that is updated in its places stays a sequence of its length.
LEMMA SeqIsFunction ==
  ASSUME NEW S, NEW seq \in Seq(S)
  PROVE  /\ seq \in [1 .. Len(seq) -> S] /\ Len(seq) \in Nat /\ DOMAIN seq = 1 .. Len(seq)
         /\ \A f : f \in [1 .. Len(seq) -> S] => f \in Seq(S) /\ Len(f) = Len(seq)
OBVIOUS

\* One lemma per action: it keeps the invariant.
LEMMA ScopedKeeps ==
  ASSUME Sidecar!IInv, NEW c \in Sidecar!Serving, NEW ref \in Sidecar!Refs,
         NEW there \in {"redact", "chunk"},
         Sidecar!Scoped(c, ref, there)
  PROVE  Sidecar!IInv'
<1> DEFINE fresh == Len(owner) + 1
           v     == IF vault[ref] # 0 THEN vault[ref] ELSE fresh
<1> USE DEF Sidecar!IInv, Sidecar!Owned
<1>1. /\ call' = [call EXCEPT ![c] = [at |-> there, ref |-> ref, vault |-> v, restorer |-> 0]]
      /\ vault' = [vault EXCEPT ![ref] = v]
      /\ IF v = fresh THEN owner' = Append(owner, ref) /\ content' = Append(content, {})
                      ELSE UNCHANGED <<owner, content>>
      /\ UNCHANGED <<tokens, streamers, made, erasing, crossed>>
  BY DEF Sidecar!Scoped
<1>2. /\ owner' \in Seq(Sidecar!Refs) /\ content' \in Seq(SUBSET Sidecar!Ages)
      /\ Len(content') = Len(owner')
      /\ DOMAIN owner \subseteq DOMAIN owner' /\ \A n \in DOMAIN owner : owner'[n] = owner[n]
      /\ \A n \in DOMAIN owner : content'[n] = content[n]
      /\ v \in Nat \ {0} /\ v \in DOMAIN owner' /\ owner'[v] = ref
      /\ v \in DOMAIN owner \/ content'[v] = {}
  <2>1. CASE vault[ref] # 0
    <3>1. v = vault[ref] /\ v \in DOMAIN owner /\ owner[v] = ref /\ v # fresh
      BY <2>1 DEF Sidecar!VaultsOwned, Sidecar!TypeOK
    <3> QED BY <1>1, <3>1 DEF Sidecar!TypeOK
  <2>2. CASE vault[ref] = 0
    <3>1. v = fresh /\ owner' = Append(owner, ref) /\ content' = Append(content, {})
      BY <1>1, <2>2
    <3> QED BY <3>1, Appended DEF Sidecar!TypeOK
  <2> QED BY <2>1, <2>2
<1>3. Sidecar!TypeOK'
  BY <1>1, <1>2 DEF Sidecar!TypeOK, Sidecar!Call
<1>4. Sidecar!VaultsOwned'
  BY <1>1, <1>2 DEF Sidecar!VaultsOwned, Sidecar!TypeOK
<1>5. Sidecar!RestorersOwned' /\ Sidecar!StreamsOwned'
  BY <1>1, <1>2 DEF Sidecar!RestorersOwned, Sidecar!StreamsOwned, Sidecar!OwnerOf
<1>6. Sidecar!CallsOwned'
  <2> SUFFICES ASSUME NEW d \in Sidecar!Serving
               PROVE  /\ ~Sidecar!At(d, "idle")' => call'[d].ref \in Sidecar!Refs
                      /\ Sidecar!At(d, "redact")' \/ Sidecar!At(d, "chunk")' =>
                           /\ call'[d].vault \in DOMAIN owner'
                           /\ owner'[call'[d].vault] = call'[d].ref
                      /\ Sidecar!At(d, "feed")' =>
                           /\ call'[d].restorer \in DOMAIN made'
                           /\ Sidecar!OwnerOf(call[d].restorer)' = call'[d].ref
    BY DEF Sidecar!CallsOwned
  <2>1. CASE d = c
    BY <1>1, <1>2, <2>1 DEF Sidecar!At, Sidecar!TypeOK
  <2>2. CASE d # c
    <3>1. call'[d] = call[d]
      BY <1>1, <2>2 DEF Sidecar!TypeOK
    <3> QED BY <1>1, <1>2, <3>1 DEF Sidecar!CallsOwned, Sidecar!At, Sidecar!RestorersOwned,
       Sidecar!OwnerOf
  <2> QED BY <2>1, <2>2
<1>7. Sidecar!Reached'
  <2>1. Sidecar!VaultsClean => Sidecar!VaultsClean'
    BY <1>1, <1>2 DEF Sidecar!VaultsClean, Sidecar!VaultsOwned, Sidecar!TypeOK, Sidecar!IsOf
  <2>2. (Sidecar!TokensClean <=> Sidecar!TokensClean') /\ (Sidecar!StreamsClean <=> Sidecar!StreamsClean')
    BY <1>1 DEF Sidecar!TokensClean, Sidecar!StreamsClean, Sidecar!Within, Sidecar!IsOf
  <2> QED BY <1>1, <2>1, <2>2 DEF Sidecar!Reached
<1> QED BY <1>1, <1>3, <1>4, <1>5, <1>6, <1>7

-----------------------------------------------------------------------------
\* A call that is over, whatever its step did to the contents of objects.
LEMMA CallOver ==
  ASSUME Sidecar!IInv, NEW c \in Sidecar!Serving, Sidecar!Ended(c), owner' = owner,
         DOMAIN made' = DOMAIN made,
         \A s \in DOMAIN made : made'[s].vault = made[s].vault
  PROVE  /\ Sidecar!CallsOwned'
         /\ call' \in [Sidecar!Serving -> Sidecar!Call]
<1>1. /\ call' = [call EXCEPT ![c] = Sidecar!NoCall]
      /\ Sidecar!NoCall \in Sidecar!Call
  BY DEF Sidecar!Ended, Sidecar!NoCall, Sidecar!Call
<1>2. call' \in [Sidecar!Serving -> Sidecar!Call]
  BY <1>1 DEF Sidecar!IInv, Sidecar!TypeOK
<1>3. \A d \in Sidecar!Serving : call'[d] = IF d = c THEN Sidecar!NoCall ELSE call[d]
  BY <1>1 DEF Sidecar!IInv, Sidecar!TypeOK
<1>4. Sidecar!CallsOwned'
  BY <1>3 DEF Sidecar!IInv, Sidecar!Owned, Sidecar!CallsOwned, Sidecar!OwnerOf, Sidecar!At,
     Sidecar!NoCall
<1> QED BY <1>2, <1>4

\* Vaults that go: those that stay registered are what they were.
LEMMA Unregistered ==
  ASSUME Sidecar!IInv, NEW refs \in SUBSET Sidecar!Refs, Sidecar!Unregister(refs),
         owner' = owner
  PROVE  /\ vault' \in [Sidecar!Refs -> Nat]
         /\ content' \in Seq(SUBSET Sidecar!Ages) /\ Len(content') = Len(owner')
         /\ Sidecar!VaultsOwned' /\ \A ref \in refs : vault'[ref] = 0
         /\ Sidecar!VaultsClean /\ erasing'.tenant = erasing.tenant => Sidecar!VaultsClean'
<1> DEFINE gone == {vault[ref] : ref \in refs}
<1>1. /\ vault' = [ref \in Sidecar!Refs |-> IF ref \in refs THEN 0 ELSE vault[ref]]
      /\ content' = [n \in DOMAIN content |-> IF n \in gone THEN {} ELSE content[n]]
  BY DEF Sidecar!Unregister
<1>2. DOMAIN content = 1 .. Len(content) /\ Len(content) \in Nat /\ Len(content) = Len(owner)
      /\ content \in [DOMAIN content -> SUBSET Sidecar!Ages] /\ DOMAIN owner = DOMAIN content
  BY DEF Sidecar!IInv, Sidecar!TypeOK
<1>3. content' \in [1 .. Len(content) -> SUBSET Sidecar!Ages]
  BY <1>1, <1>2
<1>4. content' \in Seq(SUBSET Sidecar!Ages) /\ Len(content') = Len(owner')
  BY <1>2, <1>3
<1>5. vault' \in [Sidecar!Refs -> Nat] /\ \A ref \in refs : vault'[ref] = 0
  BY <1>1 DEF Sidecar!IInv, Sidecar!TypeOK
<1>6. \A ref \in Sidecar!Refs : vault'[ref] # 0 =>
        /\ vault'[ref] = vault[ref] /\ vault[ref] \in DOMAIN content
        /\ content'[vault[ref]] = {} \/ content'[vault[ref]] = content[vault[ref]]
  BY <1>1, <1>2 DEF Sidecar!IInv, Sidecar!Owned, Sidecar!VaultsOwned
<1>7. Sidecar!VaultsOwned'
  BY <1>6 DEF Sidecar!IInv, Sidecar!Owned, Sidecar!VaultsOwned
<1>8. Sidecar!VaultsClean /\ erasing'.tenant = erasing.tenant => Sidecar!VaultsClean'
  BY <1>6 DEF Sidecar!VaultsClean, Sidecar!IsOf
<1> QED BY <1>4, <1>5, <1>7, <1>8

\* An entry of the map of streams that goes.
LEMMA StreamGone ==
  ASSUME Sidecar!IInv, NEW k, streamers' = [streamers EXCEPT ![k] = 0],
         UNCHANGED <<owner, made, erasing>>
  PROVE  /\ streamers' \in [Sidecar!Keys -> Nat] /\ Sidecar!RestorersOwned' /\ Sidecar!StreamsOwned'
         /\ Sidecar!StreamsClean => Sidecar!StreamsClean'
<1>1. /\ streamers' \in [Sidecar!Keys -> Nat]
      /\ \A j \in Sidecar!Keys : streamers'[j] # 0 => streamers'[j] = streamers[j]
  BY DEF Sidecar!IInv, Sidecar!TypeOK
<1>2. Sidecar!RestorersOwned' /\ Sidecar!StreamsOwned'
  BY <1>1 DEF Sidecar!IInv, Sidecar!Owned, Sidecar!RestorersOwned, Sidecar!StreamsOwned,
     Sidecar!OwnerOf
<1>3. Sidecar!StreamsClean => Sidecar!StreamsClean'
  BY <1>1 DEF Sidecar!StreamsClean, Sidecar!Within, Sidecar!IsOf
<1> QED BY <1>1, <1>2, <1>3

-----------------------------------------------------------------------------
LEMMA RedactKeeps ==
  ASSUME Sidecar!IInv, NEW c \in Sidecar!Serving, Sidecar!Redact(c) PROVE Sidecar!IInv'
<1> DEFINE v == call[c].vault
           t == Sidecar!TenantOf(call[c].ref)
<1>1. /\ Sidecar!At(c, "redact") /\ Sidecar!Ended(c)
      /\ UNCHANGED <<vault, owner, streamers, made, begun, erasing, crossed>>
      /\ \/ content' = [content EXCEPT ![v] = @ \cup {"new"}] /\ tokens' = tokens
         \/ tokens' = [tokens EXCEPT ![t] = @ \cup {"new"}] /\ content' = content
  BY DEF Sidecar!Redact
<1>2. /\ content \in Seq(SUBSET Sidecar!Ages) /\ Len(content) = Len(owner)
      /\ tokens \in [Tenants -> SUBSET Sidecar!Ages]
  BY DEF Sidecar!IInv, Sidecar!TypeOK
<1>3. /\ content' \in Seq(SUBSET Sidecar!Ages) /\ Len(content') = Len(content)
      /\ \A n \in DOMAIN content : "old" \in content'[n] => "old" \in content[n]
  <2>1. CASE content' = content
    BY <1>2, <2>1
  <2>2. CASE content' = [content EXCEPT ![v] = @ \cup {"new"}]
    <3>1. content \in [1 .. Len(content) -> SUBSET Sidecar!Ages] /\ Len(content) \in Nat
      BY <1>2
    <3>2. content' \in [1 .. Len(content) -> SUBSET Sidecar!Ages]
      BY <2>2, <3>1 DEF Sidecar!Ages
    <3>3. \A n \in 1 .. Len(content) : "old" \in content'[n] => "old" \in content[n]
      BY <2>2, <3>1
    <3> QED BY <1>2, <3>1, <3>2, <3>3
  <2> QED BY <1>1, <2>1, <2>2
<1>4. /\ tokens' \in [Tenants -> SUBSET Sidecar!Ages]
      /\ \A u \in Tenants : "old" \in tokens'[u] => "old" \in tokens[u]
  BY <1>1, <1>2 DEF Sidecar!Ages
<1>5. Sidecar!CallsOwned' /\ Sidecar!TypeOK'
  BY <1>1, <1>2, <1>3, <1>4, CallOver DEF Sidecar!IInv, Sidecar!TypeOK
<1>6. Sidecar!VaultsOwned' /\ Sidecar!RestorersOwned' /\ Sidecar!StreamsOwned'
  BY <1>1 DEF Sidecar!IInv, Sidecar!Owned, Sidecar!VaultsOwned, Sidecar!RestorersOwned,
     Sidecar!StreamsOwned, Sidecar!OwnerOf
<1>7. Sidecar!Reached'
  <2>1. Sidecar!VaultsClean => Sidecar!VaultsClean'
    BY <1>1, <1>2, <1>3 DEF Sidecar!VaultsClean, Sidecar!VaultsOwned, Sidecar!IInv,
       Sidecar!Owned, Sidecar!IsOf
  <2>2. erasing.tenant \in Tenants /\ Sidecar!TokensClean => Sidecar!TokensClean'
    BY <1>1, <1>4 DEF Sidecar!TokensClean
  <2>3. Sidecar!StreamsClean => Sidecar!StreamsClean'
    BY <1>1 DEF Sidecar!StreamsClean, Sidecar!Within, Sidecar!IsOf
  <2> QED BY <1>1, <2>1, <2>2, <2>3 DEF Sidecar!IInv, Sidecar!Reached
<1> QED BY <1>1, <1>5, <1>6, <1>7 DEF Sidecar!IInv, Sidecar!Owned

LEMMA EnterKeeps ==
  ASSUME Sidecar!IInv, NEW c \in Sidecar!Serving, Sidecar!Enter(c) PROVE Sidecar!IInv'
<1> DEFINE key   == call[c].ref
           fresh == Len(made) + 1
           s     == IF streamers[key] # 0 THEN streamers[key] ELSE fresh
           new   == [vault |-> call[c].vault, holds |-> {}]
<1>1. /\ Sidecar!At(c, "chunk") /\ streamers' = [streamers EXCEPT ![key] = s]
      /\ made' = IF s = fresh THEN Append(made, new) ELSE made
      /\ call' = [call EXCEPT ![c].at = "feed", ![c].restorer = s]
      /\ UNCHANGED <<vault, owner, content, tokens, begun, erasing, crossed>>
  BY DEF Sidecar!Enter, Sidecar!StreamKey
<1>2. /\ key \in Sidecar!Refs /\ key \in Sidecar!Keys /\ call[c].vault \in DOMAIN owner
      /\ owner[call[c].vault] = key /\ call[c].vault \in Nat
  BY <1>1 DEF Sidecar!IInv, Sidecar!TypeOK, Sidecar!Owned, Sidecar!CallsOwned, Sidecar!At,
     Sidecar!Keys
<1>3. new \in Sidecar!Restorer
  BY <1>2 DEF Sidecar!Restorer
<1>4. /\ made' \in Seq(Sidecar!Restorer)
      /\ DOMAIN made \subseteq DOMAIN made' /\ \A n \in DOMAIN made : made'[n] = made[n]
      /\ s \in Nat \ {0} /\ s \in DOMAIN made' /\ owner[made'[s].vault] = key
      /\ \A n \in DOMAIN made' : n \in DOMAIN made \/ made'[n] = new
      /\ s \in DOMAIN made => streamers[key] = s
      /\ s \notin DOMAIN made => made'[s] = new
  <2>1. CASE streamers[key] # 0
    <3>1. s = streamers[key] /\ s \in DOMAIN made /\ owner[made[s].vault] = key
      BY <1>2, <2>1 DEF Sidecar!IInv, Sidecar!Owned, Sidecar!StreamsOwned, Sidecar!OwnerOf
    <3>2. s \in Nat \ {0} /\ s # fresh /\ made' = made
      BY <1>1, <3>1 DEF Sidecar!IInv, Sidecar!TypeOK
    <3> QED BY <3>1, <3>2 DEF Sidecar!IInv, Sidecar!TypeOK
  <2>2. CASE streamers[key] = 0
    <3>1. s = fresh /\ made' = Append(made, new)
      BY <1>1, <2>2
    <3> HIDE DEF new
    <3>2. /\ made' \in Seq(Sidecar!Restorer)
          /\ DOMAIN made' = DOMAIN made \cup {s}
          /\ \A n \in DOMAIN made : made'[n] = made[n]
          /\ made'[s] = new /\ s \notin DOMAIN made /\ s \in Nat \ {0}
      BY <1>3, <3>1, Appended DEF Sidecar!IInv, Sidecar!TypeOK
    <3>3. new.vault = call[c].vault
      BY DEF new
    <3> QED BY <1>2, <3>2, <3>3
  <2> QED BY <2>1, <2>2
<1> HIDE DEF s
<1>5. Sidecar!TypeOK'
  <2>1. call[c] \in Sidecar!Call
    BY DEF Sidecar!IInv, Sidecar!TypeOK
  <2>2. call' \in [Sidecar!Serving -> Sidecar!Call]
    BY <1>1, <1>4, <2>1 DEF Sidecar!IInv, Sidecar!TypeOK, Sidecar!Call
  <2>3. streamers' \in [Sidecar!Keys -> Nat]
    BY <1>1, <1>2, <1>4 DEF Sidecar!IInv, Sidecar!TypeOK
  <2> QED BY <1>1, <1>4, <2>2, <2>3 DEF Sidecar!IInv, Sidecar!TypeOK
<1>6. Sidecar!VaultsOwned' /\ Sidecar!RestorersOwned'
  BY <1>1, <1>2, <1>4 DEF Sidecar!IInv, Sidecar!Owned, Sidecar!VaultsOwned,
     Sidecar!RestorersOwned, Sidecar!OwnerOf
<1>7. Sidecar!StreamsOwned'
  <2> SUFFICES ASSUME NEW k \in Sidecar!Keys, streamers'[k] # 0
               PROVE  k \in Sidecar!Refs /\ streamers'[k] \in DOMAIN made'
                      /\ owner[made'[streamers'[k]].vault] = k
    BY <1>1 DEF Sidecar!StreamsOwned, Sidecar!OwnerOf
  <2>1. CASE k = key
    BY <1>1, <1>2, <1>4, <2>1 DEF Sidecar!IInv, Sidecar!TypeOK
  <2>2. CASE k # key
    <3>1. streamers'[k] = streamers[k]
      BY <1>1, <2>2 DEF Sidecar!IInv, Sidecar!TypeOK
    <3> QED BY <1>4, <3>1 DEF Sidecar!IInv, Sidecar!Owned, Sidecar!StreamsOwned, Sidecar!OwnerOf
  <2> QED BY <2>1, <2>2
<1>8. Sidecar!CallsOwned'
  <2> SUFFICES ASSUME NEW d \in Sidecar!Serving
               PROVE  /\ call'[d].at # "idle" => call'[d].ref \in Sidecar!Refs
                      /\ call'[d].at \in {"redact", "chunk"} =>
                           /\ call'[d].vault \in DOMAIN owner
                           /\ owner[call'[d].vault] = call'[d].ref
                      /\ call'[d].at = "feed" =>
                           call'[d].restorer \in DOMAIN made'
                           /\ owner[made'[call'[d].restorer].vault] = call'[d].ref
    BY <1>1 DEF Sidecar!CallsOwned, Sidecar!OwnerOf, Sidecar!At
  <2>1. CASE d = c
    <3>1. call'[d].at = "feed" /\ call'[d].restorer = s /\ call'[d].ref = key
      BY <1>1, <2>1 DEF Sidecar!IInv, Sidecar!TypeOK
    <3> QED BY <1>2, <1>4, <3>1
  <2>2. CASE d # c
    <3>1. call'[d] = call[d]
      BY <1>1, <2>2 DEF Sidecar!IInv, Sidecar!TypeOK
    <3> QED BY <1>4, <3>1 DEF Sidecar!IInv, Sidecar!Owned, Sidecar!CallsOwned,
       Sidecar!OwnerOf, Sidecar!At
  <2> QED BY <2>1, <2>2
<1>9. Sidecar!Reached'
  <2>1. (Sidecar!VaultsClean <=> Sidecar!VaultsClean') /\ (Sidecar!TokensClean <=> Sidecar!TokensClean')
    BY <1>1 DEF Sidecar!VaultsClean, Sidecar!TokensClean, Sidecar!IsOf
  <2>2. ASSUME Sidecar!StreamsClean, NEW k \in Sidecar!Keys, streamers'[k] # 0
        PROVE  "old" \notin {p.age : p \in {q \in made'[streamers'[k]].holds : Sidecar!IsOf(erasing.tenant, q.ref)}}
    <3>1. CASE streamers'[k] = streamers[k] /\ streamers[k] \in DOMAIN made
      BY <1>4, <2>2, <3>1 DEF Sidecar!StreamsClean, Sidecar!Within
    <3>2. CASE k = key /\ s \notin DOMAIN made
      <4>1. made'[streamers'[k]].holds = {}
        BY <1>1, <1>2, <1>4, <3>2 DEF Sidecar!IInv, Sidecar!TypeOK
      <4> QED BY <4>1
    <3>3. k # key => streamers'[k] = streamers[k]
      BY <1>1 DEF Sidecar!IInv, Sidecar!TypeOK
    <3>4. k = key => streamers'[k] = s
      BY <1>1, <1>2 DEF Sidecar!IInv, Sidecar!TypeOK
    <3>5. streamers[k] # 0 => streamers[k] \in DOMAIN made
      BY DEF Sidecar!IInv, Sidecar!Owned, Sidecar!StreamsOwned
    <3> QED BY <1>4, <2>2, <3>1, <3>2, <3>3, <3>4, <3>5
  <2>3. Sidecar!StreamsClean => Sidecar!StreamsClean'
    BY <1>1, <2>2 DEF Sidecar!StreamsClean, Sidecar!Within, Sidecar!IsOf
  <2> QED BY <1>1, <2>1, <2>3 DEF Sidecar!IInv, Sidecar!Reached
<1> QED BY <1>1, <1>5, <1>6, <1>7, <1>8, <1>9 DEF Sidecar!IInv, Sidecar!Owned

\* What a chunk is given comes from the restorer of its stream, and all that this
\* restorer holds and knows belongs to the session of the chunk.
LEMMA FeedKeeps ==
  ASSUME Sidecar!IInv, NEW c \in Sidecar!Serving, Sidecar!Feed(c) PROVE Sidecar!IInv'
<1> DEFINE s     == call[c].restorer
           ref   == call[c].ref
           all   == made[s].holds \cup {[ref |-> ref, age |-> "new"]}
           known == content[made[s].vault] # {}
           from  == {p.ref : p \in all} \cup (IF known THEN {owner[made[s].vault]} ELSE {})
<1>1. /\ Sidecar!At(c, "feed")
      /\ UNCHANGED <<vault, owner, content, tokens, streamers, begun, erasing>>
      /\ \/ made' = [made EXCEPT ![s].holds = all] /\ crossed' = crossed
         \/ made' = [made EXCEPT ![s].holds = {}] /\ crossed' = (crossed \/ from # {ref})
      /\ Sidecar!Ended(c) \/ call' = [call EXCEPT ![c].at = "final"]
  BY DEF Sidecar!Feed
<1>2. /\ ref \in Sidecar!Refs /\ s \in DOMAIN made /\ owner[made[s].vault] = ref
      /\ \A p \in made[s].holds : p.ref = ref
  BY <1>1 DEF Sidecar!IInv, Sidecar!Owned, Sidecar!CallsOwned, Sidecar!RestorersOwned,
     Sidecar!OwnerOf, Sidecar!At
<1>3. from = {ref}
  <2>1. /\ \A p \in all : p.ref = ref
        /\ [ref |-> ref, age |-> "new"] \in all /\ [ref |-> ref, age |-> "new"].ref = ref
    BY <1>2
  <2> HIDE DEF all
  <2>2. {p.ref : p \in all} = {ref}
    BY <2>1
  <2> QED BY <1>2, <2>2
<1>4. /\ made \in [1 .. Len(made) -> Sidecar!Restorer]
      /\ Len(made) \in Nat /\ DOMAIN made = 1 .. Len(made)
  BY SeqIsFunction DEF Sidecar!IInv, Sidecar!TypeOK
<1>5. all \in SUBSET [ref : Sidecar!Refs, age : Sidecar!Ages]
  <2>1. made[s] \in Sidecar!Restorer
    BY <1>2, <1>4
  <2>2. [ref |-> ref, age |-> "new"] \in [ref : Sidecar!Refs, age : Sidecar!Ages]
    BY <1>2 DEF Sidecar!Ages
  <2>3. made[s].holds \in SUBSET [ref : Sidecar!Refs, age : Sidecar!Ages]
    BY <2>1 DEF Sidecar!Restorer
  <2> QED BY <2>2, <2>3
<1> HIDE DEF all, from
<1>6. /\ made' \in [1 .. Len(made) -> Sidecar!Restorer]
      /\ DOMAIN made' = DOMAIN made
      /\ \A n \in DOMAIN made : made'[n].vault = made[n].vault
      /\ \A n \in DOMAIN made : n # s => made'[n] = made[n]
      /\ made'[s].holds = all \/ made'[s].holds = {}
  <2>1. PICK h \in SUBSET [ref : Sidecar!Refs, age : Sidecar!Ages] :
          made' = [made EXCEPT ![s].holds = h] /\ (h = all \/ h = {})
    BY <1>1, <1>5
  <2>2. made[s] \in Sidecar!Restorer
    BY <1>2, <1>4
  <2>3. [made[s] EXCEPT !.holds = h] \in Sidecar!Restorer
    BY <2>2 DEF Sidecar!Restorer
  <2>4. /\ [made[s] EXCEPT !.holds = h].holds = h
        /\ [made[s] EXCEPT !.holds = h].vault = made[s].vault
    BY <2>2 DEF Sidecar!Restorer
  <2>5. made' = [made EXCEPT ![s] = [made[s] EXCEPT !.holds = h]]
    BY <2>1
  <2> QED BY <1>2, <1>4, <2>1, <2>3, <2>4, <2>5
<1>7. made' \in Seq(Sidecar!Restorer)
  BY <1>6, SeqIsFunction DEF Sidecar!IInv, Sidecar!TypeOK
<1>8. /\ \A p \in all : p.ref = ref
      /\ \A p \in all : p.age = "old" => p \in made[s].holds
  BY <1>2 DEF all
<1>9. ~crossed'
  BY <1>1, <1>3 DEF Sidecar!IInv
<1>10. /\ Sidecar!CallsOwned'
       /\ call' \in [Sidecar!Serving -> Sidecar!Call]
  <2>1. CASE Sidecar!Ended(c)
    BY <1>1, <1>6, <2>1, CallOver
  <2>2. CASE call' = [call EXCEPT ![c].at = "final"]
    <3>1. call' \in [Sidecar!Serving -> Sidecar!Call]
      BY <2>2 DEF Sidecar!IInv, Sidecar!TypeOK, Sidecar!Call
    <3>2. /\ call'[c].at = "final" /\ call'[c].ref = ref
          /\ \A d \in Sidecar!Serving : d # c => call'[d] = call[d]
      BY <2>2 DEF Sidecar!IInv, Sidecar!TypeOK
    <3>3. Sidecar!CallsOwned'
      BY <1>1, <1>2, <1>6, <3>2 DEF Sidecar!IInv, Sidecar!Owned, Sidecar!CallsOwned,
         Sidecar!OwnerOf, Sidecar!At
    <3> QED BY <3>1, <3>3
  <2> QED BY <1>1, <2>1, <2>2
<1>11. Sidecar!TypeOK'
  BY <1>1, <1>7, <1>9, <1>10 DEF Sidecar!IInv, Sidecar!TypeOK
<1>12. Sidecar!VaultsOwned' /\ Sidecar!StreamsOwned'
  BY <1>1, <1>6 DEF Sidecar!IInv, Sidecar!Owned, Sidecar!VaultsOwned, Sidecar!StreamsOwned,
     Sidecar!OwnerOf
<1>13. Sidecar!RestorersOwned'
  BY <1>1, <1>2, <1>6, <1>8 DEF Sidecar!IInv, Sidecar!Owned, Sidecar!RestorersOwned,
     Sidecar!OwnerOf
<1>14. Sidecar!Reached'
  <2>1. (Sidecar!VaultsClean <=> Sidecar!VaultsClean') /\ (Sidecar!TokensClean <=> Sidecar!TokensClean')
    BY <1>1 DEF Sidecar!VaultsClean, Sidecar!TokensClean, Sidecar!IsOf
  <2>2. \A n \in DOMAIN made : \A p \in made'[n].holds : p.age = "old" => p \in made[n].holds
    BY <1>6, <1>8
  <2>3. \A k \in Sidecar!Keys : streamers[k] # 0 => streamers[k] \in DOMAIN made
    BY DEF Sidecar!IInv, Sidecar!Owned, Sidecar!StreamsOwned
  <2>4. Sidecar!StreamsClean => Sidecar!StreamsClean'
    BY <1>1, <2>2, <2>3 DEF Sidecar!StreamsClean, Sidecar!Within, Sidecar!IsOf
  <2> QED BY <1>1, <2>1, <2>4 DEF Sidecar!IInv, Sidecar!Reached
<1> QED BY <1>9, <1>10, <1>11, <1>12, <1>13, <1>14 DEF Sidecar!IInv, Sidecar!Owned

\* Final and EndStream take an entry out and end the call.
LEMMA StreamEnds ==
  ASSUME Sidecar!IInv, NEW c \in Sidecar!Serving,
         Sidecar!Final(c) \/ Sidecar!EndStream(c) PROVE Sidecar!IInv'
<1>1. /\ Sidecar!Ended(c)
      /\ streamers' = [streamers EXCEPT ![Sidecar!StreamKey(call[c].ref)] = 0]
      /\ UNCHANGED <<vault, owner, content, tokens, made, begun, erasing, crossed>>
  BY DEF Sidecar!Final, Sidecar!EndStream
<1>2. /\ streamers' \in [Sidecar!Keys -> Nat] /\ Sidecar!RestorersOwned'
      /\ Sidecar!StreamsOwned'
      /\ Sidecar!StreamsClean => Sidecar!StreamsClean'
  BY <1>1, StreamGone
<1>3. Sidecar!CallsOwned' /\ Sidecar!TypeOK'
  BY <1>1, <1>2, CallOver DEF Sidecar!IInv, Sidecar!TypeOK
<1>4. Sidecar!VaultsOwned' /\ (Sidecar!VaultsClean => Sidecar!VaultsClean') /\ (Sidecar!TokensClean => Sidecar!TokensClean')
  BY <1>1 DEF Sidecar!IInv, Sidecar!Owned, Sidecar!VaultsOwned, Sidecar!VaultsClean,
     Sidecar!TokensClean, Sidecar!IsOf
<1> QED BY <1>1, <1>2, <1>3, <1>4 DEF Sidecar!IInv, Sidecar!Owned, Sidecar!Reached

LEMMA ReapKeeps ==
  ASSUME Sidecar!IInv, NEW k \in Sidecar!Keys, Sidecar!Reap(k) PROVE Sidecar!IInv'
<1>1. /\ streamers' = [streamers EXCEPT ![k] = 0]
      /\ UNCHANGED <<vault, owner, content, tokens, made, call, begun, erasing, crossed>>
  BY DEF Sidecar!Reap
<1>2. /\ streamers' \in [Sidecar!Keys -> Nat] /\ Sidecar!RestorersOwned'
      /\ Sidecar!StreamsOwned'
      /\ Sidecar!StreamsClean => Sidecar!StreamsClean'
  BY <1>1, StreamGone
<1>3. Sidecar!TypeOK' /\ Sidecar!CallsOwned' /\ Sidecar!VaultsOwned'
  BY <1>1, <1>2 DEF Sidecar!IInv, Sidecar!Owned, Sidecar!TypeOK, Sidecar!CallsOwned,
     Sidecar!VaultsOwned, Sidecar!OwnerOf, Sidecar!At
<1>4. (Sidecar!VaultsClean => Sidecar!VaultsClean') /\ (Sidecar!TokensClean => Sidecar!TokensClean')
  BY <1>1 DEF Sidecar!VaultsClean, Sidecar!TokensClean, Sidecar!IsOf
<1> QED BY <1>1, <1>2, <1>3, <1>4 DEF Sidecar!IInv, Sidecar!Owned, Sidecar!Reached

\* EndSession and Expire: the vault of one session goes.
LEMMA VaultEnds ==
  ASSUME Sidecar!IInv, NEW ref \in Sidecar!Refs,
         Sidecar!Expire(ref) \/ (\E c \in Sidecar!Serving : Sidecar!EndSession(c, ref))
  PROVE  Sidecar!IInv'
<1>1. /\ Sidecar!Unregister({ref})
      /\ UNCHANGED <<owner, tokens, streamers, made, erasing, crossed>>
  BY DEF Sidecar!Expire, Sidecar!EndSession
<1>2. /\ vault' \in [Sidecar!Refs -> Nat] /\ content' \in Seq(SUBSET Sidecar!Ages)
      /\ Len(content') = Len(owner')
      /\ Sidecar!VaultsOwned' /\ (Sidecar!VaultsClean => Sidecar!VaultsClean')
  BY <1>1, Unregistered
<1>3. /\ Sidecar!CallsOwned'
      /\ call' \in [Sidecar!Serving -> Sidecar!Call]
  <2>1. CASE Sidecar!Expire(ref)
    <3>1. call' = call
      BY <2>1 DEF Sidecar!Expire
    <3> QED BY <1>1, <3>1 DEF Sidecar!IInv, Sidecar!Owned, Sidecar!TypeOK,
       Sidecar!CallsOwned, Sidecar!OwnerOf, Sidecar!At
  <2>2. ASSUME NEW c \in Sidecar!Serving, Sidecar!EndSession(c, ref)
        PROVE  /\ Sidecar!CallsOwned'
               /\ call' \in [Sidecar!Serving -> Sidecar!Call]
    <3>1. call' = [call EXCEPT ![c] = [at |-> "ending", ref |-> ref, vault |-> 0, restorer |-> 0]]
      BY <2>2 DEF Sidecar!EndSession
    <3>2. call' \in [Sidecar!Serving -> Sidecar!Call]
      BY <3>1 DEF Sidecar!IInv, Sidecar!TypeOK, Sidecar!Call
    <3>3. /\ call'[c].at = "ending" /\ call'[c].ref = ref
          /\ \A d \in Sidecar!Serving : d # c => call'[d] = call[d]
      BY <3>1 DEF Sidecar!IInv, Sidecar!TypeOK
    <3>4. Sidecar!CallsOwned'
      BY <1>1, <3>3 DEF Sidecar!IInv, Sidecar!Owned, Sidecar!CallsOwned, Sidecar!OwnerOf,
         Sidecar!At
    <3> QED BY <3>2, <3>4
  <2> QED BY <2>1, <2>2
<1>4. Sidecar!TypeOK'
  BY <1>1, <1>2, <1>3 DEF Sidecar!IInv, Sidecar!TypeOK
<1>5. /\ Sidecar!RestorersOwned' /\ Sidecar!StreamsOwned'
      /\ (Sidecar!TokensClean => Sidecar!TokensClean') /\ (Sidecar!StreamsClean => Sidecar!StreamsClean')
  BY <1>1 DEF Sidecar!IInv, Sidecar!Owned, Sidecar!RestorersOwned, Sidecar!StreamsOwned,
     Sidecar!OwnerOf,
              Sidecar!TokensClean, Sidecar!StreamsClean, Sidecar!Within, Sidecar!IsOf
<1> QED BY <1>1, <1>2, <1>3, <1>4, <1>5 DEF Sidecar!IInv, Sidecar!Owned, Sidecar!Reached

-----------------------------------------------------------------------------
LEMMA BeginEraseKeeps ==
  ASSUME Sidecar!IInv, NEW t \in Tenants, Sidecar!BeginErase(t) PROVE Sidecar!IInv'
<1> DEFINE older(n) == [made[n] EXCEPT !.holds =
                          {[p EXCEPT !.age = IF Sidecar!IsOf(t, p.ref) THEN "old" ELSE @] : p \in @}]
<1>1. /\ erasing' = [at |-> "vaults", tenant |-> t]
      /\ content' = [v \in DOMAIN content |->
                       IF Sidecar!IsOf(t, owner[v]) THEN Sidecar!Aged(content[v]) ELSE content[v]]
      /\ tokens' = [tokens EXCEPT ![t] = Sidecar!Aged(@)]
      /\ made' = [n \in DOMAIN made |-> older(n)]
      /\ UNCHANGED <<vault, owner, streamers, call, begun, crossed>>
  BY DEF Sidecar!BeginErase
<1>2. content' \in Seq(SUBSET Sidecar!Ages) /\ Len(content') = Len(owner)
  <2>1. /\ DOMAIN content = 1 .. Len(content) /\ Len(content) \in Nat
        /\ content \in [1 .. Len(content) -> SUBSET Sidecar!Ages] /\ Len(content) = Len(owner)
    BY DEF Sidecar!IInv, Sidecar!TypeOK
  <2>2. \A set \in SUBSET Sidecar!Ages : Sidecar!Aged(set) \in SUBSET Sidecar!Ages
    BY DEF Sidecar!Aged, Sidecar!Ages
  <2>3. content' \in [1 .. Len(content) -> SUBSET Sidecar!Ages]
    BY <1>1, <2>1, <2>2
  <2> QED BY <2>1, <2>3
<1>3. tokens' \in [Tenants -> SUBSET Sidecar!Ages]
  BY <1>1 DEF Sidecar!IInv, Sidecar!TypeOK, Sidecar!Aged, Sidecar!Ages
<1>4. /\ made' \in Seq(Sidecar!Restorer)
      /\ DOMAIN made' = DOMAIN made
      /\ \A n \in DOMAIN made :
           made'[n].vault = made[n].vault
           /\ \A q \in made'[n].holds : \E p \in made[n].holds : q.ref = p.ref
  <2>1. /\ DOMAIN made = 1 .. Len(made) /\ Len(made) \in Nat
        /\ made \in [1 .. Len(made) -> Sidecar!Restorer]
    BY SeqIsFunction DEF Sidecar!IInv, Sidecar!TypeOK
  <2>2. ASSUME NEW n \in DOMAIN made
        PROVE  /\ older(n) \in Sidecar!Restorer
               /\ older(n).vault = made[n].vault
               /\ \A q \in older(n).holds : \E p \in made[n].holds : q.ref = p.ref
    <3>1. made[n] \in Sidecar!Restorer
      BY <2>1
    <3>2. \A p \in made[n].holds :
            LET q == [p EXCEPT !.age = IF Sidecar!IsOf(t, p.ref) THEN "old" ELSE @]
            IN  q \in [ref : Sidecar!Refs, age : Sidecar!Ages] /\ q.ref = p.ref
      BY <3>1 DEF Sidecar!Ages, Sidecar!Restorer
    <3>3. /\ older(n).vault = made[n].vault
          /\ older(n).holds = {[p EXCEPT !.age = IF Sidecar!IsOf(t, p.ref) THEN "old" ELSE @] :
                                p \in made[n].holds}
          /\ older(n) = [vault |-> made[n].vault, holds |-> older(n).holds]
      <4> DEFINE H == {[p EXCEPT !.age = IF Sidecar!IsOf(t, p.ref) THEN "old" ELSE @] : p \in made[n].holds}
      <4>1. older(n) = [made[n] EXCEPT !.holds = H]
        OBVIOUS
      <4> HIDE DEF H, older
      <4>2. [made[n] EXCEPT !.holds = H] = [vault |-> made[n].vault, holds |-> H]
        BY <3>1 DEF Sidecar!Restorer
      <4>3. older(n).vault = made[n].vault /\ older(n).holds = H
        BY <4>1, <4>2
      <4> QED BY <4>1, <4>2, <4>3 DEF H
    <3>4. older(n).holds \in SUBSET [ref : Sidecar!Refs, age : Sidecar!Ages]
      BY <3>2, <3>3
    <3> HIDE DEF older
    <3>5. older(n) \in Sidecar!Restorer
      BY <3>1, <3>3, <3>4 DEF Sidecar!Restorer
    <3>6. \A q \in older(n).holds : \E p \in made[n].holds : q.ref = p.ref
      BY <3>2, <3>3
    <3> QED BY <3>3, <3>5, <3>6
  <2> HIDE DEF older
  <2>3. made' \in [1 .. Len(made) -> Sidecar!Restorer]
    BY <1>1, <2>1, <2>2
  <2> QED BY <1>1, <2>1, <2>2, <2>3
<1> HIDE DEF older
<1>5. Sidecar!TypeOK'
  <2>1. erasing' \in Sidecar!Erasure
    BY <1>1 DEF Sidecar!Erasure
  <2> QED BY <1>1, <1>2, <1>3, <1>4, <2>1 DEF Sidecar!IInv, Sidecar!TypeOK
<1>6. Sidecar!VaultsOwned' /\ Sidecar!StreamsOwned' /\ Sidecar!CallsOwned'
  BY <1>1, <1>4 DEF Sidecar!IInv, Sidecar!Owned, Sidecar!VaultsOwned, Sidecar!StreamsOwned,
     Sidecar!CallsOwned, Sidecar!OwnerOf, Sidecar!At
<1>7. Sidecar!RestorersOwned'
  BY <1>1, <1>4 DEF Sidecar!IInv, Sidecar!Owned, Sidecar!RestorersOwned, Sidecar!OwnerOf
<1>8. Sidecar!Reached'
  BY <1>1 DEF Sidecar!Reached
<1> QED BY <1>1, <1>5, <1>6, <1>7, <1>8 DEF Sidecar!IInv, Sidecar!Owned

LEMMA EraseVaultsKeeps ==
  ASSUME Sidecar!IInv, Sidecar!EraseVaults PROVE Sidecar!IInv'
<1> DEFINE refs == {ref \in Sidecar!Refs : Sidecar!IsOf(erasing.tenant, ref)}
<1>1. /\ erasing.at = "vaults" /\ erasing' = [erasing EXCEPT !.at = "tokens"]
      /\ Sidecar!Unregister(refs)
      /\ UNCHANGED <<owner, tokens, streamers, made, call, begun, crossed>>
  BY DEF Sidecar!EraseVaults
<1>2. /\ vault' \in [Sidecar!Refs -> Nat] /\ content' \in Seq(SUBSET Sidecar!Ages)
      /\ Len(content') = Len(owner')
      /\ Sidecar!VaultsOwned' /\ \A ref \in refs : vault'[ref] = 0
  <2> HIDE DEF refs
  <2>1. refs \in SUBSET Sidecar!Refs
    BY DEF refs
  <2> QED BY <1>1, <2>1, Unregistered
<1>3. /\ erasing'.at = "tokens" /\ erasing'.tenant = erasing.tenant
      /\ erasing' \in Sidecar!Erasure
  BY <1>1 DEF Sidecar!IInv, Sidecar!TypeOK, Sidecar!Erasure
<1>4. Sidecar!TypeOK'
  BY <1>1, <1>2, <1>3 DEF Sidecar!IInv, Sidecar!TypeOK
<1>5. Sidecar!RestorersOwned' /\ Sidecar!StreamsOwned' /\ Sidecar!CallsOwned'
  BY <1>1 DEF Sidecar!IInv, Sidecar!Owned, Sidecar!RestorersOwned, Sidecar!StreamsOwned,
     Sidecar!CallsOwned, Sidecar!OwnerOf, Sidecar!At
<1>6. Sidecar!VaultsClean'
  BY <1>2, <1>3 DEF Sidecar!VaultsClean, Sidecar!IsOf
<1>7. Sidecar!Reached'
  BY <1>1, <1>3, <1>6 DEF Sidecar!IInv, Sidecar!Reached
<1> QED BY <1>1, <1>2, <1>4, <1>5, <1>7 DEF Sidecar!IInv, Sidecar!Owned

LEMMA EraseTokensKeeps ==
  ASSUME Sidecar!IInv, Sidecar!EraseTokens PROVE Sidecar!IInv'
<1>1. /\ erasing.at = "tokens" /\ erasing.tenant \in Tenants /\ Sidecar!VaultsClean
      /\ UNCHANGED <<vault, owner, content, streamers, made, call, begun, crossed>>
  BY DEF Sidecar!EraseTokens, Sidecar!IInv, Sidecar!Reached
<1>2. /\ erasing'.tenant = erasing.tenant /\ erasing'.at \in {"streams", "failed"}
      /\ erasing' \in Sidecar!Erasure
  BY DEF Sidecar!EraseTokens, Sidecar!IInv, Sidecar!TypeOK, Sidecar!Erasure
<1>3. tokens' \in [Tenants -> SUBSET Sidecar!Ages] /\ (erasing'.at = "streams" => tokens'[erasing.tenant] = {})
  BY <1>1 DEF Sidecar!EraseTokens, Sidecar!IInv, Sidecar!TypeOK, Sidecar!Erasure
<1>4. Sidecar!TypeOK'
  BY <1>1, <1>2, <1>3 DEF Sidecar!IInv, Sidecar!TypeOK
<1>5. /\ Sidecar!VaultsOwned' /\ Sidecar!RestorersOwned' /\ Sidecar!StreamsOwned'
      /\ Sidecar!CallsOwned'
  BY <1>1 DEF Sidecar!IInv, Sidecar!Owned, Sidecar!VaultsOwned, Sidecar!RestorersOwned,
     Sidecar!StreamsOwned, Sidecar!CallsOwned, Sidecar!OwnerOf, Sidecar!At
<1>6. Sidecar!VaultsClean' /\ (erasing'.at = "streams" => Sidecar!TokensClean')
  BY <1>1, <1>2, <1>3 DEF Sidecar!VaultsClean, Sidecar!TokensClean, Sidecar!IsOf
<1>7. Sidecar!Reached'
  BY <1>1, <1>2, <1>6 DEF Sidecar!Reached
<1> QED BY <1>1, <1>4, <1>5, <1>7 DEF Sidecar!IInv, Sidecar!Owned

\* The buffers that are left hold text of their own session, so of another tenant.
LEMMA EraseStreamsKeeps ==
  ASSUME Sidecar!IInv, Sidecar!EraseStreams PROVE Sidecar!IInv'
<1>1. /\ erasing.at = "streams" /\ erasing.tenant \in Tenants /\ Sidecar!VaultsClean
      /\ Sidecar!TokensClean
      /\ streamers' = [k \in Sidecar!Keys |->
            IF k \in Sidecar!Refs /\ Sidecar!IsOf(erasing.tenant, k) THEN 0 ELSE streamers[k]]
      /\ UNCHANGED <<vault, owner, content, tokens, made, begun, call, crossed>>
  BY DEF Sidecar!EraseStreams, Sidecar!IInv, Sidecar!Reached
<1>2. /\ erasing'.tenant = erasing.tenant /\ erasing'.at = "done"
      /\ erasing' \in Sidecar!Erasure
  BY DEF Sidecar!EraseStreams, Sidecar!IInv, Sidecar!TypeOK, Sidecar!Erasure
<1>3. Sidecar!TypeOK'
  BY <1>1, <1>2 DEF Sidecar!IInv, Sidecar!TypeOK
<1>4. /\ Sidecar!VaultsOwned' /\ Sidecar!RestorersOwned' /\ Sidecar!StreamsOwned'
      /\ Sidecar!CallsOwned'
  BY <1>1 DEF Sidecar!IInv, Sidecar!Owned, Sidecar!VaultsOwned, Sidecar!RestorersOwned,
     Sidecar!StreamsOwned, Sidecar!CallsOwned, Sidecar!OwnerOf, Sidecar!At
<1>5. Sidecar!VaultsClean' /\ Sidecar!TokensClean'
  BY <1>1, <1>2 DEF Sidecar!VaultsClean, Sidecar!TokensClean, Sidecar!IsOf
<1>6. Sidecar!StreamsClean'
  <2> SUFFICES ASSUME NEW k \in Sidecar!Keys, streamers'[k] # 0
               PROVE  {q \in made[streamers'[k]].holds : Sidecar!IsOf(erasing.tenant, q.ref)} = {}
    BY <1>1, <1>2 DEF Sidecar!StreamsClean, Sidecar!Within, Sidecar!IsOf
  <2>1. streamers'[k] = streamers[k] /\ ~(k \in Sidecar!Refs /\ Sidecar!IsOf(erasing.tenant, k))
    BY <1>1
  <2>2. k \in Sidecar!Refs /\ \A q \in made[streamers[k]].holds : q.ref = k
    BY <2>1 DEF Sidecar!IInv, Sidecar!Owned, Sidecar!StreamsOwned, Sidecar!RestorersOwned,
       Sidecar!OwnerOf
  <2> QED BY <2>1, <2>2
<1>7. Sidecar!Reached'
  BY <1>1, <1>2, <1>5, <1>6 DEF Sidecar!Reached
<1> QED BY <1>1, <1>3, <1>4, <1>7 DEF Sidecar!IInv, Sidecar!Owned

-----------------------------------------------------------------------------
LEMMA SidecarStep == Sidecar!IInv /\ [Sidecar!Next]_(Sidecar!vars) => Sidecar!IInv'
<1> SUFFICES ASSUME Sidecar!IInv, [Sidecar!Next]_(Sidecar!vars) PROVE Sidecar!IInv'
  OBVIOUS
<1>1. ASSUME NEW c \in Sidecar!Serving, NEW ref \in Sidecar!Refs,
             Sidecar!EndSession(c, ref) PROVE Sidecar!IInv'
  BY <1>1, VaultEnds
<1>2. ASSUME NEW c \in Sidecar!Serving, NEW ref \in Sidecar!Refs,
             NEW there \in {"redact", "chunk"},
             Sidecar!Scoped(c, ref, there) PROVE Sidecar!IInv'
  BY <1>2, ScopedKeeps
<1>3. ASSUME NEW c \in Sidecar!Serving, Sidecar!Redact(c) PROVE Sidecar!IInv'
  BY <1>3, RedactKeeps
<1>4. ASSUME NEW c \in Sidecar!Serving, Sidecar!Enter(c) PROVE Sidecar!IInv'
  BY <1>4, EnterKeeps
<1>5. ASSUME NEW c \in Sidecar!Serving, Sidecar!Feed(c) PROVE Sidecar!IInv'
  BY <1>5, FeedKeeps
<1>6. ASSUME NEW c \in Sidecar!Serving,
             Sidecar!Final(c) \/ Sidecar!EndStream(c) PROVE Sidecar!IInv'
  BY <1>6, StreamEnds
<1>7. ASSUME NEW ref \in Sidecar!Refs, Sidecar!Expire(ref) PROVE Sidecar!IInv'
  BY <1>7, VaultEnds
<1>8. ASSUME NEW k \in Sidecar!Keys, Sidecar!Reap(k) PROVE Sidecar!IInv'
  BY <1>8, ReapKeeps
<1>9. ASSUME NEW t \in Tenants, Sidecar!BeginErase(t) PROVE Sidecar!IInv'
  BY <1>9, BeginEraseKeeps
<1>10. ASSUME UNCHANGED Sidecar!vars PROVE Sidecar!IInv'
  <2>1. UNCHANGED <<vault, owner, content, tokens, streamers, made, call, begun, erasing, crossed>>
    BY <1>10 DEF Sidecar!vars
  <2>2. Sidecar!TypeOK' /\ ~crossed'
    BY <2>1 DEF Sidecar!IInv, Sidecar!TypeOK
  <2>3. Sidecar!Owned'
    BY <2>1 DEF Sidecar!IInv, Sidecar!Owned, Sidecar!VaultsOwned, Sidecar!RestorersOwned,
       Sidecar!StreamsOwned, Sidecar!CallsOwned, Sidecar!OwnerOf, Sidecar!At
  <2>4. Sidecar!Reached'
    BY <2>1 DEF Sidecar!IInv, Sidecar!Reached, Sidecar!VaultsClean, Sidecar!TokensClean,
       Sidecar!StreamsClean, Sidecar!Within, Sidecar!IsOf
  <2> QED BY <2>2, <2>3, <2>4 DEF Sidecar!IInv
<1> QED
  BY <1>1, <1>2, <1>3, <1>4, <1>5, <1>6, <1>7, <1>8, <1>9, <1>10,
     EraseVaultsKeeps, EraseTokensKeeps, EraseStreamsKeeps DEF Sidecar!Next

\* The inductive invariant of the sidecar's streams (server.go:469-600, 654): every
\* vault, restorer, buffer entry and call belongs to the session it was made for, and
\* what an erasure has gone through stays clean of what was there.
THEOREM SidecarInvariant == Sidecar!Spec => []Sidecar!IInv
<1>1. Sidecar!IInv /\ [Sidecar!Next]_(Sidecar!vars) => Sidecar!IInv'
  BY SidecarStep
<1> QED BY SidecarInit, <1>1, PTL DEF Sidecar!Spec

\* Nobody is given text or values of another session, and an erasure that reports
\* success has reached every session's vault, the token store and the stream buffers
\* (server.go:469, 597), for any number of tenants, sessions, calls and chunks.
THEOREM SidecarStreamsApart == Sidecar!Spec => []Sidecar!StreamsApart
<1>1. Sidecar!IInv => Sidecar!StreamsApart
  BY DEF Sidecar!IInv, Sidecar!Reached, Sidecar!StreamsApart
<1> QED BY SidecarInvariant, <1>1, PTL

(***************************************************************************)
(* The two parts of the run in one specification.                          *)
(***************************************************************************)
\* The streams part of a behaviour of the run is a behaviour of the sidecar: it takes
\* the sidecar's steps, or leaves its state alone.
LEMMA ErasureSidecar == ErasureSpec => Sidecar!Spec
<1>1. ErasureInit => Sidecar!Init
  BY DEF ErasureInit
<1>2. [ErasureNext]_<<part, vars, streamVars>> => [Sidecar!Next]_(Sidecar!vars)
  BY DEF ErasureNext, streamVars, Sidecar!vars
<1> QED BY <1>1, <1>2, PTL DEF ErasureSpec, Sidecar!Spec

\* Beside the token store too, nobody is given anything of another session and an
\* erasure that reports success has reached all of it, whoever else is served.
THEOREM ErasureStreamsApart == ErasureSpec => []StreamsApart
  BY ErasureSidecar, SidecarInvariant, SidecarStreamsApart, PTL
  DEF StreamsApart

=============================================================================
