----------------------------- MODULE MemoryTokens -----------------------------
(***************************************************************************)
(* pii/anonymize/tokenstore.go, type MemoryTokenStore: two maps under one  *)
(* lock.  Issue reads the clock, looks the pair up under the read lock,    *)
(* draws a token with no lock held, and looks again under the write lock,  *)
(* all with the time it read first.  A namespace is part of a value here.  *)
(***************************************************************************)
EXTENDS Naturals

CONSTANTS Tenants, Values, Tokens, Callers,
          TTL,       \* 0: entries never expire
          MaxTime, None

Identities == Tenants \X Values
NoIdentity == CHOOSE i \in Identities : TRUE   \* of a caller outside Issue

VARIABLES byPair,  \* <<identity, token, expires>>: one entry an identity
          byTok,   \* <<identity, token, expires>>: one entry a token
          now,
          pc,
          asked, read,  \* what a caller asks for, and the time it read
          token,
          drawn,
          ever     \* history: the <<identity, token>> pairs that ever resolved

vars == <<byPair, byTok, now, pc, asked, read, token, drawn, ever>>

Entries == Identities \X Tokens \X Nat

TypeOK ==
  /\ byPair \subseteq Entries /\ byTok \subseteq Entries
  /\ now \in Nat \ {0} /\ read \in [Callers -> Nat]
  /\ pc \in [Callers -> {"idle", "drawn", "issued"}]
  /\ asked \in [Callers -> Identities]
  /\ token \in [Callers -> Tokens \cup {None}]
  /\ drawn \subseteq Tokens
  /\ ever \subseteq Identities \X Tokens

Init ==
  /\ byPair = {} /\ byTok = {}
  /\ now = 1
  /\ pc = [c \in Callers |-> "idle"]
  /\ asked = [c \in Callers |-> NoIdentity]
  /\ read = [c \in Callers |-> 0]
  /\ token = [c \in Callers |-> None]
  /\ drawn = {}
  /\ ever = {}

-----------------------------------------------------------------------------
\* tokenEntry.expired; an expiry of 0 is none.
ExpiredAt(e, t) == e[3] # 0 /\ t > e[3]
Held(i, t)      == {e \in byPair : e[1] = i /\ ~ExpiredAt(e, t)}
Expiry(t)       == IF TTL > 0 THEN t + TTL ELSE 0

\* Issue up to the release of the read lock: a hit returns, a miss draws.
Lookup(c, i) ==
  /\ pc[c] = "idle"
  /\ asked' = [asked EXCEPT ![c] = i]
  /\ read' = [read EXCEPT ![c] = now]
  /\ \/ /\ \E e \in Held(i, now) : token' = [token EXCEPT ![c] = e[2]]
        /\ pc' = [pc EXCEPT ![c] = "issued"]
        /\ UNCHANGED drawn
     \/ /\ Held(i, now) = {}
        /\ \E t \in Tokens \ drawn :
             /\ token' = [token EXCEPT ![c] = t]
             /\ drawn' = drawn \cup {t}
        /\ pc' = [pc EXCEPT ![c] = "drawn"]
  /\ UNCHANGED <<byPair, byTok, now, ever>>

\* Issue under the write lock: another caller's token is adopted ...
Winner(c) == Held(asked[c], read[c])

Adopt(c) ==
  /\ pc[c] = "drawn"
  /\ \E e \in Winner(c) : token' = [token EXCEPT ![c] = e[2]]
  /\ pc' = [pc EXCEPT ![c] = "issued"]
  /\ UNCHANGED <<byPair, byTok, now, asked, read, drawn, ever>>

LastWins(c) ==   \* mutant: what another caller stored is replaced in both maps
  LET e == <<asked[c], token[c], Expiry(read[c])>>
      Without(map) == {d \in map : d[1] # asked[c]}
  IN /\ pc[c] = "drawn"
     /\ byPair' = Without(byPair) \cup {e} /\ byTok' = Without(byTok) \cup {e}
     /\ ever' = IF ExpiredAt(e, now) THEN ever ELSE ever \cup {<<asked[c], token[c]>>}
     /\ pc' = [pc EXCEPT ![c] = "issued"]
     /\ UNCHANGED <<now, asked, read, token, drawn>>

\* ... or the entry is written to both maps; an expired one of the identity is
\* overwritten in byPair and left behind in byTok.
Store(c) ==
  LET e == <<asked[c], token[c], Expiry(read[c])>>
  IN /\ pc[c] = "drawn"
     /\ Winner(c) = {}
     /\ byPair' = {d \in byPair : d[1] # asked[c]} \cup {e}
     /\ byTok' = byTok \cup {e}
     /\ ever' = IF ExpiredAt(e, now) THEN ever ELSE ever \cup {<<asked[c], token[c]>>}
     /\ pc' = [pc EXCEPT ![c] = "issued"]
     /\ UNCHANGED <<now, asked, read, token, drawn>>

Return(c) ==
  /\ pc[c] = "issued"
  /\ pc' = [pc EXCEPT ![c] = "idle"]
  /\ token' = [token EXCEPT ![c] = None]
  /\ asked' = [asked EXCEPT ![c] = NoIdentity]
  /\ read' = [read EXCEPT ![c] = 0]
  /\ UNCHANGED <<byPair, byTok, now, drawn, ever>>

\* Clear: both maps, under the lock.
PairsKept(tenant) == byPair
PairsLeft(tenant) == {e \in byPair : e[1][1] # tenant}

Clear(tenant) ==
  /\ \E e \in byTok : e[1][1] = tenant
  /\ byTok' = {e \in byTok : e[1][1] # tenant}
  /\ byPair' = PairsLeft(tenant)
  /\ UNCHANGED <<now, pc, asked, read, token, drawn, ever>>

Tick ==
  /\ now < MaxTime
  /\ now' = now + 1
  /\ UNCHANGED <<byPair, byTok, pc, asked, read, token, drawn, ever>>

Next ==
  \/ \E c \in Callers :
       \/ \E i \in Identities : Lookup(c, i)
       \/ Adopt(c) \/ Store(c) \/ Return(c)
  \/ \E tenant \in Tenants : Clear(tenant)
  \/ Tick

Spec == Init /\ [][Next]_vars

-----------------------------------------------------------------------------
\* The two maps do not come apart, also across an erasure: what Issue would
\* return for an identity is what Resolve would find under its token.
PairResolves == byPair \subseteq byTok

\* byTok implements the contract of every driver.
Contract == INSTANCE TokenContract WITH
  live <- {<<e[1], e[2]>> : e \in {d \in byTok : ~ExpiredAt(d, now)}}

ImplementsContract == Contract!Spec

\* An entry that byPair has lost is out of date, and stays so.
LeftBehind == \A e \in byTok : e \in byPair \/ ExpiredAt(e, now)

\* A token that is drawn and not yet stored belongs to one caller and to no entry.
DrawnFresh ==
  /\ \A e \in byTok : e[2] \in drawn
  /\ \A b \in ever : b[2] \in drawn
  /\ \A c \in Callers : pc[c] = "drawn" =>
       /\ token[c] \in drawn /\ read[c] <= now
       /\ \A e \in byTok : e[2] # token[c]
       /\ \A b \in ever : b[2] # token[c]
       /\ \A d \in Callers \ {c} : pc[d] = "drawn" => token[d] # token[c]

\* Types, the two maps, and what makes a drawn token new.
IInv == TypeOK /\ PairResolves /\ LeftBehind /\ DrawnFresh

=============================================================================
