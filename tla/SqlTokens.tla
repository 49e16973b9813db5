------------------------------ MODULE SqlTokens ------------------------------
(***************************************************************************)
(* pii/anonymize/tokenstore.go, type SQLTokenStore: a table of token rows  *)
(* shared by the replicas.  Issue is a SELECT, an INSERT and, when the     *)
(* INSERT was refused, a second SELECT; each statement is atomic, nothing  *)
(* joins them, and any of them can fail, the INSERT also after it was      *)
(* committed.  The clock is in the table's unit, seconds; a statement and  *)
(* the reading of the clock it is given are one step.                      *)
(*                                                                         *)
(* A scope is a (tenant, namespace) pair.  The value stands for both its   *)
(* digest and its cipher text: the keys are the scope's own.  A random     *)
(* token of 128 bits is one that was never drawn before.                   *)
(***************************************************************************)
EXTENDS Naturals, FiniteSets

CONSTANTS Tenants, Namespaces, Values, Tokens,
          Callers,     \* goroutines of all the replicas that call Issue
          Erasable,    \* tenants whose erasure is asked for
          TTL,         \* 0: rows never expire
          MaxTime,     \* bound on the clock
          None

Scopes     == Tenants \X Namespaces
Identities == Scopes \X Values

ASSUME SqlAssumption ==
  TTL \in Nat /\ MaxTime \in Nat /\ None \notin Tokens

VARIABLES rows,    \* the table
          now,     \* Unix seconds
          pc,      \* where a caller is in Issue
          asked,   \* the identity it asks for
          token,   \* the token it drew, then the one it returns
          drawn,   \* every token drawn so far
          excused, \* history: a statement failed or the tenant was erased
          ever     \* history: the <<identity, token>> pairs ever stored

vars == <<rows, now, pc, asked, token, drawn, excused, ever>>

Never == 0
Expiries == Nat

Row == [scope : Scopes, value : Values, token : Tokens, expires : Expiries]

TypeOK ==
  /\ rows \subseteq Row
  /\ now \in Nat \ {0}
  /\ pc \in [Callers -> {"idle", "lookup", "insert", "again", "issued", "failed"}]
  /\ asked \in [Callers -> Identities]
  /\ token \in [Callers -> Tokens \cup {None}]
  /\ drawn \subseteq Tokens
  /\ excused \in [Callers -> BOOLEAN]
  /\ ever \subseteq Identities \X Tokens

Init ==
  /\ rows = {}
  /\ now = 1
  /\ pc = [c \in Callers |-> "idle"]
  /\ asked \in {[c \in Callers |-> i] : i \in Identities}
  /\ token = [c \in Callers |-> None]
  /\ drawn = {}
  /\ excused = [c \in Callers |-> FALSE]
  /\ ever = {}

-----------------------------------------------------------------------------
\* WHERE ... AND (expires_at IS NULL OR expires_at > ?)
Unexpired(r) == r.expires = Never \/ r.expires > now

\* The rows of an identity (WHERE tenant, namespace, value_digest), whatever
\* their age: what UNIQUE (tenant_id, namespace, value_digest) compares with.
RowsInAnyScope(i) == {r \in rows : r.value = i[2]}
RowsOf(i)         == {r \in rows : r.scope = i[1] /\ r.value = i[2]}
Selected(i)       == {r \in RowsOf(i) : Unexpired(r)}

\* Resolve: the value a token has in a scope, as a set of at most one.
Resolved(scope, t) ==
  {r.value : r \in {q \in rows : q.scope = scope /\ q.token = t /\ Unexpired(q)}}

\* The expiry a row gets.
StampAlways == now + TTL
Stamp == IF TTL > 0 THEN now + TTL ELSE Never

Call(c, i) ==
  /\ pc[c] = "idle"
  /\ pc' = [pc EXCEPT ![c] = "lookup"]
  /\ asked' = [asked EXCEPT ![c] = i]
  /\ excused' = [excused EXCEPT ![c] = FALSE]
  /\ UNCHANGED <<rows, now, token, drawn, ever>>

\* The first SELECT finds the identity's token ...
LookupHit(c) ==
  /\ pc[c] = "lookup"
  /\ \E r \in Selected(asked[c]) : token' = [token EXCEPT ![c] = r.token]
  /\ pc' = [pc EXCEPT ![c] = "issued"]
  /\ UNCHANGED <<rows, now, asked, drawn, excused, ever>>

\* ... or nothing, and a token is drawn.
LookupMiss(c) ==
  /\ pc[c] = "lookup"
  /\ Selected(asked[c]) = {}
  /\ \E t \in Tokens \ drawn :
       /\ token' = [token EXCEPT ![c] = t]
       /\ drawn' = drawn \cup {t}
  /\ pc' = [pc EXCEPT ![c] = "insert"]
  /\ UNCHANGED <<rows, now, asked, excused, ever>>

\* The row is stored if no row of the identity is there.
NoConstraint(c) == TRUE
KeyFree(c)      == RowsOf(asked[c]) = {}

Store(c) ==
  /\ rows' = rows \cup {[scope |-> asked[c][1], value |-> asked[c][2],
                         token |-> token[c], expires |-> Stamp]}
  /\ ever' = ever \cup {<<asked[c], token[c]>>}

Insert(c) ==
  /\ pc[c] = "insert"
  /\ KeyFree(c)
  /\ Store(c)
  /\ pc' = [pc EXCEPT ![c] = "issued"]
  /\ UNCHANGED <<now, asked, token, drawn, excused>>

\* The constraint refuses the row.
InsertRefused(c) ==
  /\ pc[c] = "insert"
  /\ ~KeyFree(c)
  /\ pc' = [pc EXCEPT ![c] = "again"]
  /\ UNCHANGED <<rows, now, asked, token, drawn, excused, ever>>

\* The statement fails: not executed, or committed and its answer lost.
InsertFails(c) ==
  /\ pc[c] = "insert"
  /\ \/ KeyFree(c) /\ Store(c)
     \/ UNCHANGED <<rows, ever>>
  /\ pc' = [pc EXCEPT ![c] = "again"]
  /\ excused' = [excused EXCEPT ![c] = TRUE]
  /\ UNCHANGED <<now, asked, token, drawn>>

\* After any failed INSERT: the winner's token is adopted if there is one.
Adopt(c) ==
  /\ pc[c] = "again"
  /\ \E r \in Selected(asked[c]) : token' = [token EXCEPT ![c] = r.token]
  /\ pc' = [pc EXCEPT ![c] = "issued"]
  /\ UNCHANGED <<rows, now, asked, drawn, excused, ever>>

NoWinner(c) ==
  /\ pc[c] = "again"
  /\ Selected(asked[c]) = {}
  /\ pc' = [pc EXCEPT ![c] = "failed"]
  /\ UNCHANGED <<rows, now, asked, token, drawn, excused, ever>>

\* A SELECT fails: Issue fails.
SelectFails(c) ==
  /\ pc[c] \in {"lookup", "again"}
  /\ pc' = [pc EXCEPT ![c] = "failed"]
  /\ excused' = [excused EXCEPT ![c] = TRUE]
  /\ UNCHANGED <<rows, now, asked, token, drawn, ever>>

Return(c) ==
  /\ pc[c] \in {"issued", "failed"}
  /\ pc' = [pc EXCEPT ![c] = "idle"]
  /\ token' = [token EXCEPT ![c] = None]
  /\ UNCHANGED <<rows, now, asked, drawn, excused, ever>>

\* Clear: every row of the tenant, expired ones too.
Clear(tenant) ==
  /\ \E r \in rows : r.scope[1] = tenant
  /\ rows' = {r \in rows : r.scope[1] # tenant}
  /\ excused' = [c \in Callers |-> excused[c] \/ asked[c][1][1] = tenant]
  /\ UNCHANGED <<now, pc, asked, token, drawn, ever>>

Tick ==
  /\ now < MaxTime
  /\ now' = now + 1
  /\ UNCHANGED <<rows, pc, asked, token, drawn, excused, ever>>

Next ==
  \/ \E c \in Callers :
       \/ \E i \in Identities : Call(c, i)
       \/ LookupHit(c) \/ LookupMiss(c)
       \/ Insert(c) \/ InsertRefused(c) \/ InsertFails(c)
       \/ Adopt(c) \/ NoWinner(c) \/ SelectFails(c)
       \/ Return(c)
  \/ \E tenant \in Erasable : Clear(tenant)
  \/ Tick

Spec == Init /\ [][Next]_vars

-----------------------------------------------------------------------------
\* "An issued token resolves immediately": the token Issue returns, its own or
\* an adopted one, resolves to the caller's value in the caller's scope at the
\* moment Issue decides to return it.
Answered(c) == Resolved(asked[c][1], token[c]) = {asked[c][2]}
IssuedResolves ==
  [][\A c \in Callers : pc[c] # "issued" /\ pc'[c] = "issued" => Answered(c)']_vars

\* However the statements of the replicas interleave, all the callers that hold
\* a token of one identity that still resolves hold the same one.
Converge ==
  \A c, d \in Callers :
    /\ pc[c] = "issued" /\ pc[d] = "issued" /\ asked[c] = asked[d]
    /\ Resolved(asked[c][1], token[c]) # {} /\ Resolved(asked[d][1], token[d]) # {}
    => token[c] = token[d]

\* "The loser must adopt the winner rather than fail": Issue fails only when a
\* statement failed, or the tenant was erased while it ran.
FailsOnlyExcused == \A c \in Callers : pc[c] = "failed" => excused[c]

\* The table implements the contract of every driver.
Contract == INSTANCE TokenContract WITH
  live <- {<< <<r.scope, r.value>>, r.token >> : r \in {q \in rows : Unexpired(q)}}

ImplementsContract == Contract!Spec

-----------------------------------------------------------------------------
\* The inductive invariant.
OneRow == \A r, q \in rows :
  (r.scope = q.scope /\ r.value = q.value) \/ r.token = q.token => r = q
RowsRecorded  == \A r \in rows : << <<r.scope, r.value>>, r.token >> \in ever
EverDrawn     == \A b \in ever : b[2] \in drawn
TokenUnique   == \A b, d \in ever : b[2] = d[2] => b[1] = d[1]
Pending(c)    == pc[c] = "insert"
PendingFresh  ==
  \A c \in Callers : Pending(c) =>
    /\ token[c] \in drawn
    /\ \A b \in ever : b[2] # token[c]
    /\ \A d \in Callers : Pending(d) /\ token[d] = token[c] => d = c
IssuedRecorded ==
  \A c \in Callers : pc[c] = "issued" => <<asked[c], token[c]>> \in ever
IInv == /\ TypeOK /\ OneRow /\ RowsRecorded /\ EverDrawn /\ TokenUnique
        /\ PendingFresh /\ IssuedRecorded

=============================================================================
