--------------------------- MODULE SidecarStreams ---------------------------
(***************************************************************************)
(* sidecar/server.go: redactions and streamed restorations of sessions,    *)
(* the end of a session, and the erasure of a tenant, which goes through   *)
(* vaults, token store and stream buffers one after the other.             *)
(*                                                                         *)
(* A chunk looks its vault up, takes or makes the restorer of its stream   *)
(* under streamMu, and feeds it without a lock; a restorer keeps the vault *)
(* it was made with.  Vaults and restorers are objects: a call in flight   *)
(* goes on with one that was taken out of the map.  What they hold is told *)
(* apart by session and by whether it is older than the erasure.           *)
(***************************************************************************)
EXTENDS Naturals, Sequences, FiniteSets

CONSTANTS Tenants, Sessions,
          NCallers,   \* goroutines that serve calls
          MaxCalls   \* bound on the calls begun

VARIABLES
  vault,     \* VaultRegistry: the vault of a session, 0 for none
  owner,     \* history: the session a vault was made for
  content,   \* what a vault knows: subset of Ages
  tokens,    \* what the token store knows of a tenant: subset of Ages
  streamers, \* Server.streamers: the restorer of a key, 0 for none
  made,      \* restorers: [vault, holds], holds a set of [ref, age]
  call,      \* a call: [at, ref, vault, restorer]
  begun,     \* calls begun
  erasing,   \* handleTenantErase: [at, tenant]
  crossed    \* history: a call was given something of another session

vars == <<vault, owner, content, tokens, streamers, made, call, begun, erasing, crossed>>

Refs == Tenants \X Sessions
TenantOf(ref) == ref[1]
Ages == {"old", "new"}
Nobody == <<>>

SessionKey(ref) == ref[2]   \* mutant: "session-only keys would let another tenant's
StreamKey(ref)  == ref      \*   chunk land in this buffer"
Keys == Refs \cup Sessions
Serving == 1 .. NCallers

NoCall == [at |-> "idle", ref |-> Nobody, vault |-> 0, restorer |-> 0]

Init ==
  /\ vault = [ref \in Refs |-> 0] /\ owner = <<>> /\ content = <<>>
  /\ tokens = [t \in Tenants |-> {}]
  /\ streamers = [k \in Keys |-> 0] /\ made = <<>>
  /\ call = [c \in Serving |-> NoCall] /\ begun = 0
  /\ erasing = [at |-> "idle", tenant |-> Nobody] /\ crossed = FALSE

At(c, there) == call[c].at = there
\* Goroutines are alike, and so are tenants: the first that is free, and a fixed one.
First == CHOOSE t \in Tenants : TRUE
Begins(c, ref) ==
  /\ At(c, "idle") /\ \A d \in 1 .. c - 1 : ~At(d, "idle")
  /\ begun = 0 => TenantOf(ref) = First
  /\ begun < MaxCalls /\ begun' = begun + 1
Ended(c) == call' = [call EXCEPT ![c] = NoCall]

-----------------------------------------------------------------------------
\* scopeFor: the vault of the session, or a new one.
Scoped(c, ref, there) ==
  /\ Begins(c, ref)
  /\ LET fresh == Len(owner) + 1
         v     == IF vault[ref] # 0 THEN vault[ref] ELSE fresh IN
     /\ call' = [call EXCEPT ![c] = [at |-> there, ref |-> ref, vault |-> v, restorer |-> 0]]
     /\ vault' = [vault EXCEPT ![ref] = v]
     /\ IF v = fresh THEN owner' = Append(owner, ref) /\ content' = Append(content, {})
                     ELSE UNCHANGED <<owner, content>>
  /\ UNCHANGED <<tokens, streamers, made, erasing, crossed>>

\* handleRedact: into the vault, or into the token store, and the answer.
Redact(c) ==
  /\ At(c, "redact") /\ Ended(c)
  /\ \/ content' = [content EXCEPT ![call[c].vault] = @ \cup {"new"}] /\ UNCHANGED tokens
     \/ tokens' = [tokens EXCEPT ![TenantOf(call[c].ref)] = @ \cup {"new"}] /\ UNCHANGED content
  /\ UNCHANGED <<vault, owner, streamers, made, begun, erasing, crossed>>

\* handleStreamRestore under streamMu.
Enter(c) ==
  /\ At(c, "chunk")
  /\ LET key   == StreamKey(call[c].ref)
         fresh == Len(made) + 1
         s     == IF streamers[key] # 0 THEN streamers[key] ELSE fresh IN
     /\ streamers' = [streamers EXCEPT ![key] = s]
     /\ made' = IF s = fresh THEN Append(made, [vault |-> call[c].vault, holds |-> {}]) ELSE made
     /\ call' = [call EXCEPT ![c].at = "feed", ![c].restorer = s]
  /\ UNCHANGED <<vault, owner, content, tokens, begun, erasing, crossed>>

\* Frame: the client gets what was held back and its chunk, or that is held back
\* too; a value comes from the vault of the restorer.
Feed(c) ==
  /\ At(c, "feed")
  /\ LET s     == call[c].restorer
         all   == made[s].holds \cup {[ref |-> call[c].ref, age |-> "new"]}
         known == content[made[s].vault] # {}
         from  == {p.ref : p \in all} \cup (IF known THEN {owner[made[s].vault]} ELSE {}) IN
     \/ /\ made' = [made EXCEPT ![s].holds = all] /\ UNCHANGED crossed
        /\ Ended(c)
     \/ /\ made' = [made EXCEPT ![s].holds = {}]
        /\ crossed' = (crossed \/ from # {call[c].ref})
        /\ \/ Ended(c)
           \/ call' = [call EXCEPT ![c].at = "final"]
  /\ UNCHANGED <<vault, owner, content, tokens, streamers, begun, erasing>>

\* req.Final: Flush, and the entry goes.
Final(c) ==
  /\ At(c, "final") /\ Ended(c)
  /\ streamers' = [streamers EXCEPT ![StreamKey(call[c].ref)] = 0]
  /\ UNCHANGED <<vault, owner, content, tokens, made, begun, erasing, crossed>>

-----------------------------------------------------------------------------
\* Vaults that go (Drop, the janitor): emptied in place.
Unregister(refs) ==
  LET gone == {vault[ref] : ref \in refs} IN
  /\ vault' = [ref \in Refs |-> IF ref \in refs THEN 0 ELSE vault[ref]]
  /\ content' = [v \in DOMAIN content |-> IF v \in gone THEN {} ELSE content[v]]

\* handleEndSession: Drop, then the stream.
EndSession(c, ref) ==
  /\ Begins(c, ref) /\ Unregister({ref})
  /\ call' = [call EXCEPT ![c] = [at |-> "ending", ref |-> ref, vault |-> 0, restorer |-> 0]]
  /\ UNCHANGED <<owner, tokens, streamers, made, erasing, crossed>>
EndStream(c) ==
  /\ At(c, "ending") /\ Ended(c)
  /\ streamers' = [streamers EXCEPT ![StreamKey(call[c].ref)] = 0]
  /\ UNCHANGED <<vault, owner, content, tokens, made, begun, erasing, crossed>>

Expire(ref) ==   \* the janitor of the registry
  /\ vault[ref] # 0 /\ Unregister({ref})
  /\ UNCHANGED <<owner, tokens, streamers, made, call, begun, erasing, crossed>>

\* reapStreamers: a stream that was not used for five minutes.
Reap(k) ==
  /\ streamers[k] # 0 /\ streamers' = [streamers EXCEPT ![k] = 0]
  /\ UNCHANGED <<vault, owner, content, tokens, made, call, begun, erasing, crossed>>

-----------------------------------------------------------------------------
\* handleTenantErase.  What is there now is old.
Aged(set) == IF set = {} THEN {} ELSE {"old"}
IsOf(t, ref) == TenantOf(ref) = t
BeginErase(t) ==
  /\ erasing.at = "idle" /\ erasing' = [at |-> "vaults", tenant |-> t]
  /\ content' = [v \in DOMAIN content |-> IF IsOf(t, owner[v]) THEN Aged(content[v]) ELSE content[v]]
  /\ tokens' = [tokens EXCEPT ![t] = Aged(@)]
  /\ made' = [s \in DOMAIN made |->
       [made[s] EXCEPT !.holds = {[p EXCEPT !.age = IF IsOf(t, p.ref) THEN "old" ELSE @] : p \in @}]]
  /\ UNCHANGED <<vault, owner, streamers, call, begun, crossed>>

EraseVaults ==
  /\ erasing.at = "vaults" /\ erasing' = [erasing EXCEPT !.at = "tokens"]
  /\ Unregister({ref \in Refs : IsOf(erasing.tenant, ref)})
  /\ UNCHANGED <<owner, tokens, streamers, made, call, begun, crossed>>

EraseTokens ==
  /\ erasing.at = "tokens"
  /\ \/ erasing' = [erasing EXCEPT !.at = "streams"]
        /\ tokens' = [tokens EXCEPT ![erasing.tenant] = {}]
     \/ erasing' = [erasing EXCEPT !.at = "failed"] /\ UNCHANGED tokens
  /\ UNCHANGED <<vault, owner, content, streamers, made, call, begun, crossed>>

EraseStreams ==
  /\ erasing.at = "streams" /\ erasing' = [erasing EXCEPT !.at = "done"]
  /\ streamers' = [k \in Keys |->
       IF k \in Refs /\ IsOf(erasing.tenant, k) THEN 0 ELSE streamers[k]]
  /\ UNCHANGED <<vault, owner, content, tokens, made, begun, call, crossed>>

Next ==
  \/ \E c \in Serving :
       \/ \E ref \in Refs : EndSession(c, ref) \/ (\E p \in {"redact", "chunk"} : Scoped(c, ref, p))
       \/ Redact(c) \/ Enter(c) \/ Feed(c) \/ Final(c) \/ EndStream(c)
  \/ \E ref \in Refs : Expire(ref)
  \/ \E k \in Keys : Reap(k)
  \/ EraseVaults \/ EraseTokens \/ EraseStreams
  \/ \E t \in Tenants : BeginErase(t)

Spec == Init /\ [][Next]_vars

-----------------------------------------------------------------------------
Restorer == [vault : Nat, holds : SUBSET [ref : Refs, age : Ages]]
Call == [at : {"idle", "redact", "chunk", "feed", "final", "ending"},
         ref : Refs \cup {Nobody}, vault : Nat, restorer : Nat]
Erasure == [at : {"idle", "vaults", "tokens", "streams", "failed", "done"},
            tenant : Tenants \cup {Nobody}]

TypeOK ==
  /\ vault \in [Refs -> Nat] /\ owner \in Seq(Refs)
  /\ content \in Seq(SUBSET Ages) /\ Len(content) = Len(owner)
  /\ tokens \in [Tenants -> SUBSET Ages] /\ streamers \in [Keys -> Nat]
  /\ made \in Seq(Restorer) /\ call \in [Serving -> Call] /\ erasing \in Erasure
  /\ crossed \in BOOLEAN

\* An object stays with the session it was made for, registered or not.
OwnerOf(s) == owner[made[s].vault]
VaultsOwned ==
  \A ref \in Refs : vault[ref] # 0 => vault[ref] \in DOMAIN owner /\ owner[vault[ref]] = ref
RestorersOwned ==
  \A s \in DOMAIN made :
    made[s].vault \in DOMAIN owner /\ \A p \in made[s].holds : p.ref = OwnerOf(s)
StreamsOwned ==
  \A k \in Keys : streamers[k] # 0 =>
    k \in Refs /\ streamers[k] \in DOMAIN made /\ OwnerOf(streamers[k]) = k
CallsOwned ==
  \A c \in Serving :
    /\ ~At(c, "idle") => call[c].ref \in Refs
    /\ At(c, "redact") \/ At(c, "chunk") =>
         call[c].vault \in DOMAIN owner /\ owner[call[c].vault] = call[c].ref
    /\ At(c, "feed") =>
         call[c].restorer \in DOMAIN made /\ OwnerOf(call[c].restorer) = call[c].ref

\* What an erasure has gone through stays clean: no step brings back what was there.
Within(s) == {p.age : p \in {q \in made[s].holds : IsOf(erasing.tenant, q.ref)}}
VaultsClean  == \A ref \in Refs : IsOf(erasing.tenant, ref) /\ vault[ref] # 0
                                  => "old" \notin content[vault[ref]]
TokensClean  == "old" \notin tokens[erasing.tenant]
StreamsClean == \A k \in Keys : streamers[k] # 0 => "old" \notin Within(streamers[k])
Reached ==
  /\ erasing.at # "idle" => erasing.tenant \in Tenants
  /\ erasing.at \in {"tokens", "streams", "failed", "done"} => VaultsClean
  /\ erasing.at \in {"streams", "done"} => TokensClean
  /\ erasing.at = "done" => StreamsClean

Owned == VaultsOwned /\ RestorersOwned /\ StreamsOwned /\ CallsOwned

IInv == TypeOK /\ Owned /\ Reached /\ ~crossed

\* Nobody is given text or values of another session, whatever streams, ends and
\* erasures interleave; and an erasure that reports success has reached what was
\* there when it began: in the vault of every session, in the token store, and in
\* every buffer that a later chunk can still be added to.  (A vault that is no
\* longer registered is not reached: a redaction in flight can still write to it,
\* and a chunk in flight can bring it back with a restorer of its own.)
StreamsApart ==
  ~crossed /\ (erasing.at = "done" => VaultsClean /\ TokensClean /\ StreamsClean)
=============================================================================
