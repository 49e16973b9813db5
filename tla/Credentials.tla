----------------------------- MODULE Credentials -----------------------------
(***************************************************************************)
(* internal/credential on the way to a backend: of what a client brought   *)
(* only three headers are copied, credentials among them are taken off,    *)
(* the secret of the backend is put on, and the headers are looked at once *)
(* more.  Secrets are read from files that an operator replaces, through a *)
(* cache that requests fill without holding its lock.                      *)
(***************************************************************************)
EXTENDS Naturals, FiniteSets

CONSTANTS Reqs,
          Headers,  \* header names: "cred" or "plain", as IsCredentialHeader says
          Copied,   \* what buildUpstream copies
          Policies, \* [expected, static]: the header of the secret, fixed others
          TTL, MaxTime, MaxVersion

VARIABLES
  clock, version,  \* the secret in the file, counted; 0: it cannot be read
  since,           \* history: when each version was replaced
  cache,           \* CachingProvider.cache: [version, at], version 0 for none
  policy,          \* BackendPolicy
  at,              \* "idle", "fetching", "sent", "refused"
  read,            \* the version a request has read but not stored
  started,         \* history: when it began
  out, used        \* the headers and the version a request went out with

vars == <<clock, version, since, cache, policy, at, read, started, out, used>>

IsCredentialHeader(h) == Headers[h] = "cred"
Names == DOMAIN Headers

\* BackendPolicy.Validate lets any header name pass.
Init ==
  /\ clock = 1 /\ version = 1 /\ since = [v \in 1 .. MaxVersion |-> MaxTime + 1]
  /\ cache = [version |-> 0, at |-> 0]
  /\ policy \in Policies
  /\ at = [r \in Reqs |-> "idle"]
  /\ read = [r \in Reqs |-> 0] /\ started = [r \in Reqs |-> 0]
  /\ out = [r \in Reqs |-> {}] /\ used = [r \in Reqs |-> 0]

Go(r, there) == at' = [at EXCEPT ![r] = there]

\* Strip, Inject, Verify.  The header of the request is a set: setting a header
\* replaces one of the same name.
Strip(hs) == {h \in hs : ~IsCredentialHeader(h)}
Injected(hs) == hs \cup {policy.expected} \cup policy.static
VerifyNothing(hs) == TRUE   \* mutant
Verify(hs) == {h \in hs : IsCredentialHeader(h)} = {policy.expected}

Apply(r, v) ==
  LET h == Injected(Strip(Copied)) IN
  IF v # 0 /\ Verify(h)
  THEN /\ Go(r, "sent") /\ out' = [out EXCEPT ![r] = h] /\ used' = [used EXCEPT ![r] = v]
  ELSE Go(r, "refused") /\ UNCHANGED <<out, used>>

\* Fetch: from the cache while the entry is young, else from the file.
Young == cache.version # 0 /\ clock - cache.at < TTL
Fetch(r) ==
  /\ at[r] = "idle"
  /\ started' = [started EXCEPT ![r] = clock]
  /\ IF Young THEN Apply(r, cache.version) /\ UNCHANGED read
     ELSE /\ Go(r, "fetching") /\ read' = [read EXCEPT ![r] = version]
          /\ UNCHANGED <<out, used>>
  /\ UNCHANGED <<clock, version, since, cache, policy>>
Store(r) ==
  /\ at[r] = "fetching" /\ Apply(r, read[r])
  /\ cache' = IF read[r] = 0 THEN cache ELSE [version |-> read[r], at |-> clock]
  /\ UNCHANGED <<clock, version, since, policy, read, started>>

Finished(r) ==
  /\ at[r] \in {"sent", "refused"} /\ Go(r, "idle")
  /\ read' = [read EXCEPT ![r] = 0]
  /\ started' = [started EXCEPT ![r] = 0]
  /\ out' = [out EXCEPT ![r] = {}] /\ used' = [used EXCEPT ![r] = 0]
  /\ UNCHANGED <<clock, version, since, cache, policy>>

\* The operator replaces the file, or takes the mount away.
Rotate ==
  /\ version # 0 /\ version < MaxVersion /\ version' = version + 1
  /\ since' = [since EXCEPT ![version] = clock]
  /\ UNCHANGED <<clock, cache, policy, at, read, started, out, used>>
Unmount ==
  /\ version # 0 /\ version' = 0 /\ since' = [since EXCEPT ![version] = clock]
  /\ UNCHANGED <<clock, cache, policy, at, read, started, out, used>>
\* Reading a file and storing it takes less than a second.
Tick ==
  /\ clock < MaxTime /\ \A r \in Reqs : at[r] = "fetching" => started[r] = clock
  /\ clock' = clock + 1
  /\ UNCHANGED <<version, since, cache, policy, at, read, started, out, used>>

Next == \/ \E r \in Reqs : Fetch(r) \/ Store(r) \/ Finished(r)
        \/ Rotate \/ Unmount \/ Tick
Spec == Init /\ [][Next]_vars

-----------------------------------------------------------------------------
\* A request that leaves carries one credential header, that of its backend, with
\* a secret that was in the file at most a TTL and the time of one read ago, also
\* when two requests that missed the cache store what they read in any order; a
\* header that nobody recognises as a credential is refused, not sent.
NoForeignCredential ==
  \A r \in Reqs : at[r] = "sent" =>
    /\ {h \in out[r] : IsCredentialHeader(h)} = {policy.expected}
    /\ started[r] <= since[used[r]] + TTL

TypeOK ==
  /\ clock \in 1 .. MaxTime + 1 /\ version \in 0 .. MaxVersion
  /\ since \in [1 .. MaxVersion -> Nat]
  /\ cache \in [version : 0 .. MaxVersion, at : Nat] /\ cache.at <= clock
  /\ at \in [Reqs -> {"idle", "fetching", "sent", "refused"}]
  /\ read \in [Reqs -> 0 .. MaxVersion] /\ used \in [Reqs -> 0 .. MaxVersion]
  /\ started \in [Reqs -> Nat] /\ \A r \in Reqs : started[r] <= clock
  /\ DOMAIN out = Reqs

\* A version is not replaced before it is written.
Ahead == version # 0 => \A v \in version .. MaxVersion : since[v] = MaxTime + 1

\* What was read was in the file when the reading began, less than a second before
\* it is stored; what went out was there a TTL ago.
ReadInTime ==
  /\ cache.version # 0 => cache.at <= since[cache.version] + 1
  /\ \A r \in Reqs : at[r] = "fetching" =>
       clock <= started[r] + 1 /\ (read[r] # 0 => started[r] <= since[read[r]])
  /\ \A r \in Reqs : at[r] = "sent" => used[r] # 0

IInv == TypeOK /\ Ahead /\ ReadInTime
=============================================================================
