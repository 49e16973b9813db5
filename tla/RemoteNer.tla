------------------------------ MODULE RemoteNer ------------------------------
(***************************************************************************)
(* pii/detect/remote.go: the gateway's client of the NER service, with the *)
(* cache of its answers and its circuit breaker, used by many requests.    *)
(* The cache is looked up under one lock, the breaker under another, and   *)
(* the service is called under none: what is recorded of a call is late.   *)
(***************************************************************************)
EXTENDS Naturals, FiniteSets

CONSTANTS Asking,     \* requests
          Asked,      \* texts
          FailureThreshold, Cooldown, CacheTTL, CacheSize

VARIABLES
  failOpen,  \* the deployment's choice
  cached,    \* of a text: 0 no entry, 1 an expired one, n + 1 one with n ticks left
  failures, openFor,   \* the breaker: ticks until openUntil
  stage, about,        \* a request and its text
  outcome,   \* what Detect returned: "none" yet, "answer", "nothing", "error"
  streak     \* history: results recorded since the last success, all failures

vars == <<failOpen, cached, failures, openFor, stage, about, outcome, streak>>

Init ==
  /\ failOpen \in BOOLEAN
  /\ cached = [t \in Asked |-> 0] /\ failures = 0 /\ openFor = 0 /\ streak = 0
  /\ stage = [r \in Asking |-> "idle"] /\ about \in [Asking -> Asked]
  /\ outcome = [r \in Asking |-> "none"]

To(r, there)  == stage' = [stage EXCEPT ![r] = there]
Ends(r, with) == To(r, "idle") /\ outcome' = [outcome EXCEPT ![r] = with]
OnFailure(r)  == Ends(r, IF failOpen THEN "nothing" ELSE "error")

\* detectionCache.get.
Look(r) ==
  /\ stage[r] = "idle"
  /\ \E t \in Asked : /\ about' = [about EXCEPT ![r] = t]
                      /\ IF cached[t] > 1 THEN Ends(r, "answer")
                         ELSE To(r, "gate") /\ outcome' = [outcome EXCEPT ![r] = "none"]
  /\ UNCHANGED <<failOpen, cached, failures, openFor, streak>>

\* circuitOpen.
CircuitOpen(r) ==
  /\ stage[r] = "gate" /\ openFor > 0 /\ OnFailure(r)
  /\ UNCHANGED <<failOpen, cached, failures, openFor, about, streak>>
Call(r) ==
  /\ stage[r] = "gate" /\ openFor = 0 /\ To(r, "call")
  /\ UNCHANGED <<failOpen, cached, failures, openFor, about, outcome, streak>>

\* recordFailure: no answer in time, not 200, or not readable.
AtThreshold == failures + 1 >= FailureThreshold
RecordFailure(r) ==
  /\ stage[r] = "call" /\ OnFailure(r)
  /\ failures' = IF AtThreshold THEN 0 ELSE failures + 1
  /\ openFor' = IF AtThreshold THEN Cooldown ELSE openFor
  /\ streak' = IF streak < FailureThreshold THEN streak + 1 ELSE streak
  /\ UNCHANGED <<failOpen, cached, about>>

\* recordSuccess, then detectionCache.put: a full cache is cleared.
FailuresStay == failures   \* mutant: a success that leaves the count
AfterSuccess == 0
RecordSuccess(r) ==
  /\ stage[r] = "call" /\ To(r, "put")
  /\ failures' = AfterSuccess /\ openFor' = 0 /\ streak' = 0
  /\ UNCHANGED <<failOpen, cached, about, outcome>>
Entries == {t \in Asked : cached[t] > 0}
Put(r) ==
  /\ stage[r] = "put" /\ Ends(r, "answer")
  /\ cached' = [t \in Asked |->
       IF t = about[r] THEN CacheTTL + 1
       ELSE IF Cardinality(Entries) >= CacheSize THEN 0 ELSE cached[t]]
  /\ UNCHANGED <<failOpen, failures, openFor, about, streak>>

Less(n, least) == IF n <= least THEN n ELSE n - 1
Tick ==
  /\ openFor > 0 \/ \E t \in Asked : cached[t] > 1
  /\ openFor' = Less(openFor, 0) /\ cached' = [t \in Asked |-> Less(cached[t], 1)]
  /\ UNCHANGED <<failOpen, failures, stage, about, outcome, streak>>

Next ==
  \/ \E r \in Asking : Look(r) \/ CircuitOpen(r) \/ Call(r) \/ RecordFailure(r) \/ RecordSuccess(r) \/ Put(r)
  \/ Tick
Spec == Init /\ [][Next]_vars

-----------------------------------------------------------------------------
\* The model is kept from the requests only for cause: when the breaker is open,
\* the last results recorded, a whole threshold of them, were failures, however
\* the calls of several requests interleaved.  A text passes without having been
\* looked at only in a deployment that chose to fail open.
OpenForCause ==
  /\ openFor > 0 => streak >= FailureThreshold
  /\ (\E r \in Asking : outcome[r] = "nothing") => failOpen
  /\ Cardinality(Entries) <= CacheSize

TypeOK ==
  /\ failOpen \in BOOLEAN /\ cached \in [Asked -> Nat] /\ about \in [Asking -> Asked]
  /\ failures \in Nat /\ openFor \in Nat
  /\ stage \in [Asking -> {"idle", "gate", "call", "put"}]
  /\ outcome \in [Asking -> {"none", "answer", "nothing", "error"}]

\* Each failure counted is one since the last success.
Counted == failures <= streak /\ streak \in 0 .. FailureThreshold

IInv == TypeOK /\ Counted
=============================================================================
