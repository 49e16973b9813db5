------------------------------- MODULE Breaker -------------------------------
(***************************************************************************)
(* internal/routing/breaker.go: one circuit breaker per backend, each      *)
(* method under its lock.  The change from open to half-open is made by    *)
(* the method that looks next once the recovery time is over.  A permit    *)
(* that Allow hands out in the half-open state is given back by the next   *)
(* Record call only: there is no other way to return one.                  *)
(***************************************************************************)
EXTENDS Naturals

CONSTANTS Backends,
          Threshold,         \* failureThreshold
          HalfOpenMaxCalls

ASSUME BreakerAssumption ==
  Threshold \in Nat \ {0} /\ HalfOpenMaxCalls \in Nat \ {0}

VARIABLES state,     \* "closed", "open" or "half_open"
          failures,  \* consecutive, counted no further than the threshold
          permits,   \* halfOpenCalls
          cooled     \* the recovery time is over

breakerVars == <<state, failures, permits, cooled>>

BreakerTypeOK ==
  /\ state \in [Backends -> {"closed", "open", "half_open"}]
  /\ failures \in [Backends -> 0 .. Threshold]
  /\ permits \in [Backends -> 0 .. HalfOpenMaxCalls]
  /\ cooled \in [Backends -> BOOLEAN]

BreakerInit ==
  /\ state = [b \in Backends |-> "closed"]
  /\ failures = [b \in Backends |-> 0]
  /\ permits = [b \in Backends |-> 0]
  /\ cooled = [b \in Backends |-> FALSE]

\* The state a method finds once refreshLocked has looked at the clock.
Refreshed(b) == IF state[b] = "open" /\ cooled[b] THEN "half_open" ELSE state[b]
PermitsLeft(b) == state[b] # "half_open" \/ permits[b] < HalfOpenMaxCalls

\* Allow says yes: closed, or half-open with a permit left, which it takes.
Allow(b) ==
  /\ Refreshed(b) # "open" /\ PermitsLeft(b)
  /\ state' = [state EXCEPT ![b] = Refreshed(b)]
  /\ permits' = [permits EXCEPT ![b] =
       CASE Refreshed(b) = "closed" -> @
         [] state[b] = "open"       -> 1
         [] OTHER                   -> @ + 1]
  /\ cooled' = [cooled EXCEPT ![b] = FALSE]
  /\ UNCHANGED failures

\* Allow says no.
Deny(b) ==
  /\ Refreshed(b) = "open" \/ ~PermitsLeft(b)
  /\ UNCHANGED breakerVars

\* RecordSuccess, whatever the state it comes into.
RecordSuccess(b) ==
  /\ state' = [state EXCEPT ![b] = "closed"]
  /\ failures' = [failures EXCEPT ![b] = 0]
  /\ permits' = [permits EXCEPT ![b] = 0]
  /\ cooled' = [cooled EXCEPT ![b] = FALSE]

\* RecordFailure does not refresh: an open breaker restarts its recovery time.
Trips(b) == state[b] = "half_open" \/ failures[b] + 1 >= Threshold

RecordFailure(b) ==
  /\ failures' = [failures EXCEPT ![b] = IF @ < Threshold THEN @ + 1 ELSE @]
  /\ state' = [state EXCEPT ![b] = IF Trips(b) THEN "open" ELSE @]
  /\ permits' = [permits EXCEPT ![b] = IF Trips(b) THEN 0 ELSE @]
  /\ cooled' = [cooled EXCEPT ![b] = IF Trips(b) THEN FALSE ELSE @]

\* The recovery time of an open breaker passes.
Cool(b) ==
  /\ state[b] = "open" /\ ~cooled[b]
  /\ cooled' = [cooled EXCEPT ![b] = TRUE]
  /\ UNCHANGED <<state, failures, permits>>

=============================================================================
