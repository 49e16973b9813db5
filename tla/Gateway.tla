------------------------------- MODULE Gateway -------------------------------
(***************************************************************************)
(* internal/proxy/handler.go with internal/routing/policy.go: the way of a *)
(* request through the gateway.  The budget picks a tier; every enabled    *)
(* backend from that tier down the fallback chain is asked for in turn     *)
(* (collectFrom), first without the backends under critical memory         *)
(* pressure, then, if that left none, with them; the first candidate       *)
(* decides on admission and on redaction; the candidates are tried in      *)
(* order until one answers; what a paid one answered is recorded.          *)
(*                                                                         *)
(* The chain is the one the gateway is built with, each tier to the next   *)
(* one.  What the GPU probe, the limiter, the vault registry and the       *)
(* redactor answer are inputs here.                                        *)
(***************************************************************************)
EXTENDS Breaker, Sequences, FiniteSets

CONSTANTS Requests,      \* goroutines that serve a request
          Targets,       \* the backends in the order of tier and configuration
          TierOf, Tiers, \* 1 .. Tiers
          SelfHosted,    \* backends inside the boundary
          Scraped,       \* backends whose memory pressure is known
          Budgeted,      \* tiers that have a budget
          Limit,         \* HardLimitUSD of each
          MaxCost,       \* bound on the cost of one answer
          AlwaysRedact

ASSUME GatewayAssumption ==
  /\ Tiers \in Nat \ {0} /\ TierOf \in [Backends -> 1 .. Tiers]
  /\ Targets \in Seq(Backends) /\ SelfHosted \subseteq Backends
  /\ Scraped \subseteq Backends /\ Budgeted \subseteq 1 .. Tiers
  /\ Limit \in Nat \ {0} /\ MaxCost \in Nat /\ AlwaysRedact \in BOOLEAN
  /\ IsFiniteSet(Requests)

VARIABLES pc,
          tier,       \* the tier after the budget
          lenient,    \* the second round, which takes critical backends too
          todo,       \* the backends collectFrom has still to ask
          eligible,   \* those it may try
          candidates, \* in the order they are tried
          at,         \* the candidate whose turn it is
          clear,      \* the body goes out unredacted
          spent       \* what a tier has cost so far

requestVars == <<pc, tier, lenient, todo, eligible, candidates, at, clear>>
vars == <<breakerVars, requestVars, spent>>

TypeOK ==
  /\ BreakerTypeOK
  /\ pc \in [Requests -> {"idle", "collect", "cover", "call", "answer"}]
  /\ tier \in [Requests -> 1 .. Tiers]
  /\ lenient \in [Requests -> BOOLEAN]
  /\ todo \in [Requests -> SUBSET Backends]
  /\ eligible \in [Requests -> SUBSET Backends]
  /\ candidates \in [Requests -> Seq(Backends)]
  /\ at \in [Requests -> Nat]
  /\ clear \in [Requests -> BOOLEAN]
  /\ spent \in [1 .. Tiers -> Nat]

Init ==
  /\ BreakerInit
  /\ pc = [r \in Requests |-> "idle"]
  /\ tier = [r \in Requests |-> 1]
  /\ lenient = [r \in Requests |-> FALSE]
  /\ todo = [r \in Requests |-> {}]
  /\ eligible = [r \in Requests |-> {}]
  /\ candidates = [r \in Requests |-> <<>>]
  /\ at = [r \in Requests |-> 1]
  /\ clear = [r \in Requests |-> FALSE]
  /\ spent = [t \in 1 .. Tiers |-> 0]

-----------------------------------------------------------------------------
\* ApplyBudget: a request for tier t lands on tier u, down the chain until a
\* tier is affordable or is the last one.
OverLimit(t) == t \in Budgeted /\ spent[t] > Limit
Exhausted(t) == t \in Budgeted /\ spent[t] >= Limit

Lands(t, u) ==
  /\ u = Tiers \/ ~Exhausted(u)
  /\ \A w \in t .. Tiers : w < u => Exhausted(w)

\* The backends collectFrom asks, the tiers of the chain one after the other.
Walk(t) == {b \in Backends : TierOf[b] >= t}
Before(b, c) ==
  \E i, j \in DOMAIN Targets : i < j /\ Targets[i] = b /\ Targets[j] = c
Turn(r, b) == pc[r] = "collect" /\ b \in todo[r] /\ \A c \in todo[r] : ~Before(c, b)

\* The request is over: its goroutine forgets it.
Over(r) ==
  /\ pc' = [pc EXCEPT ![r] = "idle"]
  /\ tier' = [tier EXCEPT ![r] = 1]
  /\ lenient' = [lenient EXCEPT ![r] = FALSE]
  /\ todo' = [todo EXCEPT ![r] = {}]
  /\ eligible' = [eligible EXCEPT ![r] = {}]
  /\ candidates' = [candidates EXCEPT ![r] = <<>>]
  /\ at' = [at EXCEPT ![r] = 1]
  /\ clear' = [clear EXCEPT ![r] = FALSE]

\* Resolve gives tier t, by header, rule or task; the budget may lower it.
Resolve(r, t) ==
  /\ pc[r] = "idle"
  /\ \E u \in t .. Tiers :
       /\ Lands(t, u)
       /\ tier' = [tier EXCEPT ![r] = u]
       /\ todo' = [todo EXCEPT ![r] = Walk(u)]
  /\ pc' = [pc EXCEPT ![r] = "collect"]
  /\ UNCHANGED <<breakerVars, lenient, eligible, candidates, at, clear, spent>>

\* The backend's breaker allows it, and it is not left out as critical.
TakeBackend(r, b) ==
  /\ Turn(r, b)
  /\ Allow(b)
  /\ eligible' = [eligible EXCEPT ![r] = @ \cup {b}]
  /\ todo' = [todo EXCEPT ![r] = @ \ {b}]
  /\ UNCHANGED <<pc, tier, lenient, candidates, at, clear, spent>>

\* Allowed, then left out as critical: the permit is not given back.
SkipCritical(r, b) ==
  /\ Turn(r, b)
  /\ b \in Scraped /\ ~lenient[r]
  /\ Allow(b)
  /\ todo' = [todo EXCEPT ![r] = @ \ {b}]
  /\ UNCHANGED <<pc, tier, lenient, eligible, candidates, at, clear, spent>>

SkipDenied(r, b) ==
  /\ Turn(r, b)
  /\ Deny(b)
  /\ todo' = [todo EXCEPT ![r] = @ \ {b}]
  /\ UNCHANGED <<pc, tier, lenient, eligible, candidates, at, clear, spent>>

\* No candidate in the first round: a second one.
Relax(r) ==
  /\ pc[r] = "collect" /\ todo[r] = {} /\ eligible[r] = {} /\ ~lenient[r]
  /\ lenient' = [lenient EXCEPT ![r] = TRUE]
  /\ todo' = [todo EXCEPT ![r] = Walk(tier[r])]
  /\ UNCHANGED <<breakerVars, pc, tier, eligible, candidates, at, clear, spent>>

NoBackend(r) ==
  /\ pc[r] = "collect" /\ todo[r] = {} /\ eligible[r] = {} /\ lenient[r]
  /\ Over(r)
  /\ UNCHANGED <<breakerVars, spent>>

\* The order of trial: by tier and configuration, but in each tier the backend
\* that prefix affinity picks, if any, comes first, and is not listed again.
IsRanking(s, bs) ==
  /\ {s[i] : i \in DOMAIN s} = bs
  /\ \A i, j \in DOMAIN s : i < j =>
       /\ s[i] # s[j]
       /\ TierOf[s[i]] <= TierOf[s[j]]
       /\ \/ Before(s[i], s[j])
          \/ \A k \in 1 .. i - 1 : TierOf[s[k]] # TierOf[s[i]]

Rank(r) ==
  /\ pc[r] = "collect" /\ todo[r] = {} /\ eligible[r] # {}
  /\ \E n \in 1 .. Len(Targets) : \E s \in [1 .. n -> eligible[r]] :
       /\ IsRanking(s, eligible[r])
       /\ candidates' = [candidates EXCEPT ![r] = s]
  /\ pc' = [pc EXCEPT ![r] = "cover"]
  /\ eligible' = [eligible EXCEPT ![r] = {}]
  /\ lenient' = [lenient EXCEPT ![r] = FALSE]
  /\ UNCHANGED <<breakerVars, tier, todo, at, clear, spent>>

\* Redaction is for a first candidate outside the boundary.
RedactingForLast(r) == AlwaysRedact \/ candidates[r][Len(candidates[r])] \notin SelfHosted
Redacting(r)        == AlwaysRedact \/ candidates[r][1] \notin SelfHosted

\* Admitted, within the rate limit, and redacted if it has to be.
Cover(r) ==
  /\ pc[r] = "cover"
  /\ clear' = [clear EXCEPT ![r] = ~Redacting(r)]
  /\ pc' = [pc EXCEPT ![r] = "call"]
  /\ UNCHANGED <<breakerVars, tier, lenient, todo, eligible, candidates, at, spent>>

\* Memory pressure on the first candidate, the rate limit, no vault, a redaction
\* that failed, or a value found in the last check.
Refuse(r) ==
  /\ pc[r] = "cover"
  /\ Over(r)
  /\ UNCHANGED <<breakerVars, spent>>

Current(r) == candidates[r][at[r]]
IsLast(r)  == at[r] = Len(candidates[r])
SameAgain(r) == at[r]
NextOne(r)   == at[r] + 1

\* dispatch, the backend answered: 2xx, 3xx and 4xx are all a success.
Answered(r) ==
  /\ pc[r] = "call"
  /\ RecordSuccess(Current(r))
  /\ pc' = [pc EXCEPT ![r] = "answer"]
  /\ UNCHANGED <<tier, lenient, todo, eligible, candidates, at, clear, spent>>

\* Unreachable or 5xx, and there is another candidate.
Failover(r) ==
  /\ pc[r] = "call" /\ ~IsLast(r)
  /\ RecordFailure(Current(r))
  /\ at' = [at EXCEPT ![r] = NextOne(r)]
  /\ UNCHANGED <<pc, tier, lenient, todo, eligible, candidates, clear, spent>>

\* No request can be built for the backend: the next one is tried.
Unbuilt(r) ==
  /\ pc[r] = "call" /\ ~IsLast(r)
  /\ at' = [at EXCEPT ![r] = NextOne(r)]
  /\ UNCHANGED <<breakerVars, pc, tier, lenient, todo, eligible, candidates, clear, spent>>

\* 5xx from the last one: its answer is passed on.
AnsweredError(r) ==
  /\ pc[r] = "call" /\ IsLast(r)
  /\ RecordFailure(Current(r))
  /\ pc' = [pc EXCEPT ![r] = "answer"]
  /\ UNCHANGED <<tier, lenient, todo, eligible, candidates, at, clear, spent>>

\* The last one is unreachable.
Unreachable(r) ==
  /\ pc[r] = "call" /\ IsLast(r)
  /\ RecordFailure(Current(r))
  /\ Over(r)
  /\ UNCHANGED spent

\* The client is gone, the credential of the backend is not available, or no
\* request can be built for the last one: no breaker is told.
GiveUp(r) ==
  /\ pc[r] = "call"
  /\ Over(r)
  /\ UNCHANGED <<breakerVars, spent>>

\* The answer was streamed, wholly or in part; a backend outside is paid for.
Settle(r, cost) ==
  LET t == TierOf[Current(r)]
  IN /\ pc[r] = "answer"
     /\ Current(r) \in SelfHosted => cost = 0
     /\ spent' = [spent EXCEPT ![t] = IF t \in Budgeted THEN @ + cost ELSE @]
     /\ Over(r)
     /\ UNCHANGED breakerVars

Serve(r) ==
  \/ \E b \in Backends : TakeBackend(r, b) \/ SkipCritical(r, b) \/ SkipDenied(r, b)
  \/ Relax(r) \/ NoBackend(r) \/ Rank(r)
  \/ Cover(r) \/ Refuse(r)
  \/ Answered(r) \/ Failover(r) \/ Unbuilt(r) \/ AnsweredError(r) \/ Unreachable(r) \/ GiveUp(r)
  \/ \E cost \in 0 .. MaxCost : Settle(r, cost)

Next ==
  \/ \E r \in Requests : (\E t \in 1 .. Tiers : Resolve(r, t)) \/ Serve(r)
  \/ \E b \in Backends : Cool(b) /\ UNCHANGED <<requestVars, spent>>

Spec == Init /\ [][Next]_vars

\* A goroutine that serves a request goes on with it.
FairSpec == Spec /\ \A r \in Requests : WF_vars(Serve(r))

-----------------------------------------------------------------------------
\* The body leaves the boundary in clear for no backend.  It holds where the
\* chain never goes from a backend inside to one outside; nothing but the
\* configuration keeps a failover from doing so.
ClearStaysHome ==
  \A r \in Requests : pc[r] \in {"call", "answer"} /\ clear[r] => Current(r) \in SelfHosted

\* The budget is read when a request is routed and charged when it ends: of a
\* tier nothing falls back to, no more is overspent than the requests then in
\* flight can cost.
BudgetOvershoot ==
  1 \in Budgeted /\ Tiers > 1 =>
    spent[1] < Limit + MaxCost * Cardinality(Requests)

\* Whatever the backends do, a request is over after finitely many steps.
Finishes == \A r \in Requests : pc[r] # "idle" ~> pc[r] = "idle"

\* "Once the cooldown is over it goes half-open, and a successful probe
\* restores it" (routing_test.go:197): a half-open breaker that has no permit
\* left has a request somewhere that will still report on it.
Reports(r, b) ==
  \/ pc[r] = "collect" /\ b \in eligible[r]
  \/ pc[r] \in {"cover", "call"} /\ \E i \in DOMAIN candidates[r] : i >= at[r] /\ candidates[r][i] = b
ProbeOutstanding ==
  \A b \in Backends :
    state[b] = "half_open" /\ ~PermitsLeft(b) => \E r \in Requests : Reports(r, b)

-----------------------------------------------------------------------------
\* The inductive invariant: a request deals with backends of its tier and of
\* those below only, tries those of the higher tier first, and a request that
\* may be charged to the first tier was routed to it within its budget.
Deals(r, b) == b \in Backends /\ TierOf[b] >= tier[r]
InTier ==
  \A r \in Requests :
    /\ \A b \in todo[r] : Deals(r, b)
    /\ \A b \in eligible[r] : Deals(r, b)
    /\ \A i \in DOMAIN candidates[r] : Deals(r, candidates[r][i])
Fresh ==
  \A r \in Requests :
    /\ pc[r] = "idle" => eligible[r] = {} /\ candidates[r] = <<>>
    /\ pc[r] \in {"idle", "collect", "cover"} => at[r] = 1
HighFirst ==
  \A r \in Requests : pc[r] \in {"cover", "call", "answer"} =>
    /\ at[r] \in DOMAIN candidates[r]
    /\ \A i \in DOMAIN candidates[r] : TierOf[candidates[r][1]] <= TierOf[candidates[r][i]]
ClearForHome ==
  \A r \in Requests : pc[r] \in {"call", "answer"} /\ clear[r] => candidates[r][1] \in SelfHosted
Paying == {r \in Requests : pc[r] # "idle" /\ tier[r] = 1}
BudgetCount ==
  1 \in Budgeted /\ Tiers > 1 =>
    spent[1] + MaxCost * Cardinality(Paying) < Limit + MaxCost * Cardinality(Requests)
IInv == TypeOK /\ InTier /\ Fresh /\ HighFirst /\ ClearForHome /\ BudgetCount

\* The chain never leads from inside the boundary to the outside.
HomeLast ==
  \A b \in SelfHosted, c \in Backends : TierOf[c] >= TierOf[b] => c \in SelfHosted

=============================================================================
