---------------------------- MODULE GatewayProofs ----------------------------
(***************************************************************************)
(* What is proved of Gateway, for any number of requests, backends, tiers  *)
(* and any limit: the inductive invariant IInv; that a body goes in clear  *)
(* only to a self-hosted backend, if the chain never leads from inside to  *)
(* outside; and the bound on what is spent over the budget.                *)
(***************************************************************************)
EXTENDS Gateway, FiniteSetTheorems, TLAPS

LEMMA MulMono ==
  ASSUME NEW m \in Nat, NEW a \in Nat, NEW b \in Nat, a <= b
  PROVE  m * a <= m * b /\ m * a \in Nat /\ m * b \in Nat
<1>1. PICK d \in Nat : b = a + d
  <2>1. b - a \in Nat /\ b = a + (b - a)
    OBVIOUS
  <2> QED BY <2>1
<1>2. m * b = m * a + m * d
  BY <1>1
<1>3. m * a \in Nat /\ m * d \in Nat
  BY <1>1
<1> QED BY <1>2, <1>3

LEMMA InitIInv == Init => IInv
<1> SUFFICES ASSUME Init PROVE IInv
  OBVIOUS
<1> USE BreakerAssumption, GatewayAssumption
<1>1. TypeOK
  BY DEF Init, BreakerInit, TypeOK, BreakerTypeOK
<1>2. InTier /\ Fresh /\ HighFirst /\ ClearForHome
  BY DEF Init, InTier, Fresh, HighFirst, ClearForHome
<1>3. BudgetCount
  <2> SUFFICES ASSUME 1 \in Budgeted, Tiers > 1
               PROVE  spent[1] + MaxCost * Cardinality(Paying) < Limit + MaxCost * Cardinality(Requests)
    BY DEF BudgetCount
  <2>1. Paying = {} /\ spent[1] = 0
    BY DEF Init, Paying
  <2>2. Cardinality(Paying) = 0 /\ Cardinality(Requests) \in Nat
    BY <2>1, FS_EmptySet, FS_CardinalityType
  <2>3. MaxCost * 0 <= MaxCost * Cardinality(Requests)
    BY <2>2, MulMono
  <2>4. MaxCost * 0 = 0 /\ MaxCost * Cardinality(Requests) \in Nat
    BY <2>2, MulMono
  <2> QED BY <2>1, <2>2, <2>3, <2>4
<1> QED BY <1>1, <1>2, <1>3 DEF IInv

-----------------------------------------------------------------------------
\* Breaker steps keep the breaker's types.
LEMMA BreakerSteps ==
  ASSUME BreakerTypeOK, NEW b \in Backends,
         Allow(b) \/ Deny(b) \/ RecordSuccess(b) \/ RecordFailure(b) \/ Cool(b)
  PROVE  BreakerTypeOK'
<1> USE BreakerAssumption DEF BreakerTypeOK
<1>1. CASE Allow(b)
  <2>1. state' \in [Backends -> {"closed", "open", "half_open"}]
    BY <1>1 DEF Allow, Refreshed
  <2>2. permits' \in [Backends -> 0 .. HalfOpenMaxCalls]
    <3> DEFINE new == CASE Refreshed(b) = "closed" -> permits[b]
                        [] state[b] = "open"       -> 1
                        [] OTHER                   -> permits[b] + 1
    <3>1. permits' = [permits EXCEPT ![b] = new]
      BY <1>1 DEF Allow
    <3>2. state[b] # "open" /\ Refreshed(b) # "closed" => permits[b] < HalfOpenMaxCalls
      BY <1>1 DEF Allow, Refreshed, PermitsLeft
    <3>3. new \in 0 .. HalfOpenMaxCalls
      <4>1. permits[b] \in 0 .. HalfOpenMaxCalls
        OBVIOUS
      <4> QED BY <3>2, <4>1
    <3> QED BY <3>1, <3>3
  <2>3. cooled' \in [Backends -> BOOLEAN] /\ failures' = failures
    BY <1>1 DEF Allow
  <2> QED BY <2>1, <2>2, <2>3
<1>2. CASE Deny(b)
  BY <1>2 DEF Deny, breakerVars
<1>3. CASE RecordSuccess(b)
  BY <1>3 DEF RecordSuccess
<1>4. CASE RecordFailure(b)
  <2>1. failures' \in [Backends -> 0 .. Threshold]
    <3> DEFINE new == IF failures[b] < Threshold THEN failures[b] + 1 ELSE failures[b]
    <3>1. failures' = [failures EXCEPT ![b] = new]
      BY <1>4 DEF RecordFailure
    <3>2. new \in 0 .. Threshold
      <4>1. failures[b] \in 0 .. Threshold
        OBVIOUS
      <4> QED BY <4>1
    <3> QED BY <3>1, <3>2
  <2>2. permits' \in [Backends -> 0 .. HalfOpenMaxCalls]
    BY <1>4 DEF RecordFailure
  <2>3. state' \in [Backends -> {"closed", "open", "half_open"}]
    BY <1>4 DEF RecordFailure
  <2>4. cooled' \in [Backends -> BOOLEAN]
    BY <1>4 DEF RecordFailure
  <2> QED BY <2>1, <2>2, <2>3, <2>4
<1>5. CASE Cool(b)
  BY <1>5 DEF Cool
<1> QED BY <1>1, <1>2, <1>3, <1>4, <1>5

\* The candidate whose turn it is is a backend.
LEMMA CurrentBackend ==
  ASSUME TypeOK, InTier, HighFirst, NEW r \in Requests, pc[r] \in {"cover", "call", "answer"}
  PROVE  Current(r) \in Backends /\ TierOf[Current(r)] >= tier[r]
BY DEF TypeOK, InTier, HighFirst, Deals, Current

\* What a ranking of a set of backends is.
LEMMA Ranking ==
  ASSUME TypeOK, NEW r \in Requests, NEW n \in 1 .. Len(Targets),
         NEW s \in [1 .. n -> eligible[r]], IsRanking(s, eligible[r])
  PROVE  /\ s \in Seq(Backends)
         /\ Len(s) = n /\ 1 \in DOMAIN s /\ DOMAIN s = 1 .. n
         /\ \A i \in DOMAIN s : s[i] \in eligible[r] /\ TierOf[s[1]] <= TierOf[s[i]]
<1>1. eligible[r] \subseteq Backends
  BY DEF TypeOK
<1>2. n \in Nat /\ 1 <= n
  BY GatewayAssumption
<1>3. s \in Seq(eligible[r]) /\ s \in Seq(Backends)
  BY <1>1, <1>2
<1>4. DOMAIN s = 1 .. n /\ Len(s) = n /\ 1 \in DOMAIN s
  BY <1>2, <1>3
<1>5. ASSUME NEW i \in DOMAIN s
      PROVE  s[i] \in eligible[r] /\ TierOf[s[1]] <= TierOf[s[i]]
  <2>1. s[i] \in eligible[r] /\ s[1] \in eligible[r]
    BY <1>4
  <2>2. CASE i = 1
    BY <1>1, <2>1, <2>2, GatewayAssumption
  <2>3. CASE i # 1
    <3>1. 1 < i
      BY <1>4, <2>3
    <3> QED BY <1>4, <2>1, <3>1 DEF IsRanking
  <2> QED BY <2>1, <2>2, <2>3
<1> QED BY <1>3, <1>4, <1>5

\* A request that is over is as it was at first.
RequestTypes ==
  /\ pc \in [Requests -> {"idle", "collect", "cover", "call", "answer"}]
  /\ tier \in [Requests -> 1 .. Tiers]
  /\ lenient \in [Requests -> BOOLEAN]
  /\ todo \in [Requests -> SUBSET Backends]
  /\ eligible \in [Requests -> SUBSET Backends]
  /\ candidates \in [Requests -> Seq(Backends)]
  /\ at \in [Requests -> Nat]
  /\ clear \in [Requests -> BOOLEAN]

LEMMA OverTypes ==
  ASSUME TypeOK, NEW r \in Requests, Over(r)
  PROVE  RequestTypes'
<1>1. 1 \in 1 .. Tiers /\ 1 \in Nat /\ <<>> \in Seq(Backends)
  BY GatewayAssumption
<1>2. (pc \in [Requests -> {"idle", "collect", "cover", "call", "answer"}])'
  BY DEF TypeOK, Over
<1>3. (tier \in [Requests -> 1 .. Tiers])' /\ (at \in [Requests -> Nat])'
  BY <1>1 DEF TypeOK, Over
<1>4. (todo \in [Requests -> SUBSET Backends])' /\ (eligible \in [Requests -> SUBSET Backends])'
  BY DEF TypeOK, Over
<1>5. (candidates \in [Requests -> Seq(Backends)])'
  BY <1>1 DEF TypeOK, Over
<1>6. (lenient \in [Requests -> BOOLEAN])' /\ (clear \in [Requests -> BOOLEAN])'
  BY DEF TypeOK, Over
<1> QED BY <1>2, <1>3, <1>4, <1>5, <1>6 DEF RequestTypes

-----------------------------------------------------------------------------
LEMMA StepType == IInv /\ [Next]_vars => TypeOK'
<1> SUFFICES ASSUME IInv, [Next]_vars PROVE TypeOK'
  OBVIOUS
<1> USE GatewayAssumption DEF IInv, TypeOK
<1>1. ASSUME NEW r \in Requests, NEW t \in 1 .. Tiers, Resolve(r, t)
      PROVE  TypeOK'
  BY <1>1 DEF Resolve, Walk, BreakerTypeOK, breakerVars
<1>2. ASSUME NEW r \in Requests, NEW b \in Backends, TakeBackend(r, b)
      PROVE  TypeOK'
  BY <1>2, BreakerSteps DEF TakeBackend, Turn
<1>3. ASSUME NEW r \in Requests, NEW b \in Backends, SkipCritical(r, b)
      PROVE  TypeOK'
  BY <1>3, BreakerSteps DEF SkipCritical, Turn
<1>4. ASSUME NEW r \in Requests, NEW b \in Backends, SkipDenied(r, b)
      PROVE  TypeOK'
  BY <1>4, BreakerSteps DEF SkipDenied, Turn
<1>5. ASSUME NEW r \in Requests, Relax(r)
      PROVE  TypeOK'
  BY <1>5 DEF Relax, Walk, BreakerTypeOK, breakerVars
<1>6. ASSUME NEW r \in Requests, NoBackend(r) \/ Refuse(r) \/ GiveUp(r)
      PROVE  TypeOK'
  <2>1. RequestTypes'
    BY <1>6, OverTypes DEF NoBackend, Refuse, GiveUp
  <2> QED BY <1>6, <2>1 DEF NoBackend, Refuse, GiveUp, RequestTypes, BreakerTypeOK, breakerVars
<1>7. ASSUME NEW r \in Requests, Rank(r)
      PROVE  TypeOK'
  <2>0. PICK n \in 1 .. Len(Targets) : \E s \in [1 .. n -> eligible[r]] :
          IsRanking(s, eligible[r]) /\ candidates' = [candidates EXCEPT ![r] = s]
    BY <1>7 DEF Rank
  <2>1. PICK s \in [1 .. n -> eligible[r]] :
          IsRanking(s, eligible[r]) /\ candidates' = [candidates EXCEPT ![r] = s]
    BY <2>0
  <2>2. s \in Seq(Backends)
    BY <2>1, Ranking
  <2> QED BY <1>7, <2>1, <2>2 DEF Rank, BreakerTypeOK, breakerVars
<1>8. ASSUME NEW r \in Requests, Cover(r)
      PROVE  TypeOK'
  <2>1. (~Redacting(r)) \in BOOLEAN
    BY DEF Redacting
  <2> QED BY <1>8, <2>1 DEF Cover, BreakerTypeOK, breakerVars
<1>9. ASSUME NEW r \in Requests, Answered(r) \/ Failover(r) \/ AnsweredError(r) \/ Unreachable(r)
      PROVE  TypeOK'
  <2>1. Current(r) \in Backends
    BY <1>9, CurrentBackend DEF Answered, Failover, AnsweredError, Unreachable
  <2>2. BreakerTypeOK'
    BY <1>9, <2>1, BreakerSteps DEF Answered, Failover, AnsweredError, Unreachable
  <2>3. CASE Answered(r) \/ AnsweredError(r)
    BY <2>2, <2>3 DEF Answered, AnsweredError
  <2>4. CASE Failover(r)
    BY <2>2, <2>4 DEF Failover, NextOne
  <2>5. CASE Unreachable(r)
    BY <2>2, <2>5 DEF Unreachable, Over
  <2> QED BY <1>9, <2>3, <2>4, <2>5
<1>10. ASSUME NEW r \in Requests, NEW cost \in 0 .. MaxCost, Settle(r, cost)
       PROVE  TypeOK'
  <2> DEFINE t == TierOf[Current(r)]
  <2>1. spent' \in [1 .. Tiers -> Nat]
    <3>1. t \in 1 .. Tiers
      BY <1>10, CurrentBackend DEF Settle
    <3>2. spent' = [spent EXCEPT ![t] = IF t \in Budgeted THEN spent[t] + cost ELSE spent[t]]
      BY <1>10 DEF Settle
    <3>3. cost \in Nat
      OBVIOUS
    <3> HIDE DEF t
    <3> QED BY <3>1, <3>2, <3>3
  <2>2. RequestTypes'
    BY <1>10, OverTypes DEF Settle
  <2> QED BY <1>10, <2>1, <2>2 DEF Settle, RequestTypes, BreakerTypeOK, breakerVars
<1>11. ASSUME NEW b \in Backends, Cool(b), UNCHANGED <<requestVars, spent>>
       PROVE  TypeOK'
  BY <1>11, BreakerSteps DEF requestVars
<1>12. CASE UNCHANGED vars
  BY <1>12 DEF vars, requestVars, breakerVars, BreakerTypeOK
<1>13. ASSUME NEW r \in Requests, Unbuilt(r)
       PROVE  TypeOK'
  BY <1>13 DEF Unbuilt, NextOne, BreakerTypeOK, breakerVars
<1> QED
  BY <1>1, <1>2, <1>3, <1>4, <1>5, <1>6, <1>7, <1>8, <1>9, <1>10, <1>11, <1>12, <1>13
     DEF Next, Serve

-----------------------------------------------------------------------------
\* A request deals with backends of its tier and of those below.
Tiered(q) ==
  /\ \A b \in todo[q] : Deals(q, b)
  /\ \A b \in eligible[q] : Deals(q, b)
  /\ \A i \in DOMAIN candidates[q] : Deals(q, candidates[q][i])

LEMMA StepTier == IInv /\ [Next]_vars => InTier'
<1> SUFFICES ASSUME IInv, [Next]_vars PROVE InTier'
  OBVIOUS
<1> USE GatewayAssumption DEF IInv, TypeOK, InTier, Deals
<1>1. ASSUME NEW r \in Requests, NEW t \in 1 .. Tiers, Resolve(r, t)
      PROVE  InTier'
  <2>1. PICK u \in t .. Tiers : tier' = [tier EXCEPT ![r] = u] /\ todo' = [todo EXCEPT ![r] = Walk(u)]
    BY <1>1 DEF Resolve
  <2>2. UNCHANGED <<eligible, candidates>>
    BY <1>1 DEF Resolve
  <2>3. eligible[r] = {} /\ candidates[r] = <<>>
    BY <1>1 DEF Resolve, Fresh
  <2>4. ASSUME NEW q \in Requests PROVE Tiered(q)'
    <3>1. CASE q = r
      BY <2>1, <2>2, <2>3, <3>1 DEF Walk, Tiered
    <3>2. CASE q # r
      BY <2>1, <2>2, <3>2 DEF Tiered
    <3> QED BY <3>1, <3>2
  <2> QED BY <2>4 DEF Tiered
<1>2. ASSUME NEW r \in Requests, NEW b \in Backends,
             TakeBackend(r, b) \/ SkipCritical(r, b) \/ SkipDenied(r, b)
      PROVE  InTier'
  <2>1. todo' = [todo EXCEPT ![r] = todo[r] \ {b}] /\ b \in todo[r] /\ UNCHANGED <<tier, candidates>>
    BY <1>2 DEF TakeBackend, SkipCritical, SkipDenied, Turn
  <2>2. eligible' = [eligible EXCEPT ![r] = eligible[r] \cup {b}] \/ UNCHANGED eligible
    BY <1>2 DEF TakeBackend, SkipCritical, SkipDenied
  <2>3. ASSUME NEW q \in Requests PROVE Tiered(q)'
    <3>1. CASE q = r
      BY <2>1, <2>2, <3>1 DEF Tiered
    <3>2. CASE q # r
      BY <2>1, <2>2, <3>2 DEF Tiered
    <3> QED BY <3>1, <3>2
  <2> QED BY <2>3 DEF Tiered
<1>3. ASSUME NEW r \in Requests, Relax(r)
      PROVE  InTier'
  BY <1>3 DEF Relax, Walk
<1>4. ASSUME NEW r \in Requests, Over(r)
      PROVE  InTier'
  BY <1>4 DEF Over
<1>5. ASSUME NEW r \in Requests, Rank(r)
      PROVE  InTier'
  <2>0. PICK n \in 1 .. Len(Targets) : \E s \in [1 .. n -> eligible[r]] :
          IsRanking(s, eligible[r]) /\ candidates' = [candidates EXCEPT ![r] = s]
    BY <1>5 DEF Rank
  <2>1. PICK s \in [1 .. n -> eligible[r]] :
          IsRanking(s, eligible[r]) /\ candidates' = [candidates EXCEPT ![r] = s]
    BY <2>0
  <2>2. \A i \in DOMAIN s : s[i] \in eligible[r]
    BY <2>1, Ranking
  <2> QED BY <1>5, <2>1, <2>2 DEF Rank
<1>6. ASSUME NEW r \in Requests,
             Cover(r) \/ Answered(r) \/ Failover(r) \/ Unbuilt(r) \/ AnsweredError(r)
      PROVE  InTier'
  BY <1>6 DEF Cover, Answered, Failover, Unbuilt, AnsweredError, requestVars
<1>7. ASSUME UNCHANGED requestVars
      PROVE  InTier'
  BY <1>7 DEF requestVars
<1> QED
  BY <1>1, <1>2, <1>3, <1>4, <1>5, <1>6, <1>7
     DEF Next, Serve, NoBackend, Refuse, Unreachable, GiveUp, Settle, vars

\* A request that is over keeps nothing.
LEMMA StepFresh == IInv /\ [Next]_vars => Fresh'
<1> SUFFICES ASSUME IInv, [Next]_vars PROVE Fresh'
  OBVIOUS
<1> USE DEF IInv, TypeOK, Fresh
<1>1. ASSUME NEW r \in Requests, NEW t \in 1 .. Tiers, Resolve(r, t)
      PROVE  Fresh'
  BY <1>1 DEF Resolve
<1>2. ASSUME NEW r \in Requests, NEW b \in Backends,
             TakeBackend(r, b) \/ SkipCritical(r, b) \/ SkipDenied(r, b)
      PROVE  Fresh'
  BY <1>2 DEF TakeBackend, SkipCritical, SkipDenied, Turn
<1>3. ASSUME NEW r \in Requests, Over(r)
      PROVE  Fresh'
  BY <1>3 DEF Over
<1>4. ASSUME NEW r \in Requests, Relax(r) \/ Rank(r)
      PROVE  Fresh'
  BY <1>4 DEF Relax, Rank
<1>5. ASSUME NEW r \in Requests, Cover(r) \/ Answered(r) \/ Failover(r) \/ Unbuilt(r) \/ AnsweredError(r)
      PROVE  Fresh'
  BY <1>5 DEF Cover, Answered, Failover, Unbuilt, AnsweredError
<1>6. ASSUME UNCHANGED requestVars
      PROVE  Fresh'
  BY <1>6 DEF requestVars
<1> QED
  BY <1>1, <1>2, <1>3, <1>4, <1>5, <1>6
     DEF Next, Serve, NoBackend, Refuse, Unreachable, GiveUp, Settle, vars

\* No candidate comes from a higher tier than the first.
LEMMA StepHigh == IInv /\ [Next]_vars => HighFirst'
<1> SUFFICES ASSUME IInv, [Next]_vars PROVE HighFirst'
  OBVIOUS
<1> USE DEF IInv, TypeOK, HighFirst
<1>1. ASSUME NEW r \in Requests, NEW t \in 1 .. Tiers, Resolve(r, t)
      PROVE  HighFirst'
  BY <1>1 DEF Resolve
<1>2. ASSUME NEW r \in Requests, NEW b \in Backends,
             TakeBackend(r, b) \/ SkipCritical(r, b) \/ SkipDenied(r, b)
      PROVE  HighFirst'
  BY <1>2 DEF TakeBackend, SkipCritical, SkipDenied, Turn
<1>3. ASSUME NEW r \in Requests, Over(r)
      PROVE  HighFirst'
  BY <1>3 DEF Over
<1>4. ASSUME NEW r \in Requests, Relax(r)
      PROVE  HighFirst'
  BY <1>4 DEF Relax
<1>5. ASSUME NEW r \in Requests, Rank(r)
      PROVE  HighFirst'
  <2>0. PICK n \in 1 .. Len(Targets) : \E s \in [1 .. n -> eligible[r]] :
          IsRanking(s, eligible[r]) /\ candidates' = [candidates EXCEPT ![r] = s]
    BY <1>5 DEF Rank
  <2>1. PICK s \in [1 .. n -> eligible[r]] :
          IsRanking(s, eligible[r]) /\ candidates' = [candidates EXCEPT ![r] = s]
    BY <2>0
  <2>2. 1 \in DOMAIN s /\ \A i \in DOMAIN s : TierOf[s[1]] <= TierOf[s[i]]
    BY <2>1, Ranking
  <2>3. at[r] = 1 /\ UNCHANGED at
    BY <1>5 DEF Rank, Fresh
  <2> QED BY <1>5, <2>1, <2>2, <2>3 DEF Rank
<1>6. ASSUME NEW r \in Requests, Cover(r) \/ Answered(r) \/ AnsweredError(r)
      PROVE  HighFirst'
  BY <1>6 DEF Cover, Answered, AnsweredError
<1>7. ASSUME NEW r \in Requests, Failover(r) \/ Unbuilt(r)
      PROVE  HighFirst'
  <2>1. at[r] \in DOMAIN candidates[r] /\ at[r] # Len(candidates[r])
    BY <1>7 DEF Failover, Unbuilt, IsLast
  <2>2. at[r] + 1 \in DOMAIN candidates[r]
    BY <2>1
  <2> QED BY <1>7, <2>2 DEF Failover, Unbuilt, NextOne
<1>8. ASSUME UNCHANGED requestVars
      PROVE  HighFirst'
  BY <1>8 DEF requestVars
<1> QED
  BY <1>1, <1>2, <1>3, <1>4, <1>5, <1>6, <1>7, <1>8
     DEF Next, Serve, NoBackend, Refuse, Unreachable, GiveUp, Settle, vars

\* A body in clear has a first candidate inside the boundary.
LEMMA StepClear == IInv /\ [Next]_vars => ClearForHome'
<1> SUFFICES ASSUME IInv, [Next]_vars PROVE ClearForHome'
  OBVIOUS
<1> USE DEF IInv, TypeOK, ClearForHome
<1>1. ASSUME NEW r \in Requests, NEW t \in 1 .. Tiers, Resolve(r, t)
      PROVE  ClearForHome'
  BY <1>1 DEF Resolve
<1>2. ASSUME NEW r \in Requests, NEW b \in Backends,
             TakeBackend(r, b) \/ SkipCritical(r, b) \/ SkipDenied(r, b)
      PROVE  ClearForHome'
  BY <1>2 DEF TakeBackend, SkipCritical, SkipDenied, Turn
<1>3. ASSUME NEW r \in Requests, Over(r)
      PROVE  ClearForHome'
  BY <1>3 DEF Over
<1>4. ASSUME NEW r \in Requests, Relax(r) \/ Rank(r)
      PROVE  ClearForHome'
  BY <1>4 DEF Relax, Rank
<1>5. ASSUME NEW r \in Requests, Cover(r)
      PROVE  ClearForHome'
  BY <1>5 DEF Cover, Redacting
<1>6. ASSUME NEW r \in Requests, Answered(r) \/ Failover(r) \/ Unbuilt(r) \/ AnsweredError(r)
      PROVE  ClearForHome'
  BY <1>6 DEF Answered, Failover, Unbuilt, AnsweredError
<1>7. ASSUME UNCHANGED requestVars
      PROVE  ClearForHome'
  BY <1>7 DEF requestVars
<1> QED
  BY <1>1, <1>2, <1>3, <1>4, <1>5, <1>6, <1>7
     DEF Next, Serve, NoBackend, Refuse, Unreachable, GiveUp, Settle, vars

\* What every request of tier 1 in flight may still cost is set aside.
LEMMA PayingFinite == IsFiniteSet(Paying) /\ Cardinality(Paying) \in Nat
                      /\ Cardinality(Paying) <= Cardinality(Requests)
<1>1. Paying \subseteq Requests
  BY DEF Paying
<1>2. IsFiniteSet(Paying) /\ Cardinality(Paying) <= Cardinality(Requests)
  BY <1>1, FS_Subset, GatewayAssumption
<1> QED BY <1>2, FS_CardinalityType

LEMMA StepBudget == IInv /\ [Next]_vars => BudgetCount'
<1> SUFFICES ASSUME IInv, [Next]_vars, 1 \in Budgeted, Tiers > 1
             PROVE  (spent[1] + MaxCost * Cardinality(Paying) < Limit + MaxCost * Cardinality(Requests))'
  BY DEF BudgetCount
<1> DEFINE Kept == (spent[1] + MaxCost * Cardinality(Paying) < Limit + MaxCost * Cardinality(Requests))'
<1>a. /\ spent[1] \in Nat /\ MaxCost \in Nat /\ Limit \in Nat
      /\ spent[1] + MaxCost * Cardinality(Paying) < Limit + MaxCost * Cardinality(Requests)
  BY GatewayAssumption DEF IInv, TypeOK, BudgetCount
<1>b. Cardinality(Paying) \in Nat /\ IsFiniteSet(Paying) /\ Cardinality(Requests) \in Nat
  BY PayingFinite, FS_CardinalityType, GatewayAssumption
\* Fewer requests pay, and nothing is spent.
<1>1. ASSUME Paying' \subseteq Paying, spent'[1] = spent[1]
      PROVE  Kept
  <2>1. IsFiniteSet(Paying') /\ Cardinality(Paying') <= Cardinality(Paying)
    BY <1>1, <1>b, FS_Subset
  <2>2. Cardinality(Paying') \in Nat
    BY <2>1, FS_CardinalityType
  <2>3. /\ MaxCost * Cardinality(Paying') <= MaxCost * Cardinality(Paying)
        /\ MaxCost * Cardinality(Paying') \in Nat /\ MaxCost * Cardinality(Paying) \in Nat
    BY <2>1, <2>2, <1>a, <1>b, MulMono
  <2>4. MaxCost * Cardinality(Requests) \in Nat
    BY <1>a, <1>b, MulMono
  <2> DEFINE new == MaxCost * Cardinality(Paying')
             old == MaxCost * Cardinality(Paying)
             all == MaxCost * Cardinality(Requests)
  <2>5. spent'[1] + new < Limit + all
    <3>1. new \in Nat /\ old \in Nat /\ all \in Nat /\ new <= old
      BY <2>3, <2>4
    <3>2. spent[1] + old < Limit + all /\ spent'[1] = spent[1]
      BY <1>1, <1>a
    <3> HIDE DEF new, old, all
    <3> QED BY <3>1, <3>2, <1>a
  <2> QED BY <2>5
\* A request is routed: tier 1 is within its budget, whoever pays.
<1>2. ASSUME spent[1] < Limit, UNCHANGED spent
      PROVE  Kept
  <2>1. IsFiniteSet(Paying') /\ Cardinality(Paying') <= Cardinality(Requests)
    <3>1. Paying' \subseteq Requests
      BY DEF Paying
    <3> QED BY <3>1, FS_Subset, GatewayAssumption
  <2>2. Cardinality(Paying') \in Nat
    BY <2>1, FS_CardinalityType
  <2>3. /\ MaxCost * Cardinality(Paying') <= MaxCost * Cardinality(Requests)
        /\ MaxCost * Cardinality(Paying') \in Nat /\ MaxCost * Cardinality(Requests) \in Nat
    BY <2>1, <2>2, <1>a, <1>b, MulMono
  <2> DEFINE new == MaxCost * Cardinality(Paying')
             all == MaxCost * Cardinality(Requests)
  <2>4. spent'[1] + new < Limit + all
    <3>1. new \in Nat /\ all \in Nat /\ new <= all /\ spent'[1] = spent[1] /\ spent[1] < Limit
      BY <1>2, <2>3
    <3> HIDE DEF new, all
    <3> QED BY <3>1, <1>a
  <2> QED BY <2>4
<1>3. ASSUME NEW r \in Requests, NEW t \in 1 .. Tiers, Resolve(r, t)
      PROVE  Kept
  <2>1. PICK u \in t .. Tiers : Lands(t, u) /\ tier' = [tier EXCEPT ![r] = u]
    BY <1>3 DEF Resolve
  <2>2. UNCHANGED spent
    BY <1>3 DEF Resolve
  <2>3. CASE u = 1
    <3>1. ~Exhausted(1)
      BY <2>1, <2>3 DEF Lands
    <3>2. spent[1] < Limit
      BY <3>1, <1>a DEF Exhausted
    <3> QED BY <3>2, <2>2, <1>2
  <2>4. CASE u # 1
    <3>1. Paying' \subseteq Paying
      BY <1>3, <2>1, <2>4 DEF Resolve, Paying, IInv, TypeOK
    <3> QED BY <3>1, <2>2, <1>1
  <2> QED BY <2>3, <2>4
\* An answer of tier 1 is charged to a request that was set aside for.
<1>4. ASSUME NEW r \in Requests, NEW cost \in 0 .. MaxCost, Settle(r, cost)
      PROVE  Kept
  <2>1. /\ pc[r] = "answer" /\ Current(r) \in Backends /\ TierOf[Current(r)] >= tier[r]
        /\ TierOf[Current(r)] \in 1 .. Tiers /\ tier[r] \in 1 .. Tiers
    BY <1>4, CurrentBackend, GatewayAssumption DEF Settle, IInv, TypeOK
  <2>2. Paying' = Paying \ {r}
    BY <1>4 DEF Settle, Over, Paying, IInv, TypeOK
  <2>3. CASE TierOf[Current(r)] # 1
    <3>1. spent'[1] = spent[1] /\ DOMAIN spent = 1 .. Tiers
      BY <1>4, <2>1, <2>3 DEF Settle, IInv, TypeOK
    <3>2. Paying' \subseteq Paying
      BY <2>2
    <3> QED BY <3>1, <3>2, <1>1
  <2>4. CASE TierOf[Current(r)] = 1
    <3>1. spent'[1] = spent[1] + cost
      BY <1>4, <2>1, <2>4 DEF Settle, IInv, TypeOK
    <3>2. r \in Paying
      BY <2>1, <2>4 DEF Paying
    <3>3. Cardinality(Paying') = Cardinality(Paying) - 1 /\ IsFiniteSet(Paying')
      BY <3>2, <2>2, <1>b, FS_RemoveElement
    <3>4. Cardinality(Paying') \in Nat
      BY <3>3, FS_CardinalityType
    <3>5. MaxCost * Cardinality(Paying) = MaxCost * Cardinality(Paying') + MaxCost
      <4> DEFINE k == Cardinality(Paying')
      <4>1. k \in Nat /\ Cardinality(Paying) = k + 1
        BY <3>3, <3>4, <1>b
      <4>2. MaxCost * (k + 1) = MaxCost * k + MaxCost
        <5> HIDE DEF k
        <5> QED BY <4>1, <1>a
      <4> QED BY <4>1, <4>2
    <3> DEFINE new == MaxCost * Cardinality(Paying')
               old == MaxCost * Cardinality(Paying)
               all == MaxCost * Cardinality(Requests)
    <3>6. new \in Nat /\ old \in Nat /\ all \in Nat /\ old = new + MaxCost
      BY <3>4, <3>5, <1>a, <1>b, MulMono
    <3>7. spent[1] + old < Limit + all
      BY <1>a
    <3>8. spent'[1] + new < Limit + all
      <4>1. cost <= MaxCost /\ cost \in Nat
        BY <1>a
      <4> HIDE DEF new, old, all
      <4> QED BY <4>1, <3>1, <3>6, <3>7, <1>a
    <3> QED BY <3>8
  <2> QED BY <2>3, <2>4
<1>5. ASSUME NEW r \in Requests, Over(r), UNCHANGED spent
      PROVE  Kept
  <2>1. Paying' \subseteq Paying
    BY <1>5 DEF Over, Paying, IInv, TypeOK
  <2> QED BY <2>1, <1>5, <1>1
<1>6. ASSUME NEW r \in Requests, UNCHANGED <<tier, spent>>, pc[r] # "idle",
             \E p \in {"collect", "cover", "call", "answer"} : pc' = [pc EXCEPT ![r] = p]
      PROVE  Kept
  <2>1. Paying' \subseteq Paying
    BY <1>6 DEF Paying, IInv, TypeOK
  <2> QED BY <2>1, <1>6, <1>1
<1>7. ASSUME UNCHANGED <<pc, tier, spent>>
      PROVE  Kept
  <2>1. Paying' = Paying
    BY <1>7 DEF Paying
  <2> QED BY <2>1, <1>7, <1>1
<1>8. ASSUME NEW r \in Requests, NEW b \in Backends,
             TakeBackend(r, b) \/ SkipCritical(r, b) \/ SkipDenied(r, b)
      PROVE  Kept
  BY <1>8, <1>7 DEF TakeBackend, SkipCritical, SkipDenied
<1>9. ASSUME NEW r \in Requests, Relax(r) \/ Failover(r) \/ Unbuilt(r)
      PROVE  Kept
  BY <1>9, <1>7 DEF Relax, Failover, Unbuilt
<1>10. ASSUME NEW r \in Requests, Rank(r) \/ Cover(r) \/ Answered(r) \/ AnsweredError(r)
       PROVE  Kept
  <2>1. UNCHANGED <<tier, spent>> /\ pc[r] # "idle"
    BY <1>10 DEF Rank, Cover, Answered, AnsweredError
  <2>2. \E p \in {"collect", "cover", "call", "answer"} : pc' = [pc EXCEPT ![r] = p]
    BY <1>10 DEF Rank, Cover, Answered, AnsweredError
  <2> QED BY <2>1, <2>2, <1>6
<1>11. ASSUME NEW r \in Requests, NoBackend(r) \/ Refuse(r) \/ Unreachable(r) \/ GiveUp(r)
       PROVE  Kept
  BY <1>11, <1>5 DEF NoBackend, Refuse, Unreachable, GiveUp
<1>12. CASE UNCHANGED <<requestVars, spent>>
  BY <1>12, <1>7 DEF requestVars
<1>13. CASE UNCHANGED vars
  BY <1>13, <1>7 DEF vars, requestVars
<1> QED
  BY <1>3, <1>4, <1>8, <1>9, <1>10, <1>11, <1>12, <1>13 DEF Next, Serve

-----------------------------------------------------------------------------
\* A request deals with backends of its tier and below, tries the higher tiers
\* first, sends in clear only what its first candidate may have, and is set
\* aside for as long as it may be charged to the first tier.
THEOREM GatewayInvariant == Spec => []IInv
<1>1. Init => IInv
  BY InitIInv
<1>2. IInv /\ [Next]_vars => IInv'
  BY StepType, StepTier, StepFresh, StepHigh, StepClear, StepBudget DEF IInv
<1> QED BY <1>1, <1>2, PTL DEF Spec

\* Where the fallback chain never leads from a self-hosted backend to one
\* outside, handler.go sends a body in clear to self-hosted backends only,
\* whatever failovers happen.
THEOREM GatewayClearStaysHome ==
  ASSUME HomeLast PROVE Spec => []ClearStaysHome
<1>1. IInv => ClearStaysHome
  <2> SUFFICES ASSUME IInv, NEW r \in Requests, pc[r] \in {"call", "answer"}, clear[r]
               PROVE  Current(r) \in SelfHosted
    BY DEF ClearStaysHome
  <2>1. candidates[r][1] \in SelfHosted
    BY DEF IInv, ClearForHome
  <2>2. TierOf[candidates[r][1]] <= TierOf[Current(r)] /\ Current(r) \in Backends
    BY CurrentBackend DEF IInv, HighFirst, Current
  <2>3. TierOf[candidates[r][1]] \in Nat /\ TierOf[Current(r)] \in Nat
    BY <2>1, <2>2, GatewayAssumption
  <2> QED BY <2>1, <2>2, <2>3, HomeLast DEF HomeLast
<1> QED BY <1>1, GatewayInvariant, PTL

\* The check of the budget before and its record after the answer let tier 1
\* overspend by less than one answer of every request that can be in flight.
THEOREM GatewayBudgetOvershoot == Spec => []BudgetOvershoot
<1>1. IInv => BudgetOvershoot
  <2> SUFFICES ASSUME IInv, 1 \in Budgeted, Tiers > 1
               PROVE  spent[1] < Limit + MaxCost * Cardinality(Requests)
    BY DEF BudgetOvershoot
  <2>1. spent[1] + MaxCost * Cardinality(Paying) < Limit + MaxCost * Cardinality(Requests)
    BY DEF IInv, BudgetCount
  <2>2. /\ MaxCost * Cardinality(Paying) \in Nat /\ spent[1] \in Nat /\ Limit \in Nat
        /\ MaxCost * Cardinality(Requests) \in Nat
    BY PayingFinite, FS_CardinalityType, MulMono, GatewayAssumption DEF IInv, TypeOK
  <2> DEFINE old == MaxCost * Cardinality(Paying)
             all == MaxCost * Cardinality(Requests)
  <2>3. spent[1] < Limit + all
    <3>1. spent[1] + old < Limit + all /\ old \in Nat /\ all \in Nat
      BY <2>1, <2>2
    <3> HIDE DEF old, all
    <3> QED BY <3>1, <2>2
  <2> QED BY <2>3
<1> QED BY <1>1, GatewayInvariant, PTL

=============================================================================
