--------------------------- MODULE ServicesProofs ---------------------------
(***************************************************************************)
(* The services round a request, each with its inductive invariant, for    *)
(* any requests, limits, thresholds, windows and secrets: what the token   *)
(* limiter promises, what a graceful stop keeps of the budgets, what a     *)
(* backend's pressure, a credential and a throttling report rest on.  A    *)
(* component's theorem is about its own specification; the specification   *)
(* of the run implies each of those.                                       *)
(***************************************************************************)
EXTENDS MCServices, FiniteSetTheorems, TLAPS

(***************************************************************************)
(* Reservations (Limiter), for any number of requests, any window and any  *)
(* limits: the count of the requests in flight, the balance of every       *)
(* bucket of the window, and what the promise of Reserve rests on.  Sums   *)
(* are taken apart by lemmas of their own, by minimal counterexample over  *)
(* a finite set, as induction over an operator is not available here.      *)
(***************************************************************************)
\* Of the subsets of a finite set that have a property one is minimal: the form
\* in which the proofs below use induction.
LEMMA MinimalSubset ==
  ASSUME NEW S, IsFiniteSet(S), NEW Q \in SUBSET (SUBSET S), Q # {}
  PROVE  \E T \in Q : \A U \in Q : ~(U \subseteq T /\ U # T)
<1> DEFINE R == StrictSubsetOrdering(S)
<1>1. IsWellFoundedOn(R, SUBSET S)
  BY FS_StrictSubsetOrderingWellFounded, FS_FiniteSubsetsOfFinite
<1> HIDE DEF R
<1>2. PICK T \in Q : \A U \in Q : ~(<<U, T>> \in R)
  BY <1>1, WFMin
<1>3. ASSUME NEW U \in Q, U \subseteq T, U # T PROVE FALSE
  BY <1>2, <1>3 DEF R, StrictSubsetOrdering
<1> QED BY <1>3

Any(s) == CHOOSE x \in s : TRUE
Adds(g, f, S) ==
  g = [s \in SUBSET S |-> IF s = {} THEN 0 ELSE f[Any(s)] + g[s \ {Any(s)}]]
Sums(f, S) == CHOOSE g : Adds(g, f, S)

LEMMA SumIsChosen == \A f, S : SumFunctionOnSet(f, S) = Sums(f, S)[S]
  BY DEF SumFunctionOnSet, FoldFunctionOnSet, MapThenFoldSet, Adds, Any, Sums

LEMMA AnyIn == \A s : s # {} => Any(s) \in s
  BY DEF Any

\* Two tables of sums agree where both are defined.
LEMMA AddsAgree ==
  ASSUME NEW f, NEW S, NEW T, IsFiniteSet(S), NEW g, NEW h, Adds(g, f, S), Adds(h, f, T),
         NEW s \in SUBSET S, s \subseteq T
  PROVE  g[s] = h[s]
<1> DEFINE Q == {u \in SUBSET S : u \subseteq T /\ g[u] # h[u]}
<1>1. SUFFICES ASSUME Q # {} PROVE FALSE
  OBVIOUS
<1>a. Q \in SUBSET (SUBSET S)
  OBVIOUS
<1> HIDE DEF Q
<1>2. PICK u \in Q : \A v \in Q : ~(v \subseteq u /\ v # u)
  BY <1>1, <1>a, MinimalSubset
<1> USE DEF Q
<1>3. CASE u = {}
  BY <1>2, <1>3 DEF Adds
<1>4. CASE u # {}
  <2>1. Any(u) \in u
    BY <1>4, AnyIn
  <2>2. g[u \ {Any(u)}] = h[u \ {Any(u)}]
    BY <1>2, <2>1
  <2>3. g[u] = f[Any(u)] + g[u \ {Any(u)}] /\ h[u] = f[Any(u)] + h[u \ {Any(u)}]
    BY <1>2, <1>4 DEF Adds
  <2> QED BY <1>2, <2>2, <2>3
<1> QED BY <1>3, <1>4

\* A finite set has a table of sums.
LEMMA AddsExists == \A f, S : IsFiniteSet(S) => \E g : Adds(g, f, S)
<1> SUFFICES ASSUME NEW f, NEW S, IsFiniteSet(S) PROVE \E g : Adds(g, f, S)
  OBVIOUS
<1> DEFINE Q == {T \in SUBSET S : ~\E g : Adds(g, f, T)}
<1>1. SUFFICES ASSUME Q # {} PROVE FALSE
  OBVIOUS
<1>a. Q \in SUBSET (SUBSET S)
  OBVIOUS
<1> HIDE DEF Q
<1>2. PICK T \in Q : \A U \in Q : ~(U \subseteq T /\ U # T)
  BY <1>1, <1>a, MinimalSubset
<1> USE DEF Q
<1> DEFINE h == [s \in SUBSET T |-> IF s = {} THEN 0 ELSE f[Any(s)] + Sums(f, s \ {Any(s)})[s \ {Any(s)}]]
<1>3. \A U \in SUBSET T : U # T => Adds(Sums(f, U), f, U)
  BY <1>2 DEF Sums
<1>4. ASSUME NEW s \in SUBSET T, s # T PROVE h[s] = Sums(f, s)[s]
  <2>1. Adds(Sums(f, s), f, s)
    BY <1>3, <1>4
  <2>2. CASE s = {}
    BY <2>1, <2>2 DEF Adds
  <2>3. CASE s # {}
    <3> DEFINE t == s \ {Any(s)}
    <3>1. Any(s) \in s /\ t \in SUBSET T /\ t # T /\ t \in SUBSET s /\ IsFiniteSet(t)
      BY <2>3, AnyIn, FS_Subset, <1>4
    <3>2. Adds(Sums(f, t), f, t)
      BY <1>3, <3>1
    <3>3. Sums(f, t)[t] = Sums(f, s)[t]
      <4>1. IsFiniteSet(t) /\ t \in SUBSET t /\ t \subseteq s
        BY <3>1
      <4> HIDE DEF t
      <4> QED BY ONLY <2>1, <3>2, <4>1, AddsAgree
    <3>4. Sums(f, s)[s] = f[Any(s)] + Sums(f, s)[t]
      BY <2>1, <2>3 DEF Adds
    <3> QED BY <3>3, <3>4, <2>3
  <2> QED BY <2>2, <2>3
<1>5. ASSUME NEW s \in SUBSET T
      PROVE  h[s] = IF s = {} THEN 0 ELSE f[Any(s)] + h[s \ {Any(s)}]
  <2>1. CASE s # {}
    <3>1. s \ {Any(s)} \in SUBSET T /\ s \ {Any(s)} # T
      BY <2>1, AnyIn
    <3> QED BY <2>1, <3>1, <1>4
  <2> QED BY <2>1
<1>6. Adds(h, f, T)
  BY <1>5 DEF Adds
<1> QED BY <1>2, <1>6

\* The sum of a table of natural numbers over a finite set, one element at a time.
LEMMA SumStep ==
  ASSUME NEW f, NEW S, IsFiniteSet(S)
  PROVE  /\ Adds(Sums(f, S), f, S)
         /\ S = {} => SumFunctionOnSet(f, S) = 0
         /\ S # {} => SumFunctionOnSet(f, S) = f[Any(S)] + SumFunctionOnSet(f, S \ {Any(S)})
<1>1. Adds(Sums(f, S), f, S)
  BY AddsExists DEF Sums
<1>2. CASE S = {}
  BY <1>1, <1>2, SumIsChosen DEF Adds
<1>3. CASE S # {}
  <2> DEFINE T == S \ {Any(S)}
  <2>1. T \in SUBSET S /\ IsFiniteSet(T)
    BY FS_Subset
  <2>2. Adds(Sums(f, T), f, T)
    BY <2>1, AddsExists DEF Sums
  <2>3. Sums(f, T)[T] = Sums(f, S)[T]
    BY <1>1, <2>1, <2>2, AddsAgree
  <2>4. Sums(f, S)[S] = f[Any(S)] + Sums(f, S)[T]
    BY <1>1, <1>3 DEF Adds
  <2> QED BY <1>1, <1>3, <2>3, <2>4, SumIsChosen
<1> QED BY <1>1, <1>2, <1>3

LEMMA SumIsNat ==
  ASSUME NEW f, NEW S, IsFiniteSet(S), \A x \in S : f[x] \in Nat
  PROVE  SumFunctionOnSet(f, S) \in Nat
<1> DEFINE Q == {T \in SUBSET S : SumFunctionOnSet(f, T) \notin Nat}
<1>1. SUFFICES ASSUME Q # {} PROVE FALSE
  OBVIOUS
<1>2. Q \in SUBSET (SUBSET S)
  OBVIOUS
<1> HIDE DEF Q
<1>3. PICK T \in Q : \A U \in Q : ~(U \subseteq T /\ U # T)
  BY <1>1, <1>2, MinimalSubset
<1> USE DEF Q
<1>4. IsFiniteSet(T)
  BY <1>3, FS_Subset
<1>5. T # {}
  <2>1. SumFunctionOnSet(f, T) # 0
    BY <1>3
  <2> QED BY <2>1, <1>4, SumStep
<1>6. Any(T) \in T /\ SumFunctionOnSet(f, T \ {Any(T)}) \in Nat
  BY <1>3, <1>5, AnyIn
<1> QED BY <1>3, <1>4, <1>5, <1>6, SumStep

\* It does not matter which element is taken first.
LEMMA SumTakes ==
  ASSUME NEW f, NEW S, IsFiniteSet(S), \A x \in S : f[x] \in Nat, NEW e \in S
  PROVE  SumFunctionOnSet(f, S) = f[e] + SumFunctionOnSet(f, S \ {e})
<1> DEFINE Q == {T \in SUBSET S : \E x \in T : SumFunctionOnSet(f, T) # f[x] + SumFunctionOnSet(f, T \ {x})}
<1>1. SUFFICES ASSUME Q # {} PROVE FALSE
  OBVIOUS
<1>2. Q \in SUBSET (SUBSET S)
  OBVIOUS
<1> HIDE DEF Q
<1>3. PICK T \in Q : \A U \in Q : ~(U \subseteq T /\ U # T)
  BY <1>1, <1>2, MinimalSubset
<1> USE DEF Q
<1>4. IsFiniteSet(T) /\ T \subseteq S
  BY <1>3, FS_Subset
<1>5. PICK x \in T : SumFunctionOnSet(f, T) # f[x] + SumFunctionOnSet(f, T \ {x})
  BY <1>3
<1> DEFINE y == Any(T)
<1>6. y \in T /\ SumFunctionOnSet(f, T) = f[y] + SumFunctionOnSet(f, T \ {y})
  BY <1>4, <1>5, AnyIn, SumStep
<1>7. x # y
  BY <1>5, <1>6
<1> HIDE DEF y, Q
<1>8. SumFunctionOnSet(f, T \ {y}) = f[x] + SumFunctionOnSet(f, (T \ {y}) \ {x})
  <2> DEFINE U == T \ {y}
  <2>1. U \notin Q
    BY <1>3, <1>6
  <2>2. U \in SUBSET S /\ x \in U
    BY <1>4, <1>7
  <2> HIDE DEF U
  <2>3. SumFunctionOnSet(f, U) = f[x] + SumFunctionOnSet(f, U \ {x})
    BY <2>1, <2>2 DEF Q
  <2> QED BY <2>3 DEF U
<1>9. SumFunctionOnSet(f, T \ {x}) = f[y] + SumFunctionOnSet(f, (T \ {x}) \ {y})
  <2> DEFINE U == T \ {x}
  <2>1. U \notin Q
    BY <1>3
  <2>2. U \in SUBSET S /\ y \in U
    BY <1>4, <1>6, <1>7
  <2> HIDE DEF U
  <2>3. SumFunctionOnSet(f, U) = f[y] + SumFunctionOnSet(f, U \ {y})
    BY <2>1, <2>2 DEF Q
  <2> QED BY <2>3 DEF U
<1>10. (T \ {x}) \ {y} = (T \ {y}) \ {x}
  <2>1. \A z : z \in (T \ {x}) \ {y} <=> z \in (T \ {y}) \ {x}
    OBVIOUS
  <2> QED BY <2>1
<1>11. SumFunctionOnSet(f, (T \ {y}) \ {x}) \in Nat /\ f[x] \in Nat /\ f[y] \in Nat
  <2>1. IsFiniteSet((T \ {y}) \ {x})
    BY <1>4, FS_Subset
  <2> QED BY <2>1, <1>4, <1>6, SumIsNat
<1> QED BY <1>5, <1>6, <1>8, <1>9, <1>10, <1>11

LEMMA SumAdds ==
  ASSUME NEW f, NEW S, IsFiniteSet(S), NEW e, e \notin S, \A x \in S \cup {e} : f[x] \in Nat
  PROVE  SumFunctionOnSet(f, S \cup {e}) = f[e] + SumFunctionOnSet(f, S)
<1>1. IsFiniteSet(S \cup {e}) /\ (S \cup {e}) \ {e} = S
  BY FS_AddElement
<1> QED BY <1>1, SumTakes

\* Sums of tables that agree are the same.
LEMMA SumSame ==
  ASSUME NEW f, NEW g, NEW S, IsFiniteSet(S), \A x \in S : f[x] = g[x]
  PROVE  SumFunctionOnSet(f, S) = SumFunctionOnSet(g, S)
<1> DEFINE Q == {T \in SUBSET S : SumFunctionOnSet(f, T) # SumFunctionOnSet(g, T)}
<1>1. SUFFICES ASSUME Q # {} PROVE FALSE
  OBVIOUS
<1>2. Q \in SUBSET (SUBSET S)
  OBVIOUS
<1> HIDE DEF Q
<1>3. PICK T \in Q : \A U \in Q : ~(U \subseteq T /\ U # T)
  BY <1>1, <1>2, MinimalSubset
<1> USE DEF Q
<1>4. IsFiniteSet(T)
  BY <1>3, FS_Subset
<1>5. T # {}
  BY <1>3, <1>4, SumStep
<1>6. Any(T) \in T /\ SumFunctionOnSet(f, T \ {Any(T)}) = SumFunctionOnSet(g, T \ {Any(T)})
  BY <1>3, <1>5, AnyIn
<1> QED BY <1>3, <1>4, <1>5, <1>6, SumStep

\* The sum over a set in two parts.
LEMMA SumSplits ==
  ASSUME NEW f, NEW S, IsFiniteSet(S), \A x \in S : f[x] \in Nat, NEW A \in SUBSET S
  PROVE  SumFunctionOnSet(f, S) = SumFunctionOnSet(f, A) + SumFunctionOnSet(f, S \ A)
<1> DEFINE Others == S \ A
           Q == {T \in SUBSET A : SumFunctionOnSet(f, T \cup Others) # SumFunctionOnSet(f, T) + SumFunctionOnSet(f, Others)}
<1>1. SUFFICES ASSUME Q # {} PROVE FALSE
  <2>1. A \cup Others = S
    OBVIOUS
  <2> QED BY <2>1
<1>2. Q \in SUBSET (SUBSET A) /\ IsFiniteSet(A) /\ IsFiniteSet(Others)
  BY FS_Subset
<1> HIDE DEF Q
<1>3. PICK T \in Q : \A U \in Q : ~(U \subseteq T /\ U # T)
  BY <1>1, <1>2, MinimalSubset
<1> USE DEF Q
<1>4. IsFiniteSet(T) /\ T \subseteq A /\ IsFiniteSet(T \cup Others)
  BY <1>2, <1>3, FS_Subset, FS_Union
<1>5. SumFunctionOnSet(f, Others) \in Nat
  BY <1>2, SumIsNat
<1>6. T # {}
  <2>1. SUFFICES ASSUME T = {} PROVE FALSE
    OBVIOUS
  <2>2. SumFunctionOnSet(f, T) = 0
    BY <1>4, <2>1, SumStep
  <2>3. T \cup Others = Others
    BY <2>1
  <2>4. SumFunctionOnSet(f, T \cup Others) # SumFunctionOnSet(f, T) + SumFunctionOnSet(f, Others)
    BY <1>3
  <2> HIDE DEF Q, Others
  <2>5. SumFunctionOnSet(f, T) + SumFunctionOnSet(f, Others) = SumFunctionOnSet(f, Others)
    BY <1>5, <2>2
  <2> QED BY <2>3, <2>4, <2>5, Zenon
<1>7. PICK x \in T : TRUE
  BY <1>6
<1> DEFINE U == T \ {x}
<1>8. SumFunctionOnSet(f, U \cup Others) = SumFunctionOnSet(f, U) + SumFunctionOnSet(f, Others)
  <2>1. U \in SUBSET A /\ U \notin Q
    BY <1>3, <1>4, <1>7
  <2> HIDE DEF U, Others
  <2> QED BY <2>1
<1>9. SumFunctionOnSet(f, T) = f[x] + SumFunctionOnSet(f, U)
  BY <1>4, SumTakes
<1>10. SumFunctionOnSet(f, T \cup Others) = f[x] + SumFunctionOnSet(f, U \cup Others)
  <2>1. (T \cup Others) \ {x} = U \cup Others
    BY <1>4
  <2> QED BY <1>4, <2>1, SumTakes
<1>11. SumFunctionOnSet(f, U) \in Nat /\ f[x] \in Nat
  BY <1>4, SumIsNat, FS_Subset
<1> QED BY <1>3, <1>5, <1>8, <1>9, <1>10, <1>11

\* A time has a slot of the ring.
LEMMA SlotOfTime == \A t \in Nat : SlotOf(t) \in Slots
  <1> SUFFICES ASSUME NEW t \in Nat PROVE SlotOf(t) \in Slots
    OBVIOUS
  <1>1. t \div Span \in Nat
    BY LimiterAssumption
  <1>2. \A d \in Nat : d % NBuckets \in 0 .. NBuckets - 1
    BY LimiterAssumption
  <1> QED BY <1>1, <1>2 DEF SlotOf, Slots

\* A bucket starts less than a span before the times it holds.
LEMMA StartOfTime == \A t \in Nat : StartOf(t) \in Int /\ StartOf(t) <= t /\ t < StartOf(t) + Span
  <1> SUFFICES ASSUME NEW t \in Nat
               PROVE  StartOf(t) \in Int /\ StartOf(t) <= t /\ t < StartOf(t) + Span
    OBVIOUS
  <1> DEFINE m == (t + Offset) % Span
  <1>1. m \in 0 .. Span - 1
    BY LimiterAssumption
  <1>2. StartOf(t) = t - m
    BY DEF StartOf
  <1> HIDE DEF m
  <1> QED BY <1>1, <1>2, LimiterAssumption

\* A reservation is not the nil pointer.
LEMMA NoneIsNoReservation == Held => None \notin Reservations
  <1> SUFFICES ASSUME Held PROVE None \notin Reservations
    OBVIOUS
  <1>1. 0 .. now \subseteq Nat
    BY DEF Held
  <1> QED BY <1>1, LimiterAssumption DEF Reservations

LEMMA LiveFinite == Held => IsFiniteSet(live) /\ Cardinality(live) \in Nat
  BY LimiterAssumption, FS_Subset, FS_CardinalityType DEF Held

\* The sweep counts what it deletes.
LEMMA SweepCounts ==
  ASSUME Held
  PROVE  /\ IsFiniteSet(Rest) /\ Running = Cardinality(Rest)
         /\ Cardinality(Rest) <= Cardinality(live)
  <1>1. IsFiniteSet(live) /\ Overdue \subseteq live
    BY LiveFinite DEF Overdue
  <1>2. IsFiniteSet(Overdue) /\ IsFiniteSet(Rest)
    BY <1>1, FS_Subset DEF Rest
  <1>3. live \cap Overdue = Overdue
    BY <1>1
  <1>4. Cardinality(Rest) = Cardinality(live) - Cardinality(Overdue)
    BY <1>1, <1>2, <1>3, FS_Difference DEF Rest
  <1>5. /\ Cardinality(live) \in Nat /\ Cardinality(Overdue) \in Nat
        /\ Cardinality(Rest) \in Nat
    BY <1>1, <1>2, FS_CardinalityType
  <1> QED BY <1>2, <1>4, <1>5 DEF Held, Running, Fewer

LEMMA InitHeld == Init => Held
  <1> SUFFICES ASSUME Init PROVE Held
    OBVIOUS
  <1>1. Window \in Nat
    BY LimiterAssumption DEF Window
  <1>2. Cardinality(live) = 0
    BY FS_EmptySet DEF Init
  <1> QED BY <1>1, <1>2, LimiterAssumption DEF Init, Held

\* What the settling of one reservation on the books leaves.
LEMMA SettleHeld ==
  ASSUME Held, NEW r \in live, Settle(r), Forget(r), UNCHANGED now
  PROVE  Held'
  <1>1. IsFiniteSet(live) /\ Cardinality(live) \in Nat
    BY LiveFinite
  <1>2. Cardinality(live \ {r}) = Cardinality(live) - 1
    BY <1>1, FS_RemoveElement
  <1>3. Cardinality(live \ {r}) \in Nat
    BY <1>1, FS_RemoveElement, FS_CardinalityType
  <1>4. inflight' = Cardinality(live')
    BY <1>1, <1>2, <1>3 DEF Held, Settle, Fewer
  <1>5. inflight' <= inflight /\ inflight' \in Nat /\ inflight \in Nat
    BY <1>1, <1>2, <1>3, <1>4 DEF Held, Settle
  <1>6. MaxConcurrent = 0 \/ inflight' <= MaxConcurrent
    BY <1>5, LimiterAssumption DEF Held
  <1>7. held' \in [Requests -> Reservations' \cup {None}]
    BY DEF Held, Forget, Reservations
  <1>8. live' \subseteq {q \in Requests : held'[q] # None}
    BY DEF Held, Forget, Settle
  <1>9. \A q \in Requests : held'[q] # None =>
          held'[q].slot = SlotOf(held'[q].issued) /\ held'[q].start = StartOf(held'[q].issued)
    BY DEF Held, Forget
  <1> QED BY <1>4, <1>6, <1>7, <1>8, <1>9 DEF Held, SlotOf, StartOf

\* A sweep, with or without a refusal behind it.
LEMMA SweepHeld ==
  ASSUME Held, live' = Rest, inflight' = Running, UNCHANGED <<now, held>>
  PROVE  Held'
  <1>1. Rest \subseteq live
    BY DEF Rest
  <1>2. Cardinality(live) \in Nat /\ Cardinality(Rest) \in Nat
    BY LiveFinite, SweepCounts, FS_CardinalityType
  <1>3. inflight' = Cardinality(live') /\ inflight' <= inflight
    BY SweepCounts DEF Held
  <1>4. MaxConcurrent = 0 \/ inflight' <= MaxConcurrent
    BY <1>2, <1>3, SweepCounts, LimiterAssumption DEF Held
  <1> QED BY <1>1, <1>3, <1>4 DEF Held, Reservations, SlotOf, StartOf

\* The reservation Reserve makes.
LEMMA ReserveHeld ==
  ASSUME Held, NEW r \in Requests, NEW n \in Amounts, Reserve(r, n)
  PROVE  Held'
  <1> DEFINE new == [tokens |-> n, issued |-> now, slot |-> SlotOf(now), start |-> StartOf(now)]
  <1>1. now \in Nat /\ now' = now /\ held' = [held EXCEPT ![r] = new]
    BY DEF Held, Reserve
  <1>2. new \in Reservations
    BY <1>1, SlotOfTime, StartOfTime DEF Reservations
  <1>3. new # None
    BY <1>2, NoneIsNoReservation
  <1>4. held' \in [Requests -> Reservations' \cup {None}]
    BY <1>1, <1>2 DEF Held, Reservations
  <1>5. r \notin Rest /\ IsFiniteSet(Rest) /\ Cardinality(Rest) \in Nat
    BY SweepCounts, FS_CardinalityType DEF Held, Rest, Reserve
  <1>6. Cardinality(Rest \cup {r}) = Cardinality(Rest) + 1
    BY <1>5, FS_AddElement
  <1>7. live' = Rest \cup {r} /\ inflight' = Running + 1 /\ HasSlot(Running)
    BY DEF Reserve
  <1>8. inflight' = Cardinality(live')
    BY <1>6, <1>7, SweepCounts
  <1>9. MaxConcurrent = 0 \/ inflight' <= MaxConcurrent
    BY <1>5, <1>7, SweepCounts, LimiterAssumption DEF HasSlot
  <1>10. live' \subseteq {q \in Requests : held'[q] # None}
    <2> SUFFICES ASSUME NEW q \in live' PROVE q \in Requests /\ held'[q] # None
      OBVIOUS
    <2>1. CASE q = r
      BY <2>1, <1>1, <1>3 DEF Held
    <2>2. CASE q # r
      BY <2>2, <1>1, <1>7 DEF Held, Rest
    <2> QED BY <2>1, <2>2
  <1>11. ASSUME NEW q \in Requests, held'[q] # None
         PROVE  /\ held'[q].slot = SlotOf(held'[q].issued)
                /\ held'[q].start = StartOf(held'[q].issued)
    <2>1. CASE q = r
      BY <2>1, <1>1 DEF Held
    <2>2. CASE q # r
      BY <2>2, <1>1, <1>11 DEF Held
    <2> QED BY <2>1, <2>2
  <1> QED BY <1>1, <1>4, <1>8, <1>9, <1>10, <1>11 DEF Held, SlotOf, StartOf

\* One more tick makes no reservation younger than it was.
LEMMA TickHeld == Held /\ Tick => Held'
  <1> SUFFICES ASSUME Held, Tick PROVE Held'
    OBVIOUS
  <1>1. now \in Nat /\ now' = now + 1 /\ UNCHANGED <<live, inflight, held>>
    BY DEF Held, Tick
  <1>2. 0 .. now \subseteq 0 .. now'
    BY <1>1
  <1>3. Reservations \subseteq Reservations'
    BY <1>2 DEF Reservations
  <1>4. held' \in [Requests -> Reservations' \cup {None}]
    BY <1>1, <1>3 DEF Held
  <1> QED BY <1>1, <1>4 DEF Held, SlotOf, StartOf

LEMMA NextHeld == Held /\ [Next]_vars => Held'
  <1> SUFFICES ASSUME Held, [Next]_vars PROVE Held'
    OBVIOUS
  <1>1. ASSUME NEW r \in Requests, NEW n \in Amounts, Reserve(r, n) PROVE Held'
    BY <1>1, ReserveHeld
  <1>2. ASSUME NEW r \in Requests, NEW n \in Amounts, TooMany(r, n) PROVE Held'
    BY <1>2, SweepHeld DEF TooMany
  <1>3. ASSUME NEW r \in Requests, Release(r) PROVE Held'
    BY <1>3, SettleHeld DEF Release
  <1>4. ASSUME NEW r \in Requests, SettleLate(r) PROVE Held'
    <2>1. held' \in [Requests -> Reservations' \cup {None}]
      BY <1>4 DEF Held, SettleLate, Forget, Reservations
    <2>2. live' \subseteq {q \in Requests : held'[q] # None}
      BY <1>4 DEF Held, SettleLate, Forget
    <2> QED BY <1>4, <2>1, <2>2 DEF Held, SettleLate, Forget, SlotOf, StartOf
  <1>5. ASSUME NEW r \in live, NEW actual \in 0 .. held[r].tokens + Overrun, Commit(r, actual)
        PROVE  Held'
    BY <1>5, SettleHeld DEF Commit
  <1>6. CASE Sweep
    BY <1>6, SweepHeld DEF Sweep
  <1>7. CASE Snapshot
    BY <1>7 DEF Held, Snapshot, Reservations, SlotOf, StartOf
  <1>8. CASE Tick
    BY <1>8, TickHeld
  <1>9. CASE UNCHANGED vars
    BY <1>9 DEF Held, vars, Reservations, SlotOf, StartOf
  <1> QED BY <1>1, <1>2, <1>3, <1>4, <1>5, <1>6, <1>7, <1>8, <1>9 DEF Next

(***************************************************************************)
(* The ring: a bucket is in the slot of its start, and two starts of one   *)
(* window that share a slot are one.                                       *)
(***************************************************************************)
\* Division is unique.
LEMMA DivisionUnique ==
  ASSUME NEW d \in Nat \ {0}, NEW p \in Int, NEW q \in Int, NEW m \in 0 .. d - 1, NEW n \in 0 .. d - 1,
         d * p + m = d * q + n
  PROVE  p = q /\ m = n
<1>1. ASSUME NEW x \in Int, NEW y \in Int, NEW i \in 0 .. d - 1, NEW j \in 0 .. d - 1,
             d * x + i = d * y + j, x < y
      PROVE  FALSE
  <2>1. y - x - 1 \in Nat /\ d \in Nat
    BY <1>1
  <2>2. d * (y - x - 1) \in Nat
    BY <2>1
  <2>3. d * y = d * x + d + d * (y - x - 1)
    BY <1>1
  <2>4. d * x \in Int /\ d * y \in Int
    BY <1>1
  <2> QED BY <1>1, <2>2, <2>3, <2>4
<1>2. ~(p < q) /\ ~(q < p)
  BY <1>1
<1>3. p = q
  BY <1>2
<1> QED BY <1>3

LEMMA DividesInt ==
  ASSUME NEW d \in Int, d > 0, NEW n \in Int PROVE n = d * (n \div d) + (n % d)
  OBVIOUS

LEMMA Divides ==
  ASSUME NEW d \in Nat \ {0}, NEW n \in Nat
  PROVE  n \div d \in Nat /\ n % d \in 0 .. d - 1 /\ n = d * (n \div d) + (n % d)
<1>1. n \div d \in Nat
  OBVIOUS
<1>2. n % d \in 0 .. d - 1
  OBVIOUS
<1>3. n = d * (n \div d) + (n % d)
  BY DividesInt
<1> QED BY <1>1, <1>2, <1>3

\* Truncate counts whole spans when the offset is one.
LEMMA StartOfSpans ==
  ASSUME Offset % Span = 0, NEW t \in Nat
  PROVE  /\ StartOf(t) = Span * (t \div Span) /\ StartOf(t) \in Nat
         /\ StartOf(StartOf(t)) = StartOf(t) /\ SlotOf(StartOf(t)) = SlotOf(t)
<1> DEFINE q == t \div Span
           o == Offset \div Span
<1>1. Span \in Nat \ {0} /\ Offset \in Nat
  BY LimiterAssumption
<1>2. q \in Nat /\ t % Span \in 0 .. Span - 1 /\ t = Span * q + (t % Span)
  BY <1>1, Divides
<1>3. o \in Nat /\ Offset = Span * o
  BY <1>1, Divides
<1> HIDE DEF q, o
<1>4. ASSUME NEW n \in Nat, NEW p \in Nat, NEW m \in 0 .. Span - 1, n = Span * p + m
      PROVE  n \div Span = p /\ (n + Offset) % Span = m
  <2>1. n \div Span \in Nat /\ n % Span \in 0 .. Span - 1 /\ n = Span * (n \div Span) + (n % Span)
    BY <1>1, Divides
  <2>2. n \div Span = p
    BY <1>1, <1>4, <2>1, DivisionUnique
  <2> DEFINE u == n + Offset
  <2>3. u \in Nat
    BY <1>1
  <2>4. u \div Span \in Nat /\ u % Span \in 0 .. Span - 1 /\ u = Span * (u \div Span) + (u % Span)
    BY <1>1, <2>3, Divides
  <2>5. u = Span * (p + o) + m
    BY <1>1, <1>3, <1>4
  <2> HIDE DEF u
  <2>6. u % Span = m
    <3> DEFINE v == u \div Span
               w == u % Span
    <3>1. v \in Int /\ w \in 0 .. Span - 1 /\ p + o \in Int /\ Span * v + w = Span * (p + o) + m
      BY <1>3, <2>4, <2>5
    <3> DEFINE x == p + o
    <3>3. v \in Int /\ w \in 0 .. Span - 1 /\ x \in Int /\ Span * v + w = Span * x + m
      BY <3>1
    <3> HIDE DEF v, w, x
    <3>2. w = m
      BY <1>1, <3>3, DivisionUnique
    <3> QED BY <3>2 DEF w
  <2> QED BY <2>2, <2>6 DEF u
<1> DEFINE m == t % Span
<1>m. m \in 0 .. Span - 1 /\ t = Span * q + m
  BY <1>2
<1> HIDE DEF m
<1>5. (t + Offset) % Span = m
  BY <1>2, <1>4, <1>m
<1>6. Span * q \in Nat
  BY <1>1, <1>2
<1>7. StartOf(t) = Span * q
  BY <1>1, <1>5, <1>6, <1>m DEF StartOf
<1>8. Span * q = Span * q + 0 /\ 0 \in 0 .. Span - 1
  BY <1>1, <1>6
<1>9. (Span * q) \div Span = q /\ (Span * q + Offset) % Span = 0
  BY <1>2, <1>4, <1>6, <1>8
<1>10. StartOf(Span * q) = Span * q /\ SlotOf(Span * q) = q % NBuckets
  BY <1>6, <1>9 DEF StartOf, SlotOf
<1>11. SlotOf(t) = q % NBuckets
  BY DEF SlotOf, q
<1> QED BY <1>6, <1>7, <1>10, <1>11 DEF q

\* Less than a window apart, starts in one slot are the same.
LEMMA SlotTellsStart ==
  ASSUME Offset % Span = 0, NEW s \in Nat, NEW t \in Nat, StartOf(s) = s, StartOf(t) = t,
         SlotOf(s) = SlotOf(t), s - t < Window, t - s < Window
  PROVE  s = t
<1> DEFINE p == s \div Span
           q == t \div Span
<1>1. Span \in Nat \ {0} /\ NBuckets \in Nat \ {0}
  BY LimiterAssumption
<1>2. p \in Nat /\ q \in Nat /\ s = Span * p /\ t = Span * q
  BY <1>1, StartOfSpans, Divides
<1>3. p % NBuckets = q % NBuckets
  BY DEF SlotOf
<1> HIDE DEF p, q
<1> DEFINE x == p \div NBuckets
           y == q \div NBuckets
           m == p % NBuckets
<1>4. x \in Nat /\ m \in 0 .. NBuckets - 1 /\ p = NBuckets * x + m
  BY <1>1, <1>2, Divides
<1>5. y \in Nat /\ q = NBuckets * y + m
  BY <1>1, <1>2, <1>3, Divides
<1> HIDE DEF x, y, m
<1>6. ASSUME NEW i \in Nat, NEW j \in Nat, NEW u \in Nat, NEW v \in Nat,
             u = NBuckets * i + m, v = NBuckets * j + m, i < j
      PROVE  Span * v - Span * u >= Window
  <2>1. j - i - 1 \in Nat
    BY <1>6
  <2>2. NBuckets * (j - i - 1) \in Nat
    BY <1>1, <2>1
  <2>3. v - u = NBuckets + NBuckets * (j - i - 1)
    BY <1>1, <1>4, <1>6
  <2>4. Span * (NBuckets * (j - i - 1)) \in Nat
    BY <1>1, <2>2
  <2>5. Span * (v - u) = Span * NBuckets + Span * (NBuckets * (j - i - 1))
    BY <1>1, <2>2, <2>3
  <2>6. Span * (v - u) = Span * v - Span * u /\ Span * NBuckets = Window /\ Window \in Nat
    BY <1>1, <1>6 DEF Window
  <2> QED BY <2>4, <2>5, <2>6
<1>7. ~(x < y) /\ ~(y < x)
  <2>1. Window \in Int
    BY <1>1 DEF Window
  <2>2. CASE x < y
    BY <1>2, <1>4, <1>5, <1>6, <2>1, <2>2
  <2>3. CASE y < x
    BY <1>2, <1>4, <1>5, <1>6, <2>1, <2>3
  <2> QED BY <2>2, <2>3
<1>8. x = y
  BY <1>4, <1>5, <1>7
<1> QED BY <1>2, <1>4, <1>5, <1>8

(***************************************************************************)
(* What lies in a bucket and what is reserved in it.                       *)
(***************************************************************************)
\* The reservations' tokens, of whoever holds one.
Tokens == [r \in Requests |-> IF held[r] = None THEN 0 ELSE held[r].tokens]

LEMMA TokensNat == Held => \A r \in Requests : Tokens[r] \in Nat
<1> SUFFICES ASSUME Held, NEW r \in Requests PROVE Tokens[r] \in Nat
  OBVIOUS
<1>1. held[r] \in Reservations \cup {None}
  BY DEF Held
<1>2. held[r] # None => held[r].tokens \in Nat
  BY <1>1, LimiterAssumption DEF Reservations
<1> QED BY <1>2 DEF Tokens

LEMMA ReservedIs ==
  ASSUME Held, NEW R \in SUBSET live
  PROVE  /\ IsFiniteSet(R) /\ R \subseteq Requests
         /\ Reserved(R) = SumFunctionOnSet(Tokens, R) /\ Reserved(R) \in Nat
<1>1. IsFiniteSet(R) /\ R \subseteq Requests /\ \A r \in R : held[r] # None
  BY LiveFinite, FS_Subset DEF Held
<1> DEFINE f == [r \in R |-> held[r].tokens]
<1>2. \A r \in R : f[r] = Tokens[r]
  BY <1>1 DEF Tokens
<1>3. DOMAIN f = R
  OBVIOUS
<1>4. Reserved(R) = SumFunctionOnSet(f, R)
  BY <1>3 DEF Reserved, SumFunction
<1> HIDE DEF f
<1>5. Reserved(R) = SumFunctionOnSet(Tokens, R)
  BY <1>1, <1>2, <1>4, SumSame
<1>6. \A r \in R : Tokens[r] \in Nat
  BY <1>1, TokensNat
<1> QED BY <1>1, <1>5, <1>6, SumIsNat

\* The same reservations before and after a step.
LEMMA ReservedStays ==
  ASSUME NEW R, IsFiniteSet(R), \A r \in R : held'[r] = held[r]
  PROVE  Reserved(R)' = Reserved(R)
<1> DEFINE f == [r \in R |-> held[r].tokens]
           g == [r \in R |-> held'[r].tokens]
<1>1. f = g
  OBVIOUS
<1>2. Reserved(R) = SumFunction(f) /\ Reserved(R)' = SumFunction(g)
  BY DEF Reserved
<1> QED BY <1>1, <1>2

LEMMA ReservedNone == Reserved({}) = 0
<1> DEFINE f == [r \in {} |-> held[r].tokens]
<1>1. DOMAIN f = {}
  OBVIOUS
<1>2. Reserved({}) = SumFunctionOnSet(f, {})
  BY <1>1 DEF Reserved, SumFunction
<1> HIDE DEF f
<1> QED BY <1>2, SumStep, FS_EmptySet

LEMMA SlotsFinite == IsFiniteSet(Slots)
  BY LimiterAssumption, FS_Interval DEF Slots

LEMMA LyingIs ==
  ASSUME NEW B, WellFormed(B), NEW K \in SUBSET Slots
  PROVE  /\ IsFiniteSet(K) /\ \A k \in K : B[k].tokens \in Nat
         /\ Lying(B, K) = SumFunctionOnSet([k \in Slots |-> B[k].tokens], K)
         /\ Lying(B, K) \in Nat
<1>1. IsFiniteSet(K) /\ \A k \in K : B[k].tokens \in Nat
  BY SlotsFinite, FS_Subset DEF WellFormed
<1> DEFINE f == [k \in K |-> B[k].tokens]
           g == [k \in Slots |-> B[k].tokens]
<1>2. \A k \in K : f[k] = g[k] /\ g[k] \in Nat
  BY <1>1
<1>3. DOMAIN f = K
  OBVIOUS
<1>4. Lying(B, K) = SumFunctionOnSet(f, K)
  BY <1>3 DEF Lying, SumFunction
<1> HIDE DEF f, g
<1>5. Lying(B, K) = SumFunctionOnSet(g, K)
  BY <1>1, <1>2, <1>4, SumSame
<1>6. Lying(B, K) \in Nat
  BY <1>1, <1>2, <1>5, SumIsNat
<1> QED BY <1>1, <1>5, <1>6 DEF g

\* The bucket of a start, if the slot has not been given to another one.
In(B, s) == IF B[SlotOf(s)].start = s THEN B[SlotOf(s)].tokens ELSE 0

LEMMA LyingIn ==
  ASSUME NEW B, WellFormed(B), Aligned(B), NEW s \in Nat \ {0}
  PROVE  Lying(B, {k \in Slots : B[k].start = s}) = In(B, s)
<1> DEFINE K == {k \in Slots : B[k].start = s}
           j == SlotOf(s)
<1>1. j \in Slots /\ K \in SUBSET Slots
  BY SlotOfTime
<1>2. K \subseteq {j}
  BY DEF Aligned
<1> DEFINE g == [k \in Slots |-> B[k].tokens]
<1>3. Lying(B, K) = SumFunctionOnSet(g, K)
  BY <1>1, LyingIs
<1>4. CASE B[j].start = s
  <2>1. K = {j}
    BY <1>1, <1>2, <1>4
  <2>2. g[j] \in Nat /\ g[j] = B[j].tokens
    BY <1>1 DEF WellFormed
  <2> HIDE DEF g, K, j
  <2>3. SumFunctionOnSet(g, {} \cup {j}) = g[j] + SumFunctionOnSet(g, {})
    BY <2>2, SumAdds, FS_EmptySet
  <2>4. SumFunctionOnSet(g, {}) = 0 /\ {} \cup {j} = {j}
    BY SumStep, FS_EmptySet
  <2>5. SumFunctionOnSet(g, K) = g[j]
    BY <2>1, <2>2, <2>3, <2>4
  <2>6. Lying(B, K) = B[j].tokens
    BY <1>3, <2>2, <2>5
  <2> QED BY <1>4, <2>6 DEF In, j, K
<1>5. CASE B[j].start # s
  <2>1. K = {}
    BY <1>2, <1>5
  <2> HIDE DEF g, K, j
  <2> QED BY <1>3, <1>5, <2>1, SumStep, FS_EmptySet DEF In, j, K
<1> QED BY <1>4, <1>5

(***************************************************************************)
(* The balance: for each start of the window, what lies in its bucket is   *)
(* what was charged to it and what L reserved in it.                       *)
(***************************************************************************)
At(L, s)       == {r \in L : held[r].start = s}
InBalance(B, L) ==
  \A s \in DOMAIN spent : InWindow(s) => In(B, s) = spent[s] + Reserved(At(L, s))

LEMMA Starts ==
  ASSUME Books, NEW s \in DOMAIN spent
  PROVE  s \in Nat \ {0} /\ spent[s] \in Nat /\ SlotOf(s) \in Slots
<1>1. s \in Nat \ {0} /\ spent[s] \in Nat
  BY LimiterAssumption DEF Books
<1> QED BY <1>1, SlotOfTime

LEMMA BalanceIs ==
  ASSUME Offset % Span = 0, Books
  PROVE  Balance <=> InBalance(buckets, live)
<1>1. ASSUME NEW s \in DOMAIN spent
      PROVE  Lying(buckets, {k \in Slots : buckets[k].start = s}) = In(buckets, s)
  BY <1>1, Starts, LyingIn DEF Books
<1> QED BY <1>1 DEF Balance, InBalance, At

\* A refund takes from each bucket what its reservations have put in.
LEMMA RefundTakes ==
  ASSUME Held, Books, NEW R \in SUBSET live
  PROVE  /\ WellFormed(Refunded(buckets, R))
         /\ \A k \in Slots :
              /\ ReservedIn(k, buckets[k].start, R) \in Nat
              /\ Refunded(buckets, R)[k].start = buckets[k].start
              /\ Refunded(buckets, R)[k].tokens =
                   IF buckets[k].tokens > ReservedIn(k, buckets[k].start, R)
                   THEN buckets[k].tokens - ReservedIn(k, buckets[k].start, R) ELSE 0
<1> DEFINE B == Refunded(buckets, R)
<1>1. WellFormed(buckets)
  BY DEF Books
<1>2. ASSUME NEW k \in Slots
      PROVE  /\ ReservedIn(k, buckets[k].start, R) \in Nat
             /\ B[k].start = buckets[k].start /\ B[k].tokens \in Nat
             /\ B[k] = [start |-> buckets[k].start, tokens |-> B[k].tokens]
             /\ B[k].tokens = IF buckets[k].tokens > ReservedIn(k, buckets[k].start, R)
                              THEN buckets[k].tokens - ReservedIn(k, buckets[k].start, R) ELSE 0
  <2> DEFINE back == ReservedIn(k, buckets[k].start, R)
  <2>1. back \in Nat
    <3> DEFINE S == {r \in R : held[r].slot = k /\ held[r].start = buckets[k].start}
    <3>1. S \in SUBSET live
      OBVIOUS
    <3> QED BY <3>1, ReservedIs DEF ReservedIn
  <2>2. buckets[k] \in [start : Nat, tokens : Nat]
    BY <1>1 DEF WellFormed
  <2>3. B[k] = [buckets[k] EXCEPT !.tokens = IF @ > back THEN @ - back ELSE 0]
    BY DEF Refunded
  <2> HIDE DEF back
  <2>4. B[k] = [start |-> buckets[k].start, tokens |-> IF buckets[k].tokens > back THEN buckets[k].tokens - back ELSE 0]
    BY <2>2, <2>3
  <2>5. (IF buckets[k].tokens > back THEN buckets[k].tokens - back ELSE 0) \in Nat
    BY <2>1, <2>2
  <2> QED BY <2>1, <2>4, <2>5 DEF back
<1>3. B \in [Slots -> [start : Nat, tokens : Nat]]
  <2>1. B = [k \in Slots |-> B[k]]
    BY DEF Refunded
  <2>2. ASSUME NEW k \in Slots PROVE B[k] \in [start : Nat, tokens : Nat]
    <3>1. buckets[k].start \in Nat
      BY <1>1 DEF WellFormed
    <3>2. B[k] = [start |-> buckets[k].start, tokens |-> B[k].tokens] /\ B[k].tokens \in Nat
      BY <1>2
    <3> HIDE DEF B
    <3> QED BY <3>1, <3>2
  <2> HIDE DEF B
  <2> QED BY <2>1, <2>2
<1>4. WellFormed(B)
  BY <1>1, <1>2, <1>3 DEF WellFormed
<1> QED BY <1>2, <1>4

\* What a refund leaves is in balance with the reservations it leaves.
LEMMA RefundIs ==
  ASSUME Offset % Span = 0, Held, Books, InBalance(buckets, live), NEW R \in SUBSET live
  PROVE  Aligned(Refunded(buckets, R)) /\ InBalance(Refunded(buckets, R), live \ R)
<1> DEFINE B == Refunded(buckets, R)
<1>1. WellFormed(buckets) /\ Aligned(buckets)
  BY DEF Books
<1>2. ASSUME NEW k \in Slots
      PROVE  /\ ReservedIn(k, buckets[k].start, R) \in Nat
             /\ B[k].start = buckets[k].start
             /\ B[k].tokens = IF buckets[k].tokens > ReservedIn(k, buckets[k].start, R)
                              THEN buckets[k].tokens - ReservedIn(k, buckets[k].start, R) ELSE 0
  BY RefundTakes
<1>5. Aligned(B)
  BY <1>1, <1>2 DEF Aligned
<1>6. ASSUME NEW s \in DOMAIN spent, InWindow(s)
      PROVE  In(B, s) = spent[s] + Reserved(At(live \ R, s))
  <2> DEFINE k == SlotOf(s)
  <2>1. k \in Slots /\ s \in Nat \ {0} /\ spent[s] \in Nat
    BY Starts
  <2>2. At(live, s) \in SUBSET live /\ At(R, s) \in SUBSET live /\ At(live \ R, s) \in SUBSET live
        /\ At(R, s) \in SUBSET At(live, s) /\ At(live, s) \ At(R, s) = At(live \ R, s)
    BY DEF At
  <2>3. /\ Reserved(At(live, s)) = Reserved(At(R, s)) + Reserved(At(live \ R, s))
        /\ Reserved(At(R, s)) \in Nat /\ Reserved(At(live \ R, s)) \in Nat
    <3>1. \A r \in At(live, s) : Tokens[r] \in Nat
      BY <2>2, ReservedIs, TokensNat
    <3>2. SumFunctionOnSet(Tokens, At(live, s)) =
            SumFunctionOnSet(Tokens, At(R, s)) + SumFunctionOnSet(Tokens, At(live \ R, s))
      BY <2>2, <3>1, ReservedIs, SumSplits
    <3> QED BY <2>2, <3>2, ReservedIs
  <2>4. In(buckets, s) = spent[s] + Reserved(At(live, s))
    BY <1>6 DEF InBalance
  <2>5. CASE buckets[k].start = s
    <3>1. {r \in R : held[r].slot = k /\ held[r].start = s} = At(R, s)
      <4>1. ASSUME NEW r \in R, held[r].start = s PROVE held[r].slot = k
        <5>1. held[r] \in Reservations /\ held[r] # None
          BY DEF Held
        <5>2. held[r].issued \in Nat
          BY <5>1 DEF Held, Reservations
        <5>3. SlotOf(StartOf(held[r].issued)) = SlotOf(held[r].issued)
          BY <5>2, StartOfSpans
        <5>4. held[r].slot = SlotOf(held[r].issued) /\ held[r].start = StartOf(held[r].issued)
          BY <5>1 DEF Held
        <5> QED BY <4>1, <5>3, <5>4
      <4> QED BY <4>1 DEF At
    <3>2. ReservedIn(k, s, R) = Reserved(At(R, s))
      BY <3>1 DEF ReservedIn
    <3>3. buckets[k].tokens = spent[s] + Reserved(At(R, s)) + Reserved(At(live \ R, s))
      BY <2>1, <2>3, <2>4, <2>5 DEF In
    <3>4. B[k].tokens = IF buckets[k].tokens > Reserved(At(R, s))
                        THEN buckets[k].tokens - Reserved(At(R, s)) ELSE 0
      BY <1>2, <2>1, <2>5, <3>2
    <3>5. B[k].start = s
      BY <1>2, <2>1, <2>5
    <3> HIDE DEF B, k
    <3>6. B[k].tokens = spent[s] + Reserved(At(live \ R, s))
      BY <2>1, <2>3, <3>3, <3>4
    <3> QED BY <3>5, <3>6 DEF In, k
  <2>6. CASE buckets[k].start # s
    <3>1. In(buckets, s) = 0 /\ In(B, s) = 0
      BY <1>2, <2>1, <2>6 DEF In
    <3> HIDE DEF B
    <3> QED BY <2>1, <2>3, <2>4, <3>1
  <2> QED BY <2>5, <2>6
<1> QED BY <1>5, <1>6 DEF InBalance

\* Dropping the buckets that have left the window touches none of the others.
LEMMA ClearDrops ==
  ASSUME Books, now \in Nat, NEW B, WellFormed(B)
  PROVE  /\ WellFormed(Cleared(B)) /\ Empty.start = 0
         /\ \A k \in Slots : Cleared(B)[k] = (IF InWindow(B[k].start) THEN B[k] ELSE Empty)
<1>1. ASSUME NEW k \in Slots
      PROVE  Cleared(B)[k] = (IF InWindow(B[k].start) THEN B[k] ELSE Empty)
  BY DEF Cleared
<1>2. Empty \in [start : Nat, tokens : Nat] /\ Empty.start = 0 /\ 0 <= now
  BY DEF Empty
<1>3. \A k \in Slots : Cleared(B)[k] \in [start : Nat, tokens : Nat] /\ Cleared(B)[k].start <= now
  BY <1>1, <1>2 DEF WellFormed
<1>4. Cleared(B) = [k \in Slots |-> Cleared(B)[k]]
  BY DEF Cleared
<1> QED BY <1>1, <1>2, <1>3, <1>4 DEF WellFormed

LEMMA ClearIs ==
  ASSUME Offset % Span = 0, Books, now \in Nat, NEW B, NEW L, WellFormed(B), Aligned(B), InBalance(B, L)
  PROVE  Aligned(Cleared(B)) /\ InBalance(Cleared(B), L)
<1>1. /\ \A k \in Slots : Cleared(B)[k] = (IF InWindow(B[k].start) THEN B[k] ELSE Empty)
      /\ Empty.start = 0
  BY ClearDrops
<1>2. Aligned(Cleared(B))
  BY <1>1 DEF Aligned
<1>3. ASSUME NEW s \in DOMAIN spent, InWindow(s) PROVE In(Cleared(B), s) = In(B, s)
  <2>1. SlotOf(s) \in Slots /\ s # 0
    BY Starts
  <2> QED BY <1>1, <1>3, <2>1 DEF In
<1> QED BY <1>2, <1>3 DEF InBalance

\* The bucket of now is in the window, and no other start of the window is in its slot.
LEMMA NowIsIn ==
  ASSUME Books, now \in Nat
  PROVE  /\ SlotOf(now) \in Slots /\ StartOf(now) \in Nat \ {0} /\ StartOf(now) <= now
         /\ InWindow(StartOf(now))
<1>1. StartOf(now) \in Int /\ StartOf(now) <= now /\ now < StartOf(now) + Span
  BY StartOfTime
<1>2. Window \in Nat /\ Span \in Nat /\ Span <= Window /\ now >= Window
  <2>1. Span \in Nat \ {0} /\ NBuckets \in Nat \ {0}
    BY LimiterAssumption
  <2>2. NBuckets - 1 \in Nat /\ (NBuckets - 1) * Span \in Nat
    BY <2>1
  <2>3. NBuckets * Span = Span + (NBuckets - 1) * Span
    BY <2>1
  <2> QED BY <2>1, <2>2, <2>3 DEF Window, Books
<1>3. SlotOf(now) \in Slots
  BY SlotOfTime
<1> QED BY <1>1, <1>2, <1>3 DEF InWindow

LEMMA ChargeWellFormed ==
  ASSUME Books, now \in Nat, NEW B, WellFormed(B), NEW n \in Nat
  PROVE  /\ WellFormed(Charged(B, n))
         /\ \A k \in Slots : k # SlotOf(now) => Charged(B, n)[k] = B[k]
         /\ Charged(B, n)[SlotOf(now)].start = StartOf(now)
         /\ Charged(B, n)[SlotOf(now)].tokens =
              n + (IF B[SlotOf(now)].start = StartOf(now) THEN B[SlotOf(now)].tokens ELSE 0)
<1> DEFINE j == SlotOf(now)
           present == IF B[j].start = StartOf(now) THEN B[j].tokens ELSE 0
           new == [start |-> StartOf(now), tokens |-> n + present]
<1>1. j \in Slots /\ StartOf(now) \in Nat /\ StartOf(now) <= now
  BY NowIsIn
<1>2. B \in [Slots -> [start : Nat, tokens : Nat]] /\ \A k \in Slots : B[k].start <= now
  BY DEF WellFormed
<1>3. present \in Nat
  BY <1>1, <1>2
<1>4. Charged(B, n) = [B EXCEPT ![j] = new]
  BY DEF Charged
<1>5. new \in [start : Nat, tokens : Nat] /\ new.start = StartOf(now) /\ new.tokens = n + present
  BY <1>1, <1>3
<1> HIDE DEF j, present, new
<1>6. WellFormed(Charged(B, n))
  BY <1>1, <1>2, <1>4, <1>5 DEF WellFormed
<1>7. \A k \in Slots : k # j => Charged(B, n)[k] = B[k]
  BY <1>2, <1>4
<1>8. Charged(B, n)[j].start = StartOf(now) /\ Charged(B, n)[j].tokens = n + present
  BY <1>1, <1>2, <1>4, <1>5
<1> QED BY <1>6, <1>7, <1>8 DEF j, present

\* A charge goes to the bucket of now; what its slot held before has left the window.
LEMMA ChargeIs ==
  ASSUME Offset % Span = 0, Books, now \in Nat, NEW B, WellFormed(B), Aligned(B), NEW n \in Nat
  PROVE  /\ Aligned(Charged(B, n))
         /\ \A s \in DOMAIN spent : InWindow(s) =>
              In(Charged(B, n), s) = In(B, s) + (IF s = StartOf(now) THEN n ELSE 0)
<1> DEFINE j == SlotOf(now)
           t == StartOf(now)
           C == Charged(B, n)
<1>1. j \in Slots /\ t \in Nat \ {0} /\ t <= now /\ InWindow(t) /\ StartOf(t) = t /\ SlotOf(t) = j
  BY NowIsIn, StartOfSpans
<1>2. \A k \in Slots : k # j => C[k] = B[k]
  BY ChargeWellFormed
<1>3. C[j].start = t /\ C[j].tokens = n + (IF B[j].start = t THEN B[j].tokens ELSE 0)
  BY ChargeWellFormed
<1> HIDE DEF C, j, t
<1>4. Aligned(C)
  BY <1>1, <1>2, <1>3 DEF Aligned
<1>5. ASSUME NEW s \in DOMAIN spent, InWindow(s)
      PROVE  In(C, s) = In(B, s) + (IF s = t THEN n ELSE 0)
  <2>1. s \in Nat \ {0} /\ SlotOf(s) \in Slots
    BY Starts
  <2>2. B[SlotOf(s)].start \in Nat /\ B[SlotOf(s)].tokens \in Nat /\ B[SlotOf(s)].start <= now
    BY <2>1 DEF WellFormed
  <2>3. CASE s = t
    BY <1>1, <1>3, <2>1, <2>2, <2>3 DEF In
  <2>4. CASE s # t /\ SlotOf(s) # j
    BY <1>2, <2>1, <2>2, <2>4 DEF In
  <2>5. CASE s # t /\ SlotOf(s) = j
    <3>1. B[j].start # s
      <4>1. SUFFICES ASSUME B[j].start = s PROVE FALSE
        OBVIOUS
      <4>2. StartOf(s) = s /\ s <= now
        BY <1>1, <2>1, <2>2, <2>5, <4>1 DEF Aligned
      <4>3. now - s < Window /\ now - t < Window /\ Window \in Int
        BY <1>1, <1>5, <2>1, LimiterAssumption DEF InWindow, Window
      <4>4. s - t < Window /\ t - s < Window
        BY <1>1, <2>1, <4>2, <4>3
      <4> QED BY <1>1, <2>1, <2>5, <4>2, <4>4, SlotTellsStart
    <3> QED BY <1>3, <2>5, <3>1 DEF In
  <2> QED BY <2>3, <2>4, <2>5
<1> QED BY <1>4, <1>5 DEF C, t

(***************************************************************************)
(* Every step keeps the account.                                           *)
(***************************************************************************)
Fine(B, L) == WellFormed(B) /\ (Offset % Span = 0 => Aligned(B) /\ InBalance(B, L))
Account    == Held /\ Books /\ Fine(buckets, live)

LEMMA InitAccount == Init => Books /\ Fine(buckets, live)
<1> SUFFICES ASSUME Init PROVE Books /\ Fine(buckets, live)
  OBVIOUS
<1>1. Window \in Nat /\ now = Window /\ Empty \in [start : Nat, tokens : Nat] /\ Empty.start = 0
  BY LimiterAssumption DEF Init, Window, Empty
<1>2. WellFormed(buckets)
  BY <1>1 DEF Init, WellFormed
<1>3. Aligned(buckets)
  BY <1>1 DEF Init, Aligned
<1>4. Books
  BY <1>1, <1>2, <1>3 DEF Books, Init
<1>5. ASSUME NEW s \in DOMAIN spent PROVE In(buckets, s) = spent[s] + Reserved(At(live, s))
  <2>1. s # 0 /\ SlotOf(s) \in Slots /\ spent[s] = 0
    BY <1>4, Starts DEF Init
  <2>2. In(buckets, s) = 0
    BY <1>1, <2>1 DEF Init, In
  <2>3. At(live, s) = {}
    BY DEF Init, At
  <2> QED BY <2>1, <2>2, <2>3, ReservedNone
<1> QED BY <1>2, <1>3, <1>4, <1>5 DEF Fine, InBalance

\* A step at the same time that leaves fine buckets, and whose L keep what they hold.
LEMMA AfterFine ==
  ASSUME NEW B, NEW L, Fine(B, L), Books, buckets' = B, live' = L, UNCHANGED <<now, spent>>,
         IsFiniteSet(L), \A r \in L : held'[r] = held[r]
  PROVE  Books' /\ Fine(buckets, live)'
<1>1. WellFormed(buckets)' /\ (Offset % Span = 0 => Aligned(buckets)')
  BY DEF Fine, WellFormed, Aligned, SlotOf, StartOf
<1>2. Books'
  BY <1>1 DEF Books
<1>3. ASSUME Offset % Span = 0, NEW s \in DOMAIN spent', InWindow(s)'
      PROVE  In(buckets, s)' = spent'[s] + Reserved(At(live, s))'
  <2>1. At(live, s)' = At(L, s) /\ At(L, s) \subseteq L
    BY DEF At
  <2>2. Reserved(At(live, s))' = Reserved(At(L, s))
    <3> DEFINE S == At(L, s)
    <3>1. IsFiniteSet(S) /\ \A r \in S : held'[r] = held[r]
      BY <2>1, FS_Subset
    <3>2. At(live, s)' = S
      BY <2>1
    <3> HIDE DEF S
    <3>3. SumFunction([r \in S |-> held'[r].tokens]) = SumFunction([r \in S |-> held[r].tokens])
      <4>1. [r \in S |-> held'[r].tokens] = [r \in S |-> held[r].tokens]
        BY <3>1
      <4> QED BY <4>1
    <3> QED BY <3>2, <3>3 DEF Reserved, S
  <2>3. In(buckets, s)' = In(B, s) /\ InWindow(s) /\ s \in DOMAIN spent /\ spent'[s] = spent[s]
    BY <1>3 DEF In, SlotOf, InWindow
  <2> QED BY <1>3, <2>2, <2>3 DEF Fine, InBalance
<1> QED BY <1>1, <1>2, <1>3 DEF Fine, InBalance

LEMMA RefundFine ==
  ASSUME Account, NEW R \in SUBSET live
  PROVE  Fine(Refunded(buckets, R), live \ R)
  BY RefundTakes, RefundIs DEF Account, Fine

LEMMA ClearFine ==
  ASSUME Account, NEW B, NEW L, Fine(B, L)
  PROVE  Fine(Cleared(B), L)
  BY ClearDrops, ClearIs DEF Account, Fine, Held

\* What the sweep leaves.
LEMMA SweptFine ==
  ASSUME Account
  PROVE  /\ Fine(Left, Rest) /\ Fine(Cleared(Left), Rest) /\ Fine(Looked(Left), Rest)
         /\ IsFiniteSet(Rest) /\ Rest \subseteq live
<1>1. Overdue \in SUBSET live
  BY DEF Overdue
<1>2. Fine(Left, Rest)
  BY <1>1, RefundFine DEF Left, Rest
<1>3. Fine(Cleared(Left), Rest)
  BY <1>2, ClearFine
<1>4. Fine(Looked(Left), Rest)
  BY <1>2, <1>3 DEF Looked
<1> QED BY <1>2, <1>3, <1>4, SweepCounts DEF Account, Rest

LEMMA SweepAccounts ==
  ASSUME Account, live' = Rest, UNCHANGED <<now, held, spent>>,
         buckets' = Left \/ buckets' = Cleared(Left)
  PROVE  Books' /\ Fine(buckets, live)'
<1>1. Books
  BY DEF Account
<1>2. CASE buckets' = Left
  BY <1>1, <1>2, SweptFine, AfterFine
<1>3. CASE buckets' = Cleared(Left)
  BY <1>1, <1>3, SweptFine, AfterFine
<1> QED BY <1>2, <1>3

LEMMA ReleaseAccounts ==
  ASSUME Account, NEW r \in Requests, Release(r)
  PROVE  Books' /\ Fine(buckets, live)'
<1>1. Fine(Refunded(buckets, {r}), live \ {r})
  BY RefundFine DEF Release
<1>2. IsFiniteSet(live \ {r})
  BY LiveFinite, FS_Subset DEF Account
<1>3. \A q \in live \ {r} : held'[q] = held[q]
  BY DEF Account, Held, Release, Forget
<1> QED BY <1>1, <1>2, <1>3, AfterFine DEF Account, Release, Settle

\* Somebody who is not on the books forgets.
LEMMA SettleLateAccounts ==
  ASSUME Account, NEW r \in Requests, SettleLate(r)
  PROVE  Books' /\ Fine(buckets, live)'
<1>1. \A q \in live : held'[q] = held[q]
  BY DEF Account, Held, SettleLate, Forget
<1> QED BY <1>1, LiveFinite, AfterFine DEF Account, SettleLate

LEMMA SnapshotAccounts ==
  ASSUME Account, Snapshot
  PROVE  Books' /\ Fine(buckets, live)'
<1>1. Fine(Cleared(buckets), live)
  BY ClearFine DEF Account
<1> QED BY <1>1, LiveFinite, AfterFine DEF Account, Snapshot

\* As time passes, a start only leaves the window.
LEMMA TickAccounts ==
  ASSUME Account, Tick
  PROVE  Books' /\ Fine(buckets, live)'
<1>1. now \in Nat /\ now' = now + 1 /\ UNCHANGED <<buckets, live, held>> /\ Window \in Nat
  BY LimiterAssumption DEF Account, Held, Tick, Window
<1>2. spent' = [s \in DOMAIN spent |-> IF s > now' - Window THEN spent[s] ELSE 0]
  BY DEF Tick
<1>3. DOMAIN spent = 1 .. MaxTime /\ \A s \in 1 .. MaxTime : spent[s] \in Nat
  BY DEF Account, Books
<1>4. spent' \in [1 .. MaxTime -> Nat]
  BY <1>2, <1>3
<1>5. WellFormed(buckets)' /\ (Offset % Span = 0 => Aligned(buckets)')
  BY <1>1 DEF Account, Fine, WellFormed, Aligned, SlotOf, StartOf
<1>6. Books'
  BY <1>1, <1>4, <1>5 DEF Books, Account
<1>7. ASSUME Offset % Span = 0, NEW s \in DOMAIN spent', InWindow(s)'
      PROVE  In(buckets, s)' = spent'[s] + Reserved(At(live, s))'
  <2>1. s \in DOMAIN spent /\ s \in Nat /\ s > now' - Window
    BY <1>2, <1>3, <1>7, LimiterAssumption DEF InWindow
  <2>2. InWindow(s) /\ spent'[s] = spent[s]
    BY <1>1, <1>2, <2>1 DEF InWindow
  <2>3. In(buckets, s)' = In(buckets, s)
    BY <1>1 DEF In, SlotOf
  <2>4. Reserved(At(live, s))' = Reserved(At(live, s))
    BY <1>1 DEF Reserved, At
  <2> QED BY <1>7, <2>1, <2>2, <2>3, <2>4 DEF Account, Fine, InBalance
<1> QED BY <1>5, <1>6, <1>7 DEF Fine, InBalance

\* A charge at the same time: n for a reservation of the books, or for what was used.
LEMMA ChargeAccounts ==
  ASSUME Account, NEW B, NEW L, Fine(B, L), NEW n \in Nat, buckets' = Charged(B, n), now' = now,
         L \subseteq live, \A r \in L : held'[r] = held[r],
         \/ spent' = [spent EXCEPT ![StartOf(now)] = @ + n] /\ live' = L
         \/ /\ UNCHANGED spent
            /\ \E r \in Requests \ L : /\ live' = L \cup {r}
                                       /\ held'[r].tokens = n /\ held'[r].start = StartOf(now)
  PROVE  Books' /\ Fine(buckets, live)'
<1>1. now \in Nat /\ Books /\ WellFormed(B) /\ StartOf(now) \in Nat /\ L \in SUBSET live
  BY NowIsIn DEF Account, Held, Fine
<1>2. WellFormed(Charged(B, n)) /\ (Offset % Span = 0 => Aligned(Charged(B, n)))
  BY <1>1, ChargeWellFormed, ChargeIs DEF Fine
<1>3. WellFormed(buckets)' /\ (Offset % Span = 0 => Aligned(buckets)')
  BY <1>2 DEF WellFormed, Aligned, SlotOf, StartOf
<1>4. spent \in [1 .. MaxTime -> Nat] /\ DOMAIN spent' = DOMAIN spent /\ spent' \in [1 .. MaxTime -> Nat]
  BY <1>1 DEF Books
<1>5. Books'
  BY <1>1, <1>3, <1>4 DEF Books
<1>6. ASSUME Offset % Span = 0, NEW s \in DOMAIN spent', InWindow(s)'
      PROVE  In(buckets, s)' = spent'[s] + Reserved(At(live, s))'
  <2> DEFINE more == IF s = StartOf(now) THEN n ELSE 0
             S == At(L, s)
  <2>1. s \in DOMAIN spent /\ InWindow(s) /\ spent[s] \in Nat /\ more \in Nat
    BY <1>1, <1>4, <1>6, Starts DEF InWindow
  <2>2. In(Charged(B, n), s) = In(B, s) + more
    BY <1>1, <1>6, <2>1, ChargeIs DEF Fine
  <2>3. In(B, s) = spent[s] + Reserved(S)
    BY <1>6, <2>1 DEF Fine, InBalance
  <2>4. In(buckets, s)' = In(Charged(B, n), s)
    BY DEF In, SlotOf
  <2>5. S \in SUBSET live /\ IsFiniteSet(S) /\ Reserved(S) \in Nat /\ \A r \in S : held'[r] = held[r]
    BY <1>1, ReservedIs DEF At, Account
  <2> HIDE DEF S, more
  <2>6. SumFunction([r \in S |-> held'[r].tokens]) = Reserved(S)
    <3>1. [r \in S |-> held'[r].tokens] = [r \in S |-> held[r].tokens]
      BY <2>5
    <3> QED BY <3>1 DEF Reserved
  <2>7. CASE spent' = [spent EXCEPT ![StartOf(now)] = @ + n] /\ live' = L
    <3>1. At(live, s)' = S
      BY <2>7 DEF At, S
    <3>2. Reserved(At(live, s))' = Reserved(S)
      BY <2>6, <3>1 DEF Reserved
    <3>3. spent'[s] = spent[s] + more
      BY <1>4, <2>1, <2>7 DEF more
    <3> QED BY <2>1, <2>2, <2>3, <2>4, <2>5, <3>2, <3>3
  <2>8. ASSUME UNCHANGED spent, NEW r \in Requests \ L, live' = L \cup {r},
               held'[r].tokens = n, held'[r].start = StartOf(now)
        PROVE  In(buckets, s)' = spent'[s] + Reserved(At(live, s))'
    <3>1. r \notin S
      BY DEF S, At
    <3>2. CASE s = StartOf(now)
      <4>1. At(live, s)' = S \cup {r}
        BY <2>5, <2>8, <3>2 DEF At, S
      <4> DEFINE f == [q \in S \cup {r} |-> held'[q].tokens]
                 g == [q \in S |-> held'[q].tokens]
      <4>2. \A q \in S : f[q] = g[q]
        OBVIOUS
      <4>3. DOMAIN f = S \cup {r} /\ DOMAIN g = S /\ f[r] = n
        BY <2>8
      <4>4. \A q \in S \cup {r} : f[q] \in Nat
        <5>1. \A q \in S : held'[q].tokens \in Nat
          <6> SUFFICES ASSUME NEW q \in S PROVE held'[q].tokens \in Nat
            OBVIOUS
          <6>1. q \in live /\ held'[q] = held[q]
            BY <2>5
          <6>2. held[q].tokens \in Nat
            BY <6>1, TokensNat DEF Account, Held, Tokens
          <6> QED BY <6>1, <6>2
        <5> QED BY <2>8, <5>1
      <4>5. Reserved(At(live, s))' = SumFunction(f)
        BY <4>1 DEF Reserved
      <4>6. SumFunction(f) = SumFunctionOnSet(f, S \cup {r}) /\ SumFunction(g) = SumFunctionOnSet(g, S)
        BY <4>3 DEF SumFunction
      <4> HIDE DEF f
      <4>7. SumFunctionOnSet(f, S \cup {r}) = n + SumFunctionOnSet(f, S)
        BY <2>5, <3>1, <4>3, <4>4, SumAdds
      <4>8. SumFunctionOnSet(f, S) = SumFunctionOnSet(g, S)
        <5> HIDE DEF g
        <5> QED BY <2>5, <4>2, SumSame
      <4>9. SumFunctionOnSet(g, S) = Reserved(S)
        BY <2>6, <4>6
      <4>10. Reserved(At(live, s))' = n + Reserved(S)
        BY <4>5, <4>6, <4>7, <4>8, <4>9
      <4>11. more = n
        BY <3>2 DEF more
      <4> HIDE DEF g
      <4> QED BY <2>1, <2>2, <2>3, <2>4, <2>5, <2>8, <4>10, <4>11
    <3>3. CASE s # StartOf(now)
      <4>1. At(live, s)' = S
        BY <2>5, <2>8, <3>3 DEF At, S
      <4>2. Reserved(At(live, s))' = Reserved(S)
        BY <2>6, <4>1 DEF Reserved
      <4>3. more = 0
        BY <3>3 DEF more
      <4> QED BY <2>1, <2>2, <2>3, <2>4, <2>5, <2>8, <4>2, <4>3
    <3> QED BY <3>2, <3>3
  <2> QED BY <2>7, <2>8
<1> QED BY <1>3, <1>5, <1>6 DEF Fine, InBalance

LEMMA CommitAccounts ==
  ASSUME Account, NEW r \in live, NEW actual \in 0 .. held[r].tokens + Overrun, Commit(r, actual)
  PROVE  Books' /\ Fine(buckets, live)'
<1>1. Fine(Refunded(buckets, {r}), live \ {r})
  BY RefundFine
<1>2. actual \in Nat
  OBVIOUS
<1>3. \A q \in live \ {r} : held'[q] = held[q]
  BY DEF Account, Held, Commit, Forget
<1>4. live \ {r} \subseteq live
  OBVIOUS
<1> QED BY <1>1, <1>2, <1>3, <1>4, ChargeAccounts DEF Commit, Settle

LEMMA ReserveAccounts ==
  ASSUME Account, NEW r \in Requests, NEW n \in Amounts, Reserve(r, n)
  PROVE  Books' /\ Fine(buckets, live)'
<1>1. Fine(Looked(Left), Rest) /\ Rest \subseteq live
  BY SweptFine
<1>2. r \notin live
  BY DEF Account, Held, Reserve
<1>3. n \in Nat
  BY LimiterAssumption
<1>4. \A q \in Rest : held'[q] = held[q]
  BY <1>1, <1>2 DEF Account, Held, Reserve
<1>5. held'[r].tokens = n /\ held'[r].start = StartOf(now)
  BY DEF Account, Held, Reserve
<1>6. r \in Requests \ Rest
  BY <1>1, <1>2
<1> QED BY <1>1, <1>3, <1>4, <1>5, <1>6, ChargeAccounts DEF Reserve

LEMMA NextAccounts == Account /\ [Next]_vars => Account'
<1> SUFFICES ASSUME Account, [Next]_vars PROVE Account'
  OBVIOUS
<1>1. Held'
  BY NextHeld DEF Account
<1>2. SUFFICES Books' /\ Fine(buckets, live)'
  BY <1>1 DEF Account
<1>3. ASSUME NEW r \in Requests, NEW n \in Amounts, Reserve(r, n)
      PROVE  Books' /\ Fine(buckets, live)'
  BY <1>3, ReserveAccounts
<1>4. ASSUME NEW r \in Requests, NEW n \in Amounts, TooMany(r, n)
      PROVE  Books' /\ Fine(buckets, live)'
  BY <1>4, SweepAccounts DEF TooMany
<1>5. ASSUME NEW r \in Requests, Release(r) \/ SettleLate(r)
      PROVE  Books' /\ Fine(buckets, live)'
  BY <1>5, ReleaseAccounts, SettleLateAccounts
<1>6. ASSUME NEW r \in live, NEW actual \in 0 .. held[r].tokens + Overrun, Commit(r, actual)
      PROVE  Books' /\ Fine(buckets, live)'
  BY <1>6, CommitAccounts
<1>7. CASE Sweep
  BY <1>7, SweepAccounts DEF Sweep
<1>8. CASE Snapshot \/ Tick
  BY <1>8, SnapshotAccounts, TickAccounts
<1>9. CASE UNCHANGED vars
  BY <1>9, LiveFinite, AfterFine DEF vars, Account
<1> QED BY <1>3, <1>4, <1>5, <1>6, <1>7, <1>8, <1>9 DEF Next

\* inflight is the number of reservations on the books and stays within
\* MaxConcurrent, however Reserve, Commit, Release and the sweeps interleave;
\* no bucket charge writes (window.go:165) is of the future.
THEOREM LimiterInvariant == Spec => []IInv
  <1>1. Init => Account
    BY InitHeld, InitAccount DEF Account
  <1>2. Account => IInv
    BY DEF Account, IInv
  <1> QED BY <1>1, <1>2, NextAccounts, PTL DEF Spec

\* Where Truncate agrees with the slots, refund's clamp at 0 and its early return
\* on another start (window.go:176) never lose a token: each bucket of the window
\* holds what was committed to it and what is reserved in it, and nothing else.
THEOREM LimiterBalance ==
  ASSUME Offset % Span = 0
  PROVE  Spec => []Balance
  <1>1. Init => Account
    BY InitHeld, InitAccount DEF Account
  <1>2. Account => Balance
    BY BalanceIs DEF Account, Fine
  <1> QED BY <1>1, <1>2, NextAccounts, PTL DEF Spec

(***************************************************************************)
(* Reserve compares the quota with what lies in the buckets of the window: *)
(* that is all that was committed in it and all that is reserved in it.    *)
(***************************************************************************)
\* Nothing but Reserve puts a reservation on the books.
LEMMA OnlyReserveAdmits ==
  ASSUME Held, Next, NEW r \in Requests, r \notin live, r \in live'
  PROVE  \E n \in Amounts : Reserve(r, n)
<1>1. ASSUME NEW p \in Requests, NEW n \in Amounts, TooMany(p, n) PROVE FALSE
  BY <1>1 DEF TooMany, Rest
<1>2. ASSUME NEW p \in Requests, Release(p) \/ SettleLate(p) PROVE FALSE
  BY <1>2 DEF Release, SettleLate, Settle
<1>3. ASSUME NEW p \in live, NEW actual \in 0 .. held[p].tokens + Overrun, Commit(p, actual)
      PROVE  FALSE
  BY <1>3 DEF Commit, Settle
<1>4. ~Sweep /\ ~Snapshot /\ ~Tick
  BY DEF Sweep, Snapshot, Tick, Rest
<1>5. \E p \in Requests : \E n \in Amounts : Reserve(p, n)
  BY <1>1, <1>2, <1>3, <1>4 DEF Next
<1>6. ASSUME NEW p \in Requests, NEW n \in Amounts, Reserve(p, n) PROVE p = r
  BY <1>6 DEF Reserve, Rest
<1> QED BY <1>5, <1>6

(***************************************************************************)
(* What an admission adds to the use of the window.                        *)
(***************************************************************************)
Counted(B)   == {k \in Slots : InWindow(B[k].start)}
Lies(B)   == [k \in Slots |-> B[k].tokens]

LEMMA UsedIs ==
  ASSUME NEW B, WellFormed(B)
  PROVE  /\ Used(B) = SumFunctionOnSet(Lies(B), Counted(B)) /\ Used(B) \in Nat
         /\ IsFiniteSet(Counted(B)) /\ \A k \in Slots : Lies(B)[k] \in Nat
<1>1. Counted(B) \in SUBSET Slots
  BY DEF Counted
<1>2. \A k \in Slots : Lies(B)[k] \in Nat
  BY DEF Lies, WellFormed
<1> QED BY <1>1, <1>2, LyingIs DEF Used, Counted, Lies

\* Dropping what has left the window changes nothing of its use.
LEMMA UsedCleared ==
  ASSUME Books, now \in Nat, NEW B, WellFormed(B)
  PROVE  Used(Cleared(B)) = Used(B)
<1> DEFINE C == Cleared(B)
<1>1. /\ WellFormed(C) /\ Empty.start = 0
      /\ \A k \in Slots : C[k] = (IF InWindow(B[k].start) THEN B[k] ELSE Empty)
  BY ClearDrops
<1> HIDE DEF C
<1>2. ~InWindow(0)
  <2>1. Window \in Nat
    BY LimiterAssumption DEF Window
  <2> QED BY <2>1 DEF InWindow, Books
<1>3. Counted(C) = Counted(B)
  BY <1>1, <1>2 DEF Counted
<1>4. \A k \in Counted(B) : Lies(C)[k] = Lies(B)[k]
  BY <1>1 DEF Counted, Lies
<1>5. SumFunctionOnSet(Lies(C), Counted(B)) = SumFunctionOnSet(Lies(B), Counted(B))
  BY <1>4, UsedIs, SumSame
<1>6. Used(C) = Used(B)
  BY <1>1, <1>3, <1>5, UsedIs
<1> QED BY <1>6 DEF C

\* A charge of n adds at most n: it adds n to the bucket of now, or takes the
\* place of what its slot held.
LEMMA UsedCharged ==
  ASSUME Books, now \in Nat, NEW B, WellFormed(B), NEW n \in Nat
  PROVE  Used(Charged(B, n)) <= Used(B) + n
<1> DEFINE C == Charged(B, n)
           j == SlotOf(now)
           t == StartOf(now)
           T == Counted(B) \ {j}
<1>1. /\ WellFormed(C) /\ \A k \in Slots : k # j => C[k] = B[k]
      /\ C[j].start = t /\ C[j].tokens = n + (IF B[j].start = t THEN B[j].tokens ELSE 0)
  BY ChargeWellFormed
<1>2. j \in Slots /\ InWindow(t)
  BY NowIsIn
<1> HIDE DEF C, j, t
<1>3. /\ IsFiniteSet(Counted(B)) /\ IsFiniteSet(Counted(C)) /\ IsFiniteSet(T)
      /\ T \subseteq Slots /\ Counted(B) \subseteq Slots /\ Counted(C) \subseteq Slots
  BY <1>1, UsedIs, FS_Subset DEF Counted
<1>4. j \in Counted(C) /\ Counted(C) \ {j} = T
  BY <1>1, <1>2 DEF Counted
<1>5. \A k \in T : Lies(C)[k] = Lies(B)[k]
  BY <1>1, <1>3 DEF Lies
<1>6. (\A k \in Slots : Lies(C)[k] \in Nat) /\ (\A k \in Slots : Lies(B)[k] \in Nat)
  BY <1>1, UsedIs
<1> DEFINE remainder == SumFunctionOnSet(Lies(B), T)
<1>7. SumFunctionOnSet(Lies(C), T) = remainder
  BY <1>3, <1>5, SumSame
<1>8. remainder \in Nat
  BY <1>3, <1>6, SumIsNat
<1> HIDE DEF T, remainder
<1>9. SumFunctionOnSet(Lies(C), Counted(C)) = Lies(C)[j] + remainder
  <2>1. SumFunctionOnSet(Lies(C), Counted(C)) = Lies(C)[j] + SumFunctionOnSet(Lies(C), Counted(C) \ {j})
    BY <1>3, <1>4, <1>6, SumTakes
  <2> QED BY <2>1, <1>4, <1>7
<1>10. j \in Counted(B) => SumFunctionOnSet(Lies(B), Counted(B)) = Lies(B)[j] + remainder
  <2>1. SUFFICES ASSUME j \in Counted(B)
                 PROVE  SumFunctionOnSet(Lies(B), Counted(B)) = Lies(B)[j] + remainder
    OBVIOUS
  <2>2. SumFunctionOnSet(Lies(B), Counted(B)) = Lies(B)[j] + SumFunctionOnSet(Lies(B), Counted(B) \ {j})
    BY <1>3, <1>6, <2>1, SumTakes
  <2> QED BY <2>2 DEF T, remainder
<1>11. j \notin Counted(B) => SumFunctionOnSet(Lies(B), Counted(B)) = remainder
  <2>1. j \notin Counted(B) => T = Counted(B)
    BY DEF T
  <2> QED BY <2>1 DEF remainder
<1>12. B[j].start = t => j \in Counted(B)
  BY <1>2 DEF Counted
<1>13. /\ Lies(C)[j] = n + (IF B[j].start = t THEN B[j].tokens ELSE 0)
       /\ Lies(B)[j] = B[j].tokens /\ Lies(B)[j] \in Nat
  BY <1>1, <1>2, <1>6 DEF Lies
<1>14. Used(C) = Lies(C)[j] + remainder /\ Used(B) = SumFunctionOnSet(Lies(B), Counted(B))
  BY <1>1, <1>9, UsedIs
<1> DEFINE cj == Lies(C)[j]
           bj == Lies(B)[j]
           sb == SumFunctionOnSet(Lies(B), Counted(B))
<1>15. /\ cj \in Nat /\ bj \in Nat /\ remainder \in Nat
       /\ cj = n + (IF B[j].start = t THEN bj ELSE 0)
       /\ j \in Counted(B) => sb = bj + remainder
       /\ j \notin Counted(B) => sb = remainder
       /\ B[j].start = t => j \in Counted(B)
  BY <1>2, <1>6, <1>8, <1>10, <1>11, <1>12, <1>13
<1>16. Used(C) = cj + remainder /\ Used(B) = sb
  BY <1>14
<1> HIDE DEF cj, bj, sb
<1>17. Used(C) <= Used(B) + n
  BY <1>15, <1>16
<1> QED BY <1>17 DEF C

\* What lies in the buckets with a start in T is what was committed and what is
\* reserved at those starts.
Lodged(T) == {r \in live : held[r].start \in T}
Kept(T)   == {k \in Slots : buckets[k].start \in T}
LEMMA WindowAdds ==
  ASSUME Offset % Span = 0, Account, NEW W, W = {s \in DOMAIN spent : InWindow(s)}
  PROVE  SumFunctionOnSet(spent, W) + Reserved(Lodged(W)) = SumFunctionOnSet(Lies(buckets), Kept(W))
<1> DEFINE Adding(T) == SumFunctionOnSet(spent, T) + Reserved(Lodged(T)) = SumFunctionOnSet(Lies(buckets), Kept(T))
           Q == {T \in SUBSET W : ~Adding(T)}
<1>1. SUFFICES ASSUME Q # {} PROVE FALSE
  OBVIOUS
<1>2. Q \in SUBSET (SUBSET W)
  OBVIOUS
<1>3. IsFiniteSet(W)
  <2>1. IsFiniteSet(1 .. MaxTime) /\ W \subseteq 1 .. MaxTime
    BY LimiterAssumption, FS_Interval DEF Account, Books
  <2> QED BY <2>1, FS_Subset
<1> HIDE DEF Q
<1>4. PICK T \in Q : \A U \in Q : ~(U \subseteq T /\ U # T)
  BY ONLY <1>1, <1>2, <1>3, MinimalSubset
<1> USE DEF Q
<1>5. T \subseteq W /\ IsFiniteSet(T) /\ \A s \in T : s \in DOMAIN spent /\ InWindow(s) /\ spent[s] \in Nat
  <2>1. T \subseteq W
    OBVIOUS
  <2> QED BY <1>3, <2>1, FS_Subset, Starts DEF Account
<1>6. WellFormed(buckets) /\ Aligned(buckets) /\ InBalance(buckets, live)
  BY DEF Account, Fine
<1>7. T # {}
  <2>1. SUFFICES ASSUME T = {} PROVE Adding(T)
    OBVIOUS
  <2>2. Lodged(T) = {} /\ Kept(T) = {}
    BY <2>1 DEF Lodged, Kept
  <2>3. SumFunctionOnSet(spent, {}) = 0 /\ SumFunctionOnSet(Lies(buckets), {}) = 0
    BY SumStep, FS_EmptySet
  <2>4. /\ SumFunctionOnSet(spent, T) = 0 /\ Reserved(Lodged(T)) = 0
        /\ SumFunctionOnSet(Lies(buckets), Kept(T)) = 0
    BY <2>1, <2>2, <2>3, ReservedNone
  <2> HIDE DEF Q
  <2> QED BY <2>4
<1>8. PICK s \in T : TRUE
  BY <1>7
<1> DEFINE S == T \ {s}
           j == SlotOf(s)
<1>9. S \in SUBSET W /\ S # T /\ S \subseteq T
  BY <1>5
<1>10. Adding(S)
  BY <1>4, <1>9
<1>11. SumFunctionOnSet(spent, T) = spent[s] + SumFunctionOnSet(spent, S) /\ SumFunctionOnSet(spent, S) \in Nat
  <2>1. SumFunctionOnSet(spent, T) = spent[s] + SumFunctionOnSet(spent, T \ {s})
    BY ONLY <1>5, <1>8, SumTakes
  <2>2. IsFiniteSet(S) /\ \A x \in S : spent[x] \in Nat
    BY <1>5, FS_Subset
  <2> HIDE DEF S
  <2>3. SumFunctionOnSet(spent, S) \in Nat
    BY <2>2, SumIsNat
  <2> QED BY <2>1, <2>3 DEF S
<1>12. Reserved(Lodged(T)) = Reserved(At(live, s)) + Reserved(Lodged(S))
       /\ Reserved(At(live, s)) \in Nat /\ Reserved(Lodged(S)) \in Nat
  <2>1. /\ Lodged(T) \in SUBSET live /\ Lodged(S) \in SUBSET live /\ At(live, s) \in SUBSET Lodged(T)
        /\ At(live, s) \in SUBSET live /\ Lodged(T) \ At(live, s) = Lodged(S)
    BY <1>8 DEF Lodged, At
  <2>2. \A r \in Lodged(T) : Tokens[r] \in Nat
    BY <2>1, ReservedIs, TokensNat DEF Account
  <2>3. SumFunctionOnSet(Tokens, Lodged(T)) =
          SumFunctionOnSet(Tokens, At(live, s)) + SumFunctionOnSet(Tokens, Lodged(T) \ At(live, s))
    <3>1. IsFiniteSet(Lodged(T))
      BY <2>1, ReservedIs DEF Account
    <3> QED BY ONLY <2>1, <2>2, <3>1, SumSplits
  <2> QED BY <2>1, <2>3, ReservedIs DEF Account
<1>13. SumFunctionOnSet(Lies(buckets), Kept(T)) = In(buckets, s) + SumFunctionOnSet(Lies(buckets), Kept(S))
  <2>1. s \in Nat \ {0} /\ j \in Slots
    BY <1>5, Starts DEF Account
  <2>2. IsFiniteSet(Kept(T)) /\ IsFiniteSet(Kept(S)) /\ \A k \in Kept(T) : Lies(buckets)[k] \in Nat
    <3>1. Kept(T) \in SUBSET Slots /\ Kept(S) \in SUBSET Slots
      BY DEF Kept
    <3> QED BY <1>6, <3>1, LyingIs DEF Lies
  <2>3. \A k \in Slots : k # j => buckets[k].start # s
    BY <1>6, <2>1 DEF Aligned
  <2>4. CASE buckets[j].start = s
    <3>1. j \in Kept(T) /\ Kept(T) \ {j} = Kept(S)
      BY <1>8, <2>1, <2>3, <2>4 DEF Kept
    <3>2. SumFunctionOnSet(Lies(buckets), Kept(T)) = Lies(buckets)[j] + SumFunctionOnSet(Lies(buckets), Kept(T) \ {j})
      BY ONLY <2>2, <3>1, SumTakes
    <3>3. Lies(buckets)[j] = In(buckets, s)
      BY <2>1, <2>4 DEF Lies, In
    <3> QED BY <3>1, <3>2, <3>3
  <2>5. CASE buckets[j].start # s
    <3>1. Kept(T) = Kept(S)
      BY <1>8, <2>3, <2>5 DEF Kept
    <3>2. In(buckets, s) = 0
      BY <2>5 DEF In
    <3>3. SumFunctionOnSet(Lies(buckets), Kept(S)) \in Nat
      BY <2>2, <3>1, SumIsNat
    <3> QED BY <3>1, <3>2, <3>3
  <2> QED BY <2>4, <2>5
<1>14. In(buckets, s) = spent[s] + Reserved(At(live, s))
  BY <1>5, <1>6 DEF InBalance
<1>15. spent[s] \in Nat
  BY <1>5
<1> DEFINE x1 == SumFunctionOnSet(spent, S)
           x2 == Reserved(At(live, s))
           x3 == Reserved(Lodged(S))
           x4 == spent[s]
<1>16. Adding(T)
  <2>1. x1 \in Nat /\ x2 \in Nat /\ x3 \in Nat /\ x4 \in Nat
    BY <1>11, <1>12, <1>15
  <2>2. /\ SumFunctionOnSet(spent, T) = x4 + x1 /\ Reserved(Lodged(T)) = x2 + x3
        /\ SumFunctionOnSet(Lies(buckets), Kept(T)) = (x4 + x2) + (x1 + x3)
    BY <1>10, <1>11, <1>12, <1>13, <1>14
  <2> HIDE DEF x1, x2, x3, x4, S
  <2> QED BY <2>1, <2>2
<1> QED BY <1>16

\* Within the bound of the clock the window has no other starts.
LEMMA ClaimedIsUsed ==
  ASSUME Offset % Span = 0, Account, now <= MaxTime
  PROVE  Claimed = Used(buckets)
<1> DEFINE W == {s \in DOMAIN spent : InWindow(s)}
<1>1. SumFunctionOnSet(spent, W) + Reserved(Lodged(W)) = SumFunctionOnSet(Lies(buckets), Kept(W))
  BY WindowAdds
<1>2. now \in Nat /\ now >= Window /\ Window \in Nat /\ DOMAIN spent = 1 .. MaxTime /\ MaxTime \in Nat
  BY LimiterAssumption DEF Account, Held, Books, Window
<1>3. \A s \in Int : InWindow(s) /\ s <= now => s \in W
  BY <1>2 DEF InWindow
<1>4. Kept(W) = Counted(buckets)
  <2>1. \A k \in Slots : buckets[k].start \in Nat /\ buckets[k].start <= now
    BY DEF Account, Fine, WellFormed
  <2> QED BY <1>3, <2>1 DEF Kept, Counted
<1>5. Lodged(W) = live \ Stale
  <2>1. ASSUME NEW r \in live PROVE held[r].start \in Int /\ held[r].start <= now
    <3>1. held[r] \in Reservations /\ held[r].start = StartOf(held[r].issued)
      BY DEF Account, Held
    <3>2. held[r].issued \in Nat /\ held[r].issued <= now
      BY <1>2, <3>1 DEF Reservations
    <3> QED BY <1>2, <3>1, <3>2, StartOfTime
  <2> QED BY <1>3, <2>1 DEF Lodged, Stale
<1>6. Used(buckets) = SumFunctionOnSet(Lies(buckets), Counted(buckets))
  BY UsedIs DEF Account, Fine
<1> HIDE DEF W
<1>7. Claimed = SumFunctionOnSet(spent, W) + Reserved(live \ Stale)
  BY DEF Claimed, W
<1> QED BY <1>1, <1>4, <1>5, <1>6, <1>7

\* Where Truncate agrees with the slots, and whatever the time to live of a reservation:
\* on an admission all that was committed in the window and all that is reserved in it
\* fit the quota Reserve compares with (window.go:239).
THEOREM LimiterQuotaKept ==
  ASSUME Offset % Span = 0
  PROVE  Spec => QuotaKept
<1> DEFINE Timed == Account /\ now <= MaxTime
<1>1. Timed /\ [Next]_vars => Timed'
  <2>1. SUFFICES ASSUME Timed, [Next]_vars PROVE now' <= MaxTime
    BY NextAccounts
  <2>2. now' = now \/ Tick
    BY <2>1 DEF Next, vars, Reserve, TooMany, Release, SettleLate, Commit, Sweep, Snapshot
  <2>3. Tick => now' <= MaxTime
    BY <2>1, LimiterAssumption DEF Tick, Account, Held
  <2> QED BY <2>1, <2>2, <2>3
<1>2. ASSUME Timed, Timed', Next, NEW r \in Requests, r \notin live, r \in live', TokensPerWindow # 0
      PROVE  Claimed' <= TokensPerWindow
  <2>1. PICK n \in Amounts : Reserve(r, n)
    BY <1>2, OnlyReserveAdmits DEF Account
  <2>2. now \in Nat /\ n \in Nat /\ TokensPerWindow \in Nat /\ Books
    BY LimiterAssumption, <1>2 DEF Account, Held
  <2>3. WellFormed(Left) /\ WellFormed(Cleared(Left))
    BY <1>2, SweptFine DEF Fine
  <2>4. Looked(Left) = Cleared(Left) /\ Used(Left) + n <= TokensPerWindow
    BY <1>2, <2>1 DEF Reserve, HasQuota, Looked
  <2>5. buckets' = Charged(Cleared(Left), n) /\ now' = now
    BY <2>1, <2>4 DEF Reserve
  <2>6. Used(Charged(Cleared(Left), n)) <= Used(Cleared(Left)) + n
    BY <2>2, <2>3, UsedCharged
  <2>7. Used(Cleared(Left)) = Used(Left)
    BY <2>2, <2>3, UsedCleared
  <2>8. Used(buckets)' = Used(Charged(Cleared(Left), n))
    BY <2>5 DEF Used, Lying, InWindow
  <2>9. Used(Left) \in Nat /\ Used(Charged(Cleared(Left), n)) \in Nat
    BY <2>2, <2>3, ChargeWellFormed, UsedIs
  <2>10. (Claimed = Used(buckets))'
    BY <1>2, ClaimedIsUsed, PTL
  <2> DEFINE u == Used(Charged(Cleared(Left), n))
             v == Used(Left)
  <2>11. Claimed' = u
    BY <2>8, <2>10
  <2>12. u \in Nat /\ v \in Nat /\ u <= v + n /\ v + n <= TokensPerWindow
    BY <2>4, <2>6, <2>7, <2>9
  <2> HIDE DEF u, v
  <2> QED BY <2>2, <2>11, <2>12
<1>3. Timed /\ Timed' /\ [Next]_vars =>
        [\A r \in Requests : r \notin live /\ r \in live' /\ TokensPerWindow # 0 => Claimed' <= TokensPerWindow]_vars
  BY <1>2 DEF vars
<1>4. Init => Timed
  <2>1. Init => now <= MaxTime
    BY LimiterAssumption DEF Init, Window
  <2> QED BY <2>1, InitHeld, InitAccount DEF Account
<1> HIDE DEF Timed
<1> QED BY <1>1, <1>3, <1>4, PTL DEF Spec, QuotaKept

(***************************************************************************)
(* The process that stops (Lifecycle).                                     *)
(***************************************************************************)
Places == {"idle", "gated", "in", "charged", "signal"}

\* Lifecycle's Cardinality is the one the library's theorems are about.
LEMMA ProcessCardinality == \A S : Process!Cardinality(S) = Cardinality(S)
  BY DEF Process!Cardinality, Cardinality

LEMMA CountedFinite == IsFiniteSet(Process!Counted) /\ Process!Counted \subseteq Handlers
  BY ServicesAssumption, FS_Subset DEF Process!Counted

\* A request that moves is counted from Enter on, and not after Done.
LEMMA MoveCounts ==
  ASSUME Process!TypeOK, total = Process!Cardinality(Process!Counted),
         NEW r \in Handlers, NEW there \in Places, Process!Move(r, there)
  PROVE  /\ at' \in [Handlers -> Places] /\ total \in Nat
         /\ Process!Counted' = IF there \in {"in", "charged"} THEN Process!Counted \cup {r}
                                                             ELSE Process!Counted \ {r}
         /\ r \in Process!Counted <=> at[r] \in {"in", "charged"}
         /\ Process!Cardinality(Process!Counted)' = CASE
              there \in {"in", "charged"} /\ r \notin Process!Counted -> total + 1
              [] there \notin {"in", "charged"} /\ r \in Process!Counted -> total - 1
              [] OTHER -> total
<1>1. at' = [at EXCEPT ![r] = there] /\ at \in [Handlers -> Places]
  BY DEF Process!Move, Process!TypeOK, Places
<1>2. at' \in [Handlers -> Places]
  BY <1>1
<1>3. Process!Counted' = IF there \in {"in", "charged"} THEN Process!Counted \cup {r}
                                                       ELSE Process!Counted \ {r}
  BY <1>1 DEF Process!Counted
<1>4. r \in Process!Counted <=> at[r] \in {"in", "charged"}
  BY DEF Process!Counted
<1>5. total = Cardinality(Process!Counted) /\ total \in Nat
  BY ProcessCardinality, CountedFinite, FS_CardinalityType
<1>6. /\ Cardinality(Process!Counted \cup {r}) =
           IF r \in Process!Counted THEN total ELSE total + 1
      /\ Cardinality(Process!Counted \ {r}) =
           IF r \in Process!Counted THEN total - 1 ELSE total
  BY <1>5, CountedFinite, FS_AddElement, FS_RemoveElement
<1>7. Process!Cardinality(Process!Counted') = Cardinality(Process!Counted')
  BY ProcessCardinality
<1> QED BY <1>2, <1>3, <1>4, <1>5, <1>6, <1>7

\* What a step of a request may do.
LEMMA RequestStep ==
  ASSUME Process!IInv, NEW r \in Handlers, Process!Request(r)
  PROVE  /\ UNCHANGED <<phase, job, polls, graceful, runs, tmp, file, old, snap, clean>>
         /\ job # "down" /\ at' \in [Handlers -> Places] /\ zero' \in BOOLEAN
         /\ late \subseteq late' /\ late' \subseteq Handlers
         /\ total' = Process!Cardinality(Process!Counted)'
         /\ Process!Counted' \subseteq Process!Counted \cup late' \/ phase \in {0, 1}
         /\ \/ UNCHANGED <<budget, truth>>
            \/ budget' = budget + 1 /\ truth' = truth + 1 /\ Process!Counted # {}
<1> USE DEF Process!server, Process!disk, Process!ledger
<1>1. total = Process!Cardinality(Process!Counted) /\ Process!TypeOK
  BY DEF Process!IInv, Process!CountHolds
<1>2. late \subseteq Handlers /\ zero \in BOOLEAN
  BY <1>1 DEF Process!TypeOK
<1>3. at[r] = "idle" \/ job # "down"
  BY DEF Process!IInv, Process!CountHolds
<1>4. CASE Process!Arrive(r) \/ Process!BadBody(r)
  <2>1. \E there \in {"idle", "gated"} : Process!Move(r, there)
    BY <1>4 DEF Process!Arrive, Process!BadBody
  <2>2. /\ job # "down" /\ at[r] \notin {"in", "charged"} /\ total' = total
        /\ UNCHANGED <<phase, job, polls, zero, graceful, runs, tmp, file, old, snap, clean, late,
                       budget, truth>>
    BY <1>3, <1>4 DEF Process!Arrive, Process!BadBody
  <2> QED BY <1>1, <1>2, <2>1, <2>2, MoveCounts DEF Places
<1>5. CASE Process!Enter(r)
  <2>1. /\ Process!Move(r, "in") /\ at[r] = "gated" /\ total' = total + 1
        /\ late' = IF phase \in {0, 1} THEN late ELSE late \cup {r}
        /\ UNCHANGED <<phase, job, polls, zero, graceful, runs, tmp, file, old, snap, clean,
                       budget, truth>>
    BY <1>5 DEF Process!Enter, Process!AcceptingNew
  <2> QED BY <1>1, <1>2, <1>3, <2>1, MoveCounts DEF Places
<1>6. CASE Process!Charge(r)
  <2>1. /\ Process!Move(r, "charged") /\ at[r] = "in" /\ total' = total
        /\ budget' = budget + 1 /\ truth' = truth + 1
        /\ UNCHANGED <<phase, job, polls, zero, graceful, runs, tmp, file, old, snap, clean, late>>
    BY <1>6 DEF Process!Charge
  <2> QED BY <1>1, <1>2, <1>3, <2>1, MoveCounts DEF Places
<1>7. CASE Process!Leave(r)
  <2>1. /\ \E there \in {"signal", "idle"} : Process!Move(r, there)
        /\ at[r] \in {"in", "charged"} /\ total' = total - 1
        /\ UNCHANGED <<phase, job, polls, zero, graceful, runs, tmp, file, old, snap, clean, late,
                       budget, truth>>
    BY <1>7 DEF Process!Leave, Process!Uncounted
  <2> QED BY <1>1, <1>2, <1>3, <2>1, MoveCounts DEF Places
<1>8. CASE Process!SignalZero(r)
  <2>1. /\ Process!Move(r, "idle") /\ at[r] = "signal" /\ total' = total /\ zero' = TRUE
        /\ UNCHANGED <<phase, job, polls, graceful, runs, tmp, file, old, snap, clean, late,
                       budget, truth>>
    BY <1>8 DEF Process!SignalZero
  <2> QED BY <1>1, <1>2, <1>3, <2>1, MoveCounts DEF Places
<1> QED BY <1>4, <1>5, <1>6, <1>7, <1>8 DEF Process!Request

LEMMA RequestKeeps ==
  ASSUME Process!IInv, NEW r \in Handlers, Process!Request(r)
  PROVE  Process!IInv'
<1>1. /\ UNCHANGED <<phase, job, polls, graceful, runs, tmp, file, old, snap, clean>>
      /\ job # "down" /\ at' \in [Handlers -> Places] /\ zero' \in BOOLEAN
      /\ late \subseteq late' /\ late' \subseteq Handlers
      /\ total' = Process!Cardinality(Process!Counted)'
  BY RequestStep
<1>2. Process!Counted' \subseteq Process!Counted \cup late' \/ phase \in {0, 1}
  BY RequestStep
<1>3. \/ UNCHANGED <<budget, truth>>
      \/ budget' = budget + 1 /\ truth' = truth + 1 /\ Process!Counted # {}
  BY RequestStep
<1>4. truth \in Nat /\ budget \in 0 .. truth /\ truth' \in Nat /\ budget' \in 0 .. truth' /\ truth <= truth'
  BY <1>3 DEF Process!IInv, Process!TypeOK
<1>5. Process!TypeOK'
  <2>1. 0 .. truth \subseteq 0 .. truth'
    BY <1>4
  <2>2. Process!Files \subseteq Process!Files'
    BY <2>1 DEF Process!Files
  <2> QED BY <1>1, <1>4, <2>2 DEF Process!IInv, Process!TypeOK, Places, Process!Waits, Process!PastCheck
<1>6. Process!CountHolds' /\ Process!PhaseOfJob'
  BY <1>1 DEF Process!IInv, Process!CountHolds, Process!PhaseOfJob, Process!Waits, Process!PastCheck
<1>7. Process!Settled'
  <2>1. job \in Process!PastCheck => phase = 3
    BY DEF Process!IInv, Process!PhaseOfJob
  <2>2. graceful /\ job \in Process!PastCheck => Process!Counted \subseteq late
    BY DEF Process!IInv, Process!Settled
  <2>3. graceful' /\ job' \in Process!PastCheck' => Process!Counted' \subseteq late'
    BY <1>1, <1>2, <2>1, <2>2 DEF Process!PastCheck
  <2>4. clean' => budget' = truth'
    BY <1>1, <1>3 DEF Process!IInv, Process!Settled
  <2>5. clean' /\ graceful' /\ late' = {} /\ job' \in {"write", "rename", "close"} => truth' = truth
    BY <1>1, <1>3, <2>2 DEF Process!PastCheck
  <2> QED BY <1>1, <2>3, <2>4, <2>5 DEF Process!IInv, Process!Settled
<1> QED BY <1>5, <1>6, <1>7 DEF Process!IInv


\* Run on its way to the check: it looks at the count and waits, no more.
LEMMA WaitKeeps ==
  ASSUME Process!IInv,
         \/ Process!Term \/ Process!Close \/ Process!Look \/ Process!Deadline \/ Process!ResetZero
         \/ Process!LookAgain \/ Process!Woken \/ Process!TimerRan
  PROVE  Process!IInv'
<1> USE DEF Process!Job
<1>1. /\ UNCHANGED <<tmp, file, old, budget, snap, truth, at, late, clean, total, graceful, runs>>
      /\ job \in {"off", "drain", "look", "wait", "armed", "select"}
      /\ job' \in {"drain"} \cup Process!Waits
  BY DEF Process!Term, Process!Close, Process!Look, Process!Deadline, Process!ResetZero,
         Process!LookAgain, Process!Woken, Process!TimerRan, Process!Waiting, Process!disk,
         Process!ledger, Process!Waits
<1>2. phase \in 0 .. 3 /\ polls \in 0 .. Polls /\ Polls \in Nat /\ zero \in BOOLEAN
  BY ServicesAssumption DEF Process!IInv, Process!TypeOK
<1>3. /\ polls' \in 0 .. Polls /\ zero' \in BOOLEAN
      /\ job' \in {"armed", "select"} => polls' > 0
  <2>1. job \in {"armed", "select"} => polls > 0
    BY DEF Process!IInv, Process!PhaseOfJob
  <2>2. CASE Process!Term \/ Process!Close \/ Process!Deadline \/ Process!LookAgain \/ Process!Woken
    <3>1. polls' = polls /\ zero' = zero /\ (job' \in {"armed", "select"} => job = "armed")
      BY <2>2 DEF Process!Term, Process!Close, Process!Deadline, Process!LookAgain, Process!Woken
    <3> QED BY <1>2, <2>1, <3>1
  <2>3. CASE Process!Look
    BY <1>2, <2>3 DEF Process!Look
  <2>4. CASE Process!ResetZero
    BY <1>2, <2>4 DEF Process!ResetZero
  <2>5. CASE Process!TimerRan
    BY <1>2, <2>1, <2>5 DEF Process!TimerRan
  <2> QED BY <2>2, <2>3, <2>4, <2>5
<1>4. phase' \in 0 .. 3 /\ (job' = "drain" => phase' = 1) /\ (job' \in Process!Waits => phase' = 2)
  BY <1>2
  DEF Process!Term, Process!Close, Process!Look, Process!Deadline, Process!ResetZero,
      Process!LookAgain, Process!Woken, Process!TimerRan, Process!IInv, Process!PhaseOfJob,
      Process!Waits, Process!Advance
<1>5. Process!TypeOK'
  BY <1>1, <1>3, <1>4 DEF Process!IInv, Process!TypeOK, Process!Files, Process!Waits, Process!PastCheck
<1>6. Process!CountHolds' /\ Process!PhaseOfJob'
  BY <1>1, <1>3, <1>4
  DEF Process!IInv, Process!CountHolds, Process!Counted, Process!PhaseOfJob, Process!Waits,
      Process!PastCheck
<1>7. Process!Settled'
  BY <1>1 DEF Process!IInv, Process!Settled, Process!Waits, Process!PastCheck
<1> QED BY <1>5, <1>6, <1>7 DEF Process!IInv

\* The end of the wait: who is counted when it was graceful has slipped in.
LEMMA CheckKeeps ==
  ASSUME Process!IInv, Process!Check
  PROVE  Process!IInv'
<1>1. /\ job = "check" /\ job' = "collect" /\ graceful' = (total = 0)
      /\ phase' = IF 3 > phase THEN 3 ELSE phase
      /\ UNCHANGED <<polls, total, zero, runs, tmp, file, old, budget, snap, truth, at, late, clean>>
  BY DEF Process!Check, Process!Job, Process!Advance, Process!disk, Process!ledger
<1>2. phase' = 3
  BY <1>1 DEF Process!IInv, Process!PhaseOfJob, Process!Waits
<1>3. graceful' => Process!Counted' = {}
  <2>1. total = Cardinality(Process!Counted) /\ Process!Counted' = Process!Counted
    BY <1>1, ProcessCardinality DEF Process!IInv, Process!CountHolds, Process!Counted
  <2> QED BY <1>1, <2>1, CountedFinite, FS_EmptySet
<1>4. Process!TypeOK'
  BY <1>1, <1>2 DEF Process!IInv, Process!TypeOK, Process!Files, Process!Waits, Process!PastCheck
<1>5. Process!CountHolds' /\ Process!PhaseOfJob'
  BY <1>1, <1>2
  DEF Process!IInv, Process!CountHolds, Process!Counted, Process!PhaseOfJob, Process!Waits,
      Process!PastCheck
<1>6. Process!Settled'
  BY <1>1, <1>3 DEF Process!IInv, Process!Settled
<1> QED BY <1>4, <1>5, <1>6 DEF Process!IInv

\* The save, in its steps.
LEMMA SaveKeeps ==
  ASSUME Process!IInv,
         Process!Collect \/ Process!SaveFails \/ Process!Write \/ Process!Rename
  PROVE  Process!IInv'
<1> USE DEF Process!Job
<1>1. /\ UNCHANGED <<phase, polls, total, zero, graceful, runs, budget, truth, at, late>>
      /\ job \in {"collect", "write", "rename"} /\ job' \in {"write", "rename", "close"}
      /\ clean' = clean \/ clean' = FALSE
  BY DEF Process!Collect, Process!SaveFails, Process!Write, Process!Rename, Process!ledger
<1>2. /\ snap \in Process!Files /\ tmp \in Process!Files \cup {Half} /\ file \in Process!Files
      /\ budget \in Process!Files /\ (job = "rename" => tmp = snap) /\ Process!Files' = Process!Files
  BY <1>1 DEF Process!IInv, Process!TypeOK, Process!Files, Process!PhaseOfJob
<1>3. /\ snap' \in Process!Files /\ tmp' \in Process!Files \cup {Half} /\ file' \in Process!Files
      /\ old' \in BOOLEAN /\ (job' = "rename" => tmp' = snap')
  <2>1. None \in Process!Files /\ old \in BOOLEAN
    BY DEF Process!Files, Process!IInv, Process!TypeOK
  <2>2. CASE Process!Collect \/ Process!Write
    BY <1>2, <2>1, <2>2 DEF Process!Collect, Process!Write, Process!ledger, Process!disk
  <2>3. CASE Process!SaveFails
    BY <1>2, <2>1, <2>3 DEF Process!SaveFails, Process!ledger
  <2>4. CASE Process!Rename
    BY <1>1, <1>2, <2>1, <2>4 DEF Process!Rename, Process!ledger
  <2> QED BY <2>2, <2>3, <2>4
<1>4. Process!TypeOK'
  BY <1>1, <1>2, <1>3 DEF Process!IInv, Process!TypeOK, Process!PastCheck, Process!Waits
<1>5. Process!CountHolds' /\ Process!PhaseOfJob'
  BY <1>1, <1>3
  DEF Process!IInv, Process!CountHolds, Process!Counted, Process!PhaseOfJob, Process!Waits,
      Process!PastCheck
<1>6. Process!Settled'
  <2>1. graceful' /\ job' \in Process!PastCheck' => Process!Counted' \subseteq late'
    BY <1>1 DEF Process!IInv, Process!Settled, Process!PastCheck, Process!Counted
  <2>2. clean' => clean /\ budget' = truth' /\ job' # "down"
    BY <1>1 DEF Process!IInv, Process!Settled
  <2>3. clean' /\ graceful' /\ late' = {} /\ job' \in {"write", "rename"} => snap' = truth'
    BY <1>1, <2>2
    DEF Process!IInv, Process!Settled, Process!Collect, Process!SaveFails, Process!Write, Process!Rename,
        Process!ledger
  <2>4. clean' /\ graceful' /\ late' = {} /\ job' = "close" => file' = truth' /\ ~old'
    BY <1>1, <1>2, <2>2
    DEF Process!IInv, Process!Settled, Process!Collect, Process!SaveFails, Process!Write, Process!Rename
  <2> QED BY <2>1, <2>2, <2>3, <2>4 DEF Process!Settled
<1> QED BY <1>4, <1>5, <1>6 DEF Process!IInv

\* The end of a process, the hour it may stay down, and the next one.
LEMMA GoneKeeps ==
  ASSUME Process!IInv, Process!Exit \/ Process!Kill
  PROVE  Process!IInv'
<1>1. /\ job' = "down" /\ at' = [r \in Handlers |-> "idle"] /\ total' = 0
      /\ budget' = 0 /\ snap' = None
      /\ UNCHANGED <<phase, polls, zero, graceful, runs, file, old, truth, late>>
  BY DEF Process!Exit, Process!Kill, Process!Gone
<1>2. /\ tmp' = tmp \/ tmp' = Half
      /\ clean' \in BOOLEAN
      /\ clean' => job = "close" /\ clean /\ graceful /\ late = {}
  BY DEF Process!Exit, Process!Kill, Process!IInv, Process!TypeOK
<1>3. Process!TypeOK'
  BY <1>1, <1>2 DEF Process!IInv, Process!TypeOK, Process!Files, Process!Waits, Process!PastCheck
<1>4. Process!CountHolds'
  <2>1. Process!Counted' = {}
    BY <1>1 DEF Process!Counted
  <2>2. Process!Cardinality(Process!Counted') = 0
    BY <2>1, ProcessCardinality, FS_EmptySet
  <2> QED BY <1>1, <2>2 DEF Process!CountHolds
<1>5. Process!PhaseOfJob'
  BY <1>1 DEF Process!PhaseOfJob, Process!Waits, Process!PastCheck
<1>6. Process!Settled'
  BY <1>1, <1>2 DEF Process!IInv, Process!Settled, Process!PastCheck
<1> QED BY <1>3, <1>4, <1>5, <1>6 DEF Process!IInv

LEMMA DownKeeps ==
  ASSUME Process!IInv, Process!HourPasses \/ Process!Restart \/ Process!RestartBlank
  PROVE  Process!IInv'
<1>1. /\ job = "down" /\ UNCHANGED <<total, tmp, file, snap, truth, at>>
      /\ clean' = clean \/ clean' = FALSE
  BY DEF Process!HourPasses, Process!Restart, Process!RestartBlank, Process!Started,
         Process!server, Process!disk, Process!ledger
<1>2. CASE Process!HourPasses
  <2>1. old' = TRUE /\ clean' = FALSE /\ UNCHANGED <<phase, job, polls, zero, graceful, runs, budget, late>>
    BY <1>2 DEF Process!HourPasses, Process!server, Process!ledger
  <2>2. Process!TypeOK'
    BY <1>1, <2>1 DEF Process!IInv, Process!TypeOK, Process!Files
  <2>3. Process!CountHolds' /\ Process!PhaseOfJob'
    BY <1>1, <2>1 DEF Process!IInv, Process!CountHolds, Process!Counted, Process!PhaseOfJob
  <2>4. Process!Settled'
    BY <1>1, <2>1 DEF Process!Settled, Process!PastCheck
  <2> QED BY <2>2, <2>3, <2>4 DEF Process!IInv
<1>3. CASE Process!Restart \/ Process!RestartBlank
  <2>1. /\ job' = "off" /\ phase' = 0 /\ polls' = 0 /\ zero' = FALSE /\ graceful' = TRUE
        /\ late' = {} /\ old' = old
        /\ \/ budget' = (IF file = None \/ old THEN 0 ELSE file) /\ clean' = clean
           \/ budget' = 0 /\ clean' = FALSE
    BY <1>3 DEF Process!Restart, Process!RestartBlank, Process!Started, Process!disk
  <2>2. /\ truth \in Nat /\ file \in {None} \cup 0 .. truth /\ None \notin Nat
        /\ clean => file = truth /\ ~old
    BY <1>1, ServicesAssumption DEF Process!IInv, Process!TypeOK, Process!Files, Process!Settled
  <2>3. budget' \in 0 .. truth /\ (clean' => budget' = truth)
    BY <2>1, <2>2
  <2>4. Process!TypeOK'
    <3>1. Process!Files' = Process!Files /\ Polls \in Nat /\ clean' \in BOOLEAN
      BY <1>1, ServicesAssumption DEF Process!Files, Process!IInv, Process!TypeOK
    <3>2. {zero', graceful', old', clean'} \subseteq BOOLEAN
      <4>1. {FALSE, TRUE, old, clean'} \subseteq BOOLEAN
        BY <3>1 DEF Process!IInv, Process!TypeOK
      <4> QED BY <2>1, <4>1
    <3>3. polls' \in 0 .. Polls /\ phase' \in 0 .. 3
      BY <2>1, <3>1
    <3> QED BY <1>1, <2>1, <2>3, <3>1, <3>2, <3>3
            DEF Process!IInv, Process!TypeOK, Process!Waits, Process!PastCheck
  <2>5. Process!CountHolds' /\ Process!PhaseOfJob'
    BY <1>1, <2>1
    DEF Process!IInv, Process!CountHolds, Process!Counted, Process!PhaseOfJob, Process!Waits,
        Process!PastCheck
  <2>6. Process!Settled'
    BY <1>1, <2>1, <2>3 DEF Process!Settled, Process!PastCheck
  <2> QED BY <2>4, <2>5, <2>6 DEF Process!IInv
<1> QED BY <1>2, <1>3

LEMMA ProcessInit == Process!Init => Process!IInv
<1> SUFFICES ASSUME Process!Init PROVE Process!IInv
  OBVIOUS
<1> USE DEF Process!Init
<1>1. Process!TypeOK
  <2>1. polls \in 0 .. Polls /\ budget \in 0 .. truth /\ None \in Process!Files
    BY ServicesAssumption DEF Process!Files
  <2>2. {zero, graceful, old, clean} \subseteq BOOLEAN
    <3>1. {FALSE, TRUE} \subseteq BOOLEAN
      OBVIOUS
    <3> QED BY <3>1
  <2> QED BY <2>1, <2>2 DEF Process!TypeOK, Process!Waits, Process!PastCheck
<1>2. Process!CountHolds
  <2>1. Process!Counted = {}
    BY DEF Process!Counted
  <2> QED BY <2>1, ProcessCardinality, FS_EmptySet DEF Process!CountHolds
<1>3. Process!PhaseOfJob /\ Process!Settled
  BY DEF Process!PhaseOfJob, Process!Settled, Process!Waits, Process!PastCheck
<1> QED BY <1>1, <1>2, <1>3 DEF Process!IInv

LEMMA ProcessStep == Process!IInv /\ [Process!Next]_(Process!vars) => Process!IInv'
<1> SUFFICES ASSUME Process!IInv, [Process!Next]_(Process!vars) PROVE Process!IInv'
  OBVIOUS
<1>1. CASE UNCHANGED Process!vars
  BY <1>1
  DEF Process!vars, Process!server, Process!disk, Process!ledger, Process!IInv, Process!TypeOK,
      Process!CountHolds, Process!PhaseOfJob, Process!Settled, Process!Counted, Process!Files
<1> QED BY <1>1, RequestKeeps, WaitKeeps, CheckKeeps, SaveKeeps, GoneKeeps, DownKeeps
        DEF Process!Next, Process!ShutdownStep

\* A stop keeps the count, the file and, when it was graceful, saved and in time, every
\* cent the budgets had recorded (shutdown.go, main.go:466), for any requests, polls,
\* processes and kills.
THEOREM ProcessInvariant == Process!Spec => [](Process!IInv /\ Process!BudgetKept)
<1>1. Process!IInv => Process!BudgetKept
  BY DEF Process!IInv, Process!Settled, Process!BudgetKept
<1> QED BY ProcessInit, ProcessStep, <1>1, PTL DEF Process!Spec

\* The same in the specification of the run, where its steps are among others.
THEOREM ServicesBudgetKept == ServicesSpec => []BudgetKept
<1>1. ServicesInit => Process!Init
  BY DEF ServicesInit
<1>2. [ServicesNext]_allVars => [Process!Next]_(Process!vars)
  BY DEF ServicesNext, allVars, lifecycleVars, Process!vars, Process!server, Process!disk,
         Process!ledger
<1>3. ServicesSpec => Process!Spec
  BY <1>1, <1>2, PTL DEF ServicesSpec, Process!Spec
<1> QED BY <1>3, ProcessInvariant, PTL DEF BudgetKept


(***************************************************************************)
(* The pressure of a backend (Admission).                                  *)
(***************************************************************************)
LEMMA GpuInit == Gpu!Init => Gpu!IInv
<1> SUFFICES ASSUME Gpu!Init PROVE Gpu!IInv
  OBVIOUS
<1>1. {failures, begun} \subseteq BOOLEAN
  <2>1. {FALSE} \subseteq BOOLEAN
    OBVIOUS
  <2> QED BY <2>1 DEF Gpu!Init
<1>2. Gpu!TypeOK
  BY <1>1 DEF Gpu!Init, Gpu!TypeOK, Gpu!Admit
<1>3. Gpu!Judged /\ Gpu!Telling
  BY DEF Gpu!Init, Gpu!Judged, Gpu!Telling
<1> QED BY <1>2, <1>3 DEF Gpu!IInv

\* A valid sample: it takes for a preemption no less than what it had to see and no
\* more than what there was.
LEMMA SampleKeeps ==
  ASSUME Gpu!IInv, Gpu!ProbeOne
  PROVE  Gpu!IInv'
<1>1. /\ preemptedAt' = IF updatedAt # 0 /\ count > lastPreemption THEN second ELSE preemptedAt
      /\ lastPreemption' = count /\ snapshot' = load /\ updatedAt' = second
      /\ pressure' = Gpu!Verdict(load, preemptedAt')
      /\ failures' = FALSE /\ begun' = TRUE /\ swaps' = "none"
      /\ causeAt' = IF swaps # "none" \/ (~begun /\ count > 0) THEN second ELSE causeAt
      /\ owedAt' = IF begun /\ swaps = "counted" THEN second ELSE owedAt
      /\ UNCHANGED <<second, load, count>>
  BY DEF Gpu!ProbeOne, Gpu!Update
<1>2. /\ second \in Nat \ {0} /\ count \in Nat /\ lastPreemption \in Nat
      /\ causeAt \in 0 .. second /\ owedAt \in 0 .. second /\ preemptedAt \in 0 .. second
      /\ updatedAt \in 0 .. second /\ load \in {"low", "high", "full"} /\ swaps \in {"none", "counted", "hidden"}
      /\ begun \in BOOLEAN
  BY DEF Gpu!IInv, Gpu!TypeOK
<1>3. PreemptionWindow \in Nat
  BY ServicesAssumption
<1>4. pressure' \in {"critical", "elevated", "normal"}
  BY <1>1, <1>2 DEF Gpu!Verdict
<1>5. Gpu!TypeOK'
  <2>1. {failures', begun'} \subseteq BOOLEAN
    <3>1. {FALSE, TRUE} \subseteq BOOLEAN
      OBVIOUS
    <3> QED BY <1>1, <3>1
  <2>2. /\ causeAt' \in 0 .. second /\ owedAt' \in 0 .. second /\ preemptedAt' \in 0 .. second
        /\ updatedAt' \in 0 .. second
    BY <1>1, <1>2
  <2>3. pressure' \in DOMAIN Gpu!Admit
    BY <1>4 DEF Gpu!Admit
  <2> QED BY <1>1, <1>2, <2>1, <2>2, <2>3 DEF Gpu!TypeOK, Gpu!Admit
<1>6. Gpu!Judged'
  <2>1. pressure' = "critical" <=> snapshot' = "full" \/ Gpu!Within(preemptedAt)'
    BY <1>1, <1>2, <1>3 DEF Gpu!Verdict, Gpu!Within
  <2>2. owedAt' <= preemptedAt' /\ preemptedAt' <= causeAt'
    BY <1>1, <1>2 DEF Gpu!IInv, Gpu!Judged, Gpu!Telling
  <2>3. snapshot' # "invalid"
    BY <1>1, <1>2
  <2> QED BY <2>1, <2>2, <2>3 DEF Gpu!Judged
<1>7. Gpu!Telling'
  BY <1>1, <1>2 DEF Gpu!Telling
<1> QED BY <1>5, <1>6, <1>7 DEF Gpu!IInv

LEMMA GpuOthersKeep ==
  ASSUME Gpu!IInv,
         Gpu!Works \/ Gpu!Preempts \/ Gpu!Reboots \/ Gpu!Tick \/ Gpu!ProbeFails \/ UNCHANGED Gpu!vars
  PROVE  Gpu!IInv'
<1> USE DEF Gpu!backend, Gpu!history, Gpu!state
<1>1. second \in Nat \ {0} /\ count \in Nat /\ lastPreemption \in Nat
  BY DEF Gpu!IInv, Gpu!TypeOK
<1>2. CASE Gpu!Works \/ Gpu!Preempts \/ Gpu!Reboots \/ Gpu!Tick \/ UNCHANGED Gpu!vars
  <2>1. /\ UNCHANGED <<causeAt, owedAt, begun, snapshot, updatedAt, lastPreemption, preemptedAt,
                       pressure, failures>>
        /\ second' = second \/ second' = second + 1
        /\ load' \in {"low", "high", "full"}
        /\ \/ count' = count /\ swaps' = swaps
           \/ count' = count + 1 /\ swaps' = (IF swaps = "none" THEN "counted" ELSE swaps)
           \/ count' = 0 /\ swaps' = "hidden"
    BY <1>2 DEF Gpu!Works, Gpu!Preempts, Gpu!Reboots, Gpu!Tick, Gpu!vars, Gpu!IInv, Gpu!TypeOK
  <2>2. Gpu!TypeOK'
    <3>1. second' \in Nat \ {0} /\ 0 .. second \subseteq 0 .. second' /\ count' \in Nat
      BY <1>1, <2>1
    <3>2. swaps' \in {"none", "counted", "hidden"}
      BY <2>1 DEF Gpu!IInv, Gpu!TypeOK
    <3> QED BY <2>1, <3>1, <3>2 DEF Gpu!IInv, Gpu!TypeOK
  <2>3. Gpu!Judged'
    BY <2>1 DEF Gpu!IInv, Gpu!Judged, Gpu!Within
  <2>4. Gpu!Telling'
    BY <1>1, <2>1 DEF Gpu!IInv, Gpu!Telling, Gpu!TypeOK
  <2> QED BY <2>2, <2>3, <2>4 DEF Gpu!IInv
<1>3. CASE Gpu!ProbeFails
  <2>1. /\ failures' = TRUE /\ snapshot' = "invalid" /\ updatedAt' = second /\ pressure' = "unknown"
        /\ UNCHANGED <<second, load, count, swaps, causeAt, owedAt, begun, lastPreemption, preemptedAt>>
    BY <1>3 DEF Gpu!ProbeFails, Gpu!Verdict
  <2>2. Gpu!TypeOK'
    <3>1. {failures', begun'} \subseteq BOOLEAN
      <4>1. {TRUE, begun} \subseteq BOOLEAN
        BY DEF Gpu!IInv, Gpu!TypeOK
      <4> QED BY <2>1, <4>1
    <3>2. pressure' \in DOMAIN Gpu!Admit /\ updatedAt' \in 0 .. second
      BY <1>1, <2>1 DEF Gpu!Admit
    <3> QED BY <2>1, <3>1, <3>2 DEF Gpu!IInv, Gpu!TypeOK, Gpu!Admit
  <2>3. Gpu!Judged' /\ Gpu!Telling'
    BY <1>1, <2>1 DEF Gpu!IInv, Gpu!Judged, Gpu!Telling
  <2> QED BY <2>2, <2>3 DEF Gpu!IInv
<1> QED BY <1>2, <1>3

\* A backend turns all but the most urgent requests away only for a cause, and always
\* for one that a sample had to show (gpuload/admission.go), for any window, counter and
\* order of samples, failures and reboots.
THEOREM GpuCriticalForCause == Gpu!Spec => [](Gpu!IInv /\ Gpu!CriticalForCause)
<1>1. Gpu!IInv /\ [Gpu!Next]_(Gpu!vars) => Gpu!IInv'
  BY SampleKeeps, GpuOthersKeep DEF Gpu!Next
<1>2. ASSUME Gpu!IInv PROVE Gpu!CriticalForCause
  <2>1. Gpu!Admit[pressure] > 5 <=> pressure = "critical"
    BY <1>2 DEF Gpu!IInv, Gpu!TypeOK, Gpu!Admit
  <2>2. /\ {causeAt, owedAt, preemptedAt, updatedAt} \subseteq Nat /\ PreemptionWindow \in Nat
        /\ owedAt <= preemptedAt /\ preemptedAt <= causeAt
    BY <1>2, ServicesAssumption DEF Gpu!IInv, Gpu!TypeOK, Gpu!Judged
  <2>3. (Gpu!Within(owedAt) => Gpu!Within(preemptedAt)) /\ (Gpu!Within(preemptedAt) => Gpu!Within(causeAt))
    BY <2>2 DEF Gpu!Within
  <2> QED BY <1>2, <2>1, <2>3 DEF Gpu!CriticalForCause, Gpu!IInv, Gpu!Judged
<1> QED BY GpuInit, <1>1, <1>2, PTL DEF Gpu!Spec

(***************************************************************************)
(* The CPU quota and the report of throttling (CpuLimit).                  *)
(***************************************************************************)
LEMMA CpuInit == Cpu!Init => Cpu!IInv /\ Cpu!ThrottlingBacked
<1> SUFFICES ASSUME Cpu!Init PROVE Cpu!IInv /\ Cpu!ThrottlingBacked
  OBVIOUS
<1>1. {sampled, throttling, blank, wrong} \subseteq BOOLEAN
  <2>1. {FALSE} \subseteq BOOLEAN
    OBVIOUS
  <2> QED BY <2>1 DEF Cpu!Init
<1> QED BY <1>1 DEF Cpu!Init, Cpu!IInv, Cpu!TypeOK, Cpu!Reading, Cpu!Baseline, Cpu!ThrottlingBacked

\* setupCPULimits gives the runtime no more than the quota rounded up, one CPU at least.
LEMMA WithinQuota ==
  ASSUME Cpu!TypeOK, NEW n \in Cpu!Concurrency, mode # "flag"
  PROVE  n \in Nat \ {0} /\ (quota > 0 => n = 1 \/ 2 * n < quota + 2)
<1>1. quota \in Nat /\ procs \in Nat \ {0}
  BY DEF Cpu!TypeOK
<1>2. n = (IF Cpu!Oversubscribed THEN (IF Cpu!Whole < 1 THEN 1 ELSE Cpu!Whole) ELSE procs)
  BY DEF Cpu!Concurrency, Cpu!Recommended
<1>3. Cpu!Whole \in Nat /\ 2 * Cpu!Whole < quota + 2
  BY <1>1 DEF Cpu!Whole
<1> QED BY <1>1, <1>2, <1>3 DEF Cpu!Oversubscribed


\* The process starts, with or without a monitor, and the kernel counts.
LEMMA StartKeeps ==
  ASSUME Cpu!IInv, Cpu!ThrottlingBacked, Cpu!Start \/ Cpu!Blind \/ Cpu!Period
  PROVE  Cpu!IInv' /\ Cpu!ThrottlingBacked'
<1>1. /\ quota \in Nat /\ procs \in Nat \ {0} /\ periods \in Nat /\ throttled \in 0 .. periods
      /\ last \in Cpu!Reading /\ base \in Nat /\ mode \in {"down", "up", "flag"}
      /\ {sampled, throttling, blank, wrong} \subseteq BOOLEAN /\ ~wrong
  BY DEF Cpu!IInv, Cpu!TypeOK, Cpu!ThrottlingBacked
<1>2. \A n \in Cpu!Concurrency : n \in Nat \ {0}
  BY WithinQuota DEF Cpu!Concurrency, Cpu!IInv, Cpu!TypeOK
<1>3. CASE Cpu!Start
  <2>1. /\ booted = "start" /\ booted' = "running" /\ procs' \in Cpu!Concurrency
        /\ UNCHANGED <<quota, mode, periods, throttled, throttling, wrong>>
    BY <1>3 DEF Cpu!Start
  <2>2. \/ /\ sampled' = TRUE /\ last' \in Cpu!Readings
           /\ base' = throttled /\ blank' = (last'.periods # periods)
        \/ UNCHANGED <<sampled, last, base, blank>>
    BY <1>3 DEF Cpu!Start
  <2>3. last' \in Cpu!Reading /\ base' \in Nat /\ sampled' \in BOOLEAN /\ blank' \in BOOLEAN
    <3>1. Cpu!Readings \subseteq Cpu!Reading /\ TRUE \in BOOLEAN /\ throttled \in Nat
      BY <1>1 DEF Cpu!Readings, Cpu!Reading
    <3>2. (last'.periods # periods) \in BOOLEAN
      OBVIOUS
    <3>3. sampled \in BOOLEAN /\ blank \in BOOLEAN
      BY <1>1
    <3>4. sampled' \in BOOLEAN /\ blank' \in BOOLEAN
      BY <2>2, <3>1, <3>2, <3>3 DEF Cpu!Readings
    <3> QED BY <1>1, <2>2, <3>1, <3>4
  <2>4. Cpu!TypeOK'
    BY <1>1, <1>2, <2>1, <2>3 DEF Cpu!TypeOK, Cpu!Reading
  <2>5. Cpu!Baseline'
    <3>1. CASE /\ sampled' = TRUE /\ last' \in Cpu!Readings /\ base' = throttled
               /\ blank' = (last'.periods # periods)
      <4>1. last'.periods = periods => last'.throttled = throttled
        BY <1>1, <3>1 DEF Cpu!Readings
      <4> QED BY <2>1, <3>1, <4>1 DEF Cpu!Baseline
    <3>2. CASE UNCHANGED <<sampled, last, base, blank>>
      BY <2>1, <3>2 DEF Cpu!IInv, Cpu!Baseline
    <3> QED BY <2>2, <3>1, <3>2
  <2>6. Cpu!ThrottlingBacked'
    BY <1>1, <2>1, WithinQuota DEF Cpu!ThrottlingBacked, Cpu!IInv
  <2> QED BY <2>4, <2>5, <2>6 DEF Cpu!IInv
<1>4. CASE Cpu!Blind
  <2>1. /\ booted' = "blind" /\ booted = "start"
        /\ procs' = procs \/ procs' \in Cpu!Concurrency
        /\ UNCHANGED <<quota, mode, periods, throttled, last, sampled, throttling, base, blank, wrong>>
    BY <1>4 DEF Cpu!Blind
  <2>2. Cpu!TypeOK'
    BY <1>1, <1>2, <2>1 DEF Cpu!TypeOK
  <2> QED BY <1>1, <2>1, <2>2 DEF Cpu!IInv, Cpu!Baseline, Cpu!ThrottlingBacked
<1>5. CASE Cpu!Period
  <2>1. /\ periods' = periods + 1 /\ throttled' \in {throttled, throttled + 1}
        /\ UNCHANGED <<quota, procs, mode, booted, last, sampled, throttling, base, blank, wrong>>
    BY <1>5 DEF Cpu!Period
  <2>2. periods' \in Nat /\ throttled' \in 0 .. periods'
    BY <1>1, <2>1
  <2> QED BY <1>1, <2>1, <2>2 DEF Cpu!IInv, Cpu!TypeOK, Cpu!Baseline, Cpu!ThrottlingBacked
<1> QED BY <1>3, <1>4, <1>5

\* A reading that is plausible is a real one: the zeros of an empty file are not.
LEMMA SampleIsReal ==
  ASSUME Cpu!IInv, Cpu!ThrottlingBacked, Cpu!Sample
  PROVE  Cpu!IInv' /\ Cpu!ThrottlingBacked'
<1>1. /\ quota \in Nat /\ procs \in Nat \ {0} /\ periods \in Nat /\ throttled \in 0 .. periods
      /\ last \in Cpu!Reading /\ base \in Nat /\ mode \in {"down", "up", "flag"}
      /\ {sampled, throttling, blank, wrong} \subseteq BOOLEAN /\ ~wrong
  BY DEF Cpu!IInv, Cpu!TypeOK, Cpu!ThrottlingBacked
<1>2. PICK current \in Cpu!Readings :
        /\ Cpu!plausible(current) /\ last' = current /\ sampled' = TRUE
        /\ throttling' = (sampled /\ current.throttled > last.throttled)
  BY DEF Cpu!Sample
<1>3. /\ wrong' = (wrong \/ (sampled /\ ~blank /\ throttling' # (throttled > base)))
      /\ base' = throttled /\ blank' = FALSE /\ booted = "running"
      /\ UNCHANGED <<quota, procs, mode, booted, periods, throttled>>
  BY DEF Cpu!Sample
<1>4. current.periods = periods /\ current.throttled = throttled /\ current \in Cpu!Reading
  BY <1>1, <1>2 DEF Cpu!Readings, Cpu!plausible, Cpu!Reading
<1>5. sampled /\ ~blank => throttling' = (throttled > base)
  BY <1>2, <1>4 DEF Cpu!IInv, Cpu!Baseline
<1>6. wrong' = FALSE
  BY <1>1, <1>3, <1>5
<1>7. {sampled', throttling', blank', wrong'} \subseteq BOOLEAN
  <2>1. throttling' \in BOOLEAN
    BY <1>2
  <2>2. {TRUE, throttling', FALSE} \subseteq BOOLEAN
    BY <2>1
  <2> QED BY <1>2, <1>3, <1>6, <2>2
<1>8. Cpu!TypeOK'
  <2>1. base' \in Nat
    BY <1>1, <1>3
  <2> QED BY <1>1, <1>2, <1>3, <1>4, <1>7, <2>1 DEF Cpu!TypeOK, Cpu!Reading
<1>9. Cpu!Baseline' /\ Cpu!ThrottlingBacked'
  BY <1>2, <1>3, <1>4, <1>6 DEF Cpu!Baseline, Cpu!ThrottlingBacked
<1> QED BY <1>8, <1>9 DEF Cpu!IInv

\* The monitor reports throttling exactly when there was some, and the runtime keeps to
\* the quota (cpulimit/monitor.go, cgroup.go), for any quota and counters and whatever
\* reads failed or showed zeros.
THEOREM CpuThrottlingBacked == Cpu!Spec => [](Cpu!IInv /\ Cpu!ThrottlingBacked)
<1>1. Cpu!IInv /\ Cpu!ThrottlingBacked /\ [Cpu!Next]_(Cpu!vars) => (Cpu!IInv /\ Cpu!ThrottlingBacked)'
  <2>1. CASE UNCHANGED Cpu!vars
    BY <2>1 DEF Cpu!vars, Cpu!IInv, Cpu!TypeOK, Cpu!Baseline, Cpu!ThrottlingBacked
  <2> QED BY <2>1, StartKeeps, SampleIsReal DEF Cpu!Next
<1> QED BY CpuInit, <1>1, PTL DEF Cpu!Spec

(***************************************************************************)
(* The secret a request goes out with (Credentials).                       *)
(***************************************************************************)
Way == {"idle", "fetching", "sent", "refused"}

LEMMA SecretsInit == Secrets!Init => Secrets!IInv /\ Secrets!NoForeignCredential
<1> SUFFICES ASSUME Secrets!Init PROVE Secrets!IInv /\ Secrets!NoForeignCredential
  OBVIOUS
<1>1. Secrets!TypeOK
  <2>1. day \in 1 .. MaxDay + 1 /\ version \in 0 .. MaxVersion /\ MaxDay + 1 \in Nat
    BY ServicesAssumption DEF Secrets!Init
  <2> QED BY <2>1, ServicesAssumption DEF Secrets!Init, Secrets!TypeOK
<1>2. Secrets!Ahead /\ Secrets!ReadInTime /\ Secrets!NoForeignCredential
  BY ServicesAssumption DEF Secrets!Init, Secrets!Ahead, Secrets!ReadInTime, Secrets!NoForeignCredential
<1> QED BY <1>1, <1>2 DEF Secrets!IInv

\* What a secret that was read in time is worth to the request that goes out with it.
LEMMA ApplyKeeps ==
  ASSUME Secrets!IInv, Secrets!NoForeignCredential, NEW r \in Handlers, NEW v \in 0 .. MaxVersion,
         Secrets!Apply(r, v), started' \in [Handlers -> Nat], UNCHANGED <<day, version, since, policy>>,
         \A q \in Handlers \ {r} : started'[q] = started[q],
         v # 0 => started'[r] <= since[v] + SecretTTL
  PROVE  /\ stage' \in [Handlers -> Way] /\ used' \in [Handlers -> 0 .. MaxVersion]
         /\ stage'[r] \in {"sent", "refused"} /\ \A q \in Handlers \ {r} : stage'[q] = stage[q]
         /\ \A q \in Handlers : stage'[q] = "sent" => used'[q] # 0
         /\ Secrets!NoForeignCredential'
<1> DEFINE h == Secrets!Injected(Secrets!Strip(Copied))
<1>1. /\ stage \in [Handlers -> Way] /\ used \in [Handlers -> 0 .. MaxVersion]
      /\ \A q \in Handlers : stage[q] = "sent" => used[q] # 0
  BY DEF Secrets!IInv, Secrets!TypeOK, Secrets!ReadInTime, Way
<1>2. \/ /\ v # 0 /\ Secrets!Verify(h) /\ stage' = [stage EXCEPT ![r] = "sent"]
         /\ out' = [out EXCEPT ![r] = h] /\ used' = [used EXCEPT ![r] = v]
      \/ stage' = [stage EXCEPT ![r] = "refused"] /\ UNCHANGED <<out, used>>
  BY DEF Secrets!Apply, Secrets!Go
<1> HIDE DEF h
<1>3. /\ stage' \in [Handlers -> Way] /\ used' \in [Handlers -> 0 .. MaxVersion]
      /\ stage'[r] \in {"sent", "refused"} /\ \A q \in Handlers \ {r} : stage'[q] = stage[q]
  BY <1>1, <1>2 DEF Way
<1>4. DOMAIN out = Handlers
  BY DEF Secrets!IInv, Secrets!TypeOK
<1>5. \A q \in Handlers \ {r} : used'[q] = used[q] /\ out'[q] = out[q]
  BY <1>1, <1>2, <1>4
<1>6. stage'[r] = "sent" => used'[r] = v /\ v # 0 /\ out'[r] = h /\ Secrets!Verify(h)
  BY <1>1, <1>2, <1>4
<1>7. \A q \in Handlers : stage'[q] = "sent" => used'[q] # 0
  BY <1>1, <1>3, <1>5, <1>6
<1>8. Secrets!NoForeignCredential'
  <2> SUFFICES ASSUME NEW q \in Handlers, stage'[q] = "sent"
               PROVE  /\ {x \in out'[q] : Secrets!IsCredentialHeader(x)} = {policy.expected}
                      /\ started'[q] <= since[used'[q]] + SecretTTL
    BY DEF Secrets!NoForeignCredential, Secrets!IsCredentialHeader
  <2>1. CASE q = r
    BY <1>6, <2>1 DEF Secrets!Verify
  <2>2. CASE q # r
    BY <1>3, <1>5, <2>2 DEF Secrets!NoForeignCredential
  <2> QED BY <2>1, <2>2
<1> QED BY <1>3, <1>7, <1>8


\* A request that looks for the secret: the cache is younger than a TTL, or the file is read.
LEMMA FetchKeeps ==
  ASSUME Secrets!IInv, Secrets!NoForeignCredential, NEW r \in Handlers, Secrets!Fetch(r)
  PROVE  Secrets!IInv' /\ Secrets!NoForeignCredential'
<1>1. /\ stage[r] = "idle" /\ started' = [started EXCEPT ![r] = day]
      /\ UNCHANGED <<day, version, since, cache, policy>>
  BY DEF Secrets!Fetch
<1>2. /\ day \in 1 .. MaxDay + 1 /\ MaxDay \in Nat /\ SecretTTL \in Nat /\ version \in 0 .. MaxVersion
      /\ MaxVersion \in Nat
      /\ since \in [1 .. MaxVersion -> Nat] /\ cache \in [version : 0 .. MaxVersion, at : Nat]
      /\ stage \in [Handlers -> Way] /\ read \in [Handlers -> 0 .. MaxVersion]
      /\ used \in [Handlers -> 0 .. MaxVersion] /\ started \in [Handlers -> Nat]
      /\ DOMAIN out = Handlers
  BY ServicesAssumption DEF Secrets!IInv, Secrets!TypeOK, Way
<1>3. /\ started' \in [Handlers -> Nat] /\ started'[r] = day
      /\ \A q \in Handlers \ {r} : started'[q] = started[q]
      /\ \A q \in Handlers : started'[q] <= day'
  BY <1>1, <1>2 DEF Secrets!IInv, Secrets!TypeOK
<1>4. CASE Secrets!Young /\ Secrets!Apply(r, cache.version) /\ UNCHANGED read
  <2>1. cache.version # 0 /\ cache.version \in 1 .. MaxVersion /\ day - cache.at < SecretTTL
    BY <1>2, <1>4 DEF Secrets!Young
  <2>2. cache.at <= since[cache.version] + 1 /\ since[cache.version] \in Nat /\ cache.at \in Nat
    BY <1>2, <2>1 DEF Secrets!IInv, Secrets!ReadInTime
  <2>3. started'[r] <= since[cache.version] + SecretTTL
    BY <1>2, <1>3, <2>1, <2>2
  <2>4. /\ stage' \in [Handlers -> Way] /\ used' \in [Handlers -> 0 .. MaxVersion]
        /\ stage'[r] \in {"sent", "refused"} /\ \A q \in Handlers \ {r} : stage'[q] = stage[q]
        /\ \A q \in Handlers : stage'[q] = "sent" => used'[q] # 0
        /\ Secrets!NoForeignCredential'
    BY <1>1, <1>2, <1>3, <1>4, <2>1, <2>3, ApplyKeeps
  <2>5. DOMAIN out' = Handlers
    BY <1>2, <1>4 DEF Secrets!Apply
  <2>6. Secrets!TypeOK' /\ Secrets!Ahead'
    BY <1>1, <1>3, <1>4, <2>4, <2>5 DEF Secrets!IInv, Secrets!TypeOK, Secrets!Ahead, Way
  <2>7. Secrets!ReadInTime'
    BY <1>1, <1>3, <1>4, <2>4 DEF Secrets!IInv, Secrets!ReadInTime
  <2> QED BY <2>4, <2>6, <2>7 DEF Secrets!IInv
<1>5. CASE /\ stage' = [stage EXCEPT ![r] = "fetching"] /\ read' = [read EXCEPT ![r] = version]
           /\ UNCHANGED <<out, used>>
  <2>1. /\ stage' \in [Handlers -> Way] /\ read' \in [Handlers -> 0 .. MaxVersion]
        /\ stage'[r] = "fetching" /\ read'[r] = version
        /\ \A q \in Handlers \ {r} : stage'[q] = stage[q] /\ read'[q] = read[q]
    BY <1>2, <1>5 DEF Way
  <2>2. version # 0 => day <= since[version]
    BY <1>2 DEF Secrets!IInv, Secrets!Ahead
  <2>3. Secrets!TypeOK' /\ Secrets!Ahead'
    BY <1>1, <1>3, <1>5, <2>1 DEF Secrets!IInv, Secrets!TypeOK, Secrets!Ahead, Way
  <2>4. Secrets!ReadInTime'
    BY <1>1, <1>2, <1>3, <1>5, <2>1, <2>2 DEF Secrets!IInv, Secrets!ReadInTime
  <2>5. Secrets!NoForeignCredential'
    BY <1>1, <1>3, <1>5, <2>1 DEF Secrets!NoForeignCredential, Secrets!IsCredentialHeader
  <2> QED BY <2>3, <2>4, <2>5 DEF Secrets!IInv
<1> QED BY <1>4, <1>5 DEF Secrets!Fetch, Secrets!Go

\* What was read goes out, and into the cache, in the order in which the requests store.
LEMMA SecretStoreKeeps ==
  ASSUME Secrets!IInv, Secrets!NoForeignCredential, NEW r \in Handlers, Secrets!Store(r)
  PROVE  Secrets!IInv' /\ Secrets!NoForeignCredential'
<1>1. /\ stage[r] = "fetching" /\ Secrets!Apply(r, read[r])
      /\ cache' = IF read[r] = 0 THEN cache ELSE [version |-> read[r], at |-> day]
      /\ UNCHANGED <<day, version, since, policy, read, started>>
  BY DEF Secrets!Store
<1>2. /\ day \in Nat /\ SecretTTL \in Nat /\ MaxVersion \in Nat /\ since \in [1 .. MaxVersion -> Nat]
      /\ read[r] \in 0 .. MaxVersion /\ started[r] \in Nat /\ started \in [Handlers -> Nat]
      /\ DOMAIN out = Handlers /\ cache \in [version : 0 .. MaxVersion, at : Nat]
      /\ cache.at <= day
  BY ServicesAssumption DEF Secrets!IInv, Secrets!TypeOK
<1>3. day <= started[r] + 1 /\ (read[r] # 0 => started[r] <= since[read[r]] /\ since[read[r]] \in Nat)
  BY <1>1, <1>2 DEF Secrets!IInv, Secrets!ReadInTime
<1>4. read[r] # 0 => started'[r] <= since[read[r]] + SecretTTL
  BY <1>1, <1>2, <1>3
<1>5. /\ stage' \in [Handlers -> Way] /\ used' \in [Handlers -> 0 .. MaxVersion]
      /\ stage'[r] \in {"sent", "refused"} /\ \A q \in Handlers \ {r} : stage'[q] = stage[q]
      /\ \A q \in Handlers : stage'[q] = "sent" => used'[q] # 0
      /\ Secrets!NoForeignCredential'
  BY <1>1, <1>2, <1>4, ApplyKeeps
<1>6. DOMAIN out' = Handlers
  BY <1>1, <1>2 DEF Secrets!Apply
<1>7. /\ cache' \in [version : 0 .. MaxVersion, at : Nat] /\ cache'.at <= day
      /\ cache'.version # 0 => cache'.at <= since[cache'.version] + 1
  BY <1>1, <1>2, <1>3 DEF Secrets!IInv, Secrets!ReadInTime
<1>8. Secrets!TypeOK' /\ Secrets!Ahead'
  BY <1>1, <1>5, <1>6, <1>7 DEF Secrets!IInv, Secrets!TypeOK, Secrets!Ahead, Way
<1>9. Secrets!ReadInTime'
  BY <1>1, <1>5, <1>7 DEF Secrets!IInv, Secrets!ReadInTime
<1> QED BY <1>5, <1>8, <1>9 DEF Secrets!IInv

LEMMA FinishedKeeps ==
  ASSUME Secrets!IInv, Secrets!NoForeignCredential, NEW r \in Handlers, Secrets!Finished(r)
  PROVE  Secrets!IInv' /\ Secrets!NoForeignCredential'
<1>1. /\ stage' = [stage EXCEPT ![r] = "idle"] /\ read' = [read EXCEPT ![r] = 0]
      /\ started' = [started EXCEPT ![r] = 0] /\ out' = [out EXCEPT ![r] = {}]
      /\ used' = [used EXCEPT ![r] = 0] /\ UNCHANGED <<day, version, since, cache, policy>>
  BY DEF Secrets!Finished, Secrets!Go
<1>2. /\ day \in Nat /\ MaxVersion \in Nat
      /\ stage \in [Handlers -> Way] /\ read \in [Handlers -> 0 .. MaxVersion]
      /\ used \in [Handlers -> 0 .. MaxVersion] /\ started \in [Handlers -> Nat]
      /\ DOMAIN out = Handlers /\ \A q \in Handlers : started[q] <= day
  BY ServicesAssumption DEF Secrets!IInv, Secrets!TypeOK, Way
<1>3. /\ stage' \in [Handlers -> Way] /\ read' \in [Handlers -> 0 .. MaxVersion]
      /\ used' \in [Handlers -> 0 .. MaxVersion] /\ started' \in [Handlers -> Nat]
      /\ DOMAIN out' = Handlers /\ stage'[r] = "idle" /\ started'[r] = 0
  BY <1>1, <1>2 DEF Way
<1>4. \A q \in Handlers \ {r} :
        stage'[q] = stage[q] /\ read'[q] = read[q] /\ used'[q] = used[q] /\ started'[q] = started[q]
          /\ out'[q] = out[q]
  BY <1>1, <1>2
<1>5. \A q \in Handlers : started'[q] <= day'
  BY <1>1, <1>2, <1>3, <1>4
<1>6. Secrets!TypeOK' /\ Secrets!Ahead'
  BY <1>1, <1>3, <1>5 DEF Secrets!IInv, Secrets!TypeOK, Secrets!Ahead, Way
<1>7. Secrets!ReadInTime'
  BY <1>1, <1>3, <1>4 DEF Secrets!IInv, Secrets!ReadInTime
<1>8. Secrets!NoForeignCredential'
  BY <1>1, <1>3, <1>4 DEF Secrets!NoForeignCredential, Secrets!IsCredentialHeader
<1> QED BY <1>6, <1>7, <1>8 DEF Secrets!IInv

\* The operator and the clock.
LEMMA OperatorKeeps ==
  ASSUME Secrets!IInv, Secrets!NoForeignCredential,
         Secrets!Rotate \/ Secrets!Unmount \/ Secrets!Tick \/ UNCHANGED Secrets!vars
  PROVE  Secrets!IInv' /\ Secrets!NoForeignCredential'
<1>1. UNCHANGED <<cache, policy, stage, read, started, out, used>>
  BY DEF Secrets!Rotate, Secrets!Unmount, Secrets!Tick, Secrets!vars
<1>2. /\ day \in 1 .. MaxDay + 1 /\ MaxDay \in Nat /\ SecretTTL \in Nat /\ version \in 0 .. MaxVersion
      /\ MaxVersion \in Nat /\ since \in [1 .. MaxVersion -> Nat]
      /\ cache \in [version : 0 .. MaxVersion, at : Nat] /\ cache.at <= day
      /\ read \in [Handlers -> 0 .. MaxVersion] /\ used \in [Handlers -> 0 .. MaxVersion]
      /\ started \in [Handlers -> Nat] /\ \A q \in Handlers : started[q] <= day
  BY ServicesAssumption DEF Secrets!IInv, Secrets!TypeOK
<1>3. CASE Secrets!Rotate \/ Secrets!Unmount
  <2>1. /\ version # 0 /\ since' = [since EXCEPT ![version] = day] /\ day' = day
        /\ version' = 0 \/ (version < MaxVersion /\ version' = version + 1)
    BY <1>3 DEF Secrets!Rotate, Secrets!Unmount
  <2>2. /\ version \in 1 .. MaxVersion /\ since' \in [1 .. MaxVersion -> Nat] /\ since'[version] = day
        /\ \A v \in 1 .. MaxVersion : v # version => since'[v] = since[v]
        /\ version' \in 0 .. MaxVersion
    BY <1>2, <2>1
  <2>3. Secrets!TypeOK'
    BY <1>1, <2>1, <2>2 DEF Secrets!IInv, Secrets!TypeOK
  <2>4. Secrets!Ahead'
    <3> SUFFICES ASSUME version' # 0, NEW v \in version' .. MaxVersion
                 PROVE  since'[v] = MaxDay + 1
      BY DEF Secrets!Ahead
    <3>1. v \in version .. MaxVersion /\ v # version /\ v \in 1 .. MaxVersion
      BY <1>2, <2>1, <2>2
    <3> QED BY <2>1, <2>2, <3>1 DEF Secrets!IInv, Secrets!Ahead
  <2>5. \A v \in 1 .. MaxVersion : \A t \in Nat : t <= since[v] /\ t <= day => t <= since'[v]
    BY <1>2, <2>2
  <2>6. Secrets!ReadInTime'
    <3>1. cache.version # 0 => cache.at <= since'[cache.version] + 1
      <4> SUFFICES ASSUME cache.version # 0 PROVE cache.at <= since'[cache.version] + 1
        OBVIOUS
      <4>1. cache.version \in 1 .. MaxVersion /\ since'[cache.version] \in Nat /\ cache.at \in Nat
        BY <1>2, <2>2
      <4>2. cache.at <= since[cache.version] + 1
        BY DEF Secrets!IInv, Secrets!ReadInTime
      <4>3. CASE cache.version = version
        BY <1>2, <2>2, <4>1, <4>3
      <4>4. CASE cache.version # version
        BY <2>2, <4>1, <4>2, <4>4
      <4> QED BY <4>3, <4>4
    <3>2. ASSUME NEW q \in Handlers, stage[q] = "fetching"
          PROVE  day <= started[q] + 1 /\ (read[q] # 0 => started[q] <= since'[read[q]])
      BY <1>2, <2>5, <3>2 DEF Secrets!IInv, Secrets!ReadInTime
    <3> QED BY <1>1, <2>1, <3>1, <3>2 DEF Secrets!IInv, Secrets!ReadInTime
  <2>7. Secrets!NoForeignCredential'
    <3> SUFFICES ASSUME NEW q \in Handlers, stage[q] = "sent"
                 PROVE  started[q] <= since'[used[q]] + SecretTTL
      BY <1>1 DEF Secrets!NoForeignCredential, Secrets!IsCredentialHeader
    <3>1. used[q] \in 1 .. MaxVersion /\ started[q] <= since[used[q]] + SecretTTL /\ started[q] <= day
      BY <1>2 DEF Secrets!IInv, Secrets!ReadInTime, Secrets!NoForeignCredential
    <3>2. started[q] \in Nat /\ since'[used[q]] \in Nat
      BY <1>2, <2>2, <3>1
    <3>3. CASE used[q] = version
      BY <1>2, <2>2, <3>1, <3>2, <3>3
    <3>4. CASE used[q] # version
      BY <2>2, <3>1, <3>2, <3>4
    <3> QED BY <3>3, <3>4
  <2> QED BY <2>3, <2>4, <2>6, <2>7 DEF Secrets!IInv
<1>4. CASE Secrets!Tick
  <2>1. /\ day < MaxDay /\ day' = day + 1 /\ UNCHANGED <<version, since>>
        /\ \A q \in Handlers : stage[q] = "fetching" => started[q] = day
    BY <1>4 DEF Secrets!Tick
  <2>2. /\ day' \in 1 .. MaxDay + 1 /\ cache.at <= day' /\ \A q \in Handlers : started[q] <= day'
        /\ \A q \in Handlers : stage[q] = "fetching" => day' <= started[q] + 1
    BY <1>2, <2>1
  <2> QED BY <1>1, <2>1, <2>2
          DEF Secrets!IInv, Secrets!TypeOK, Secrets!Ahead, Secrets!ReadInTime,
              Secrets!NoForeignCredential, Secrets!IsCredentialHeader
<1>5. CASE UNCHANGED Secrets!vars
  BY <1>5 DEF Secrets!vars, Secrets!IInv, Secrets!TypeOK, Secrets!Ahead, Secrets!ReadInTime,
              Secrets!NoForeignCredential, Secrets!IsCredentialHeader
<1> QED BY <1>3, <1>4, <1>5

\* A request leaves with one credential header, its backend's, and a secret that was in
\* the file a TTL ago at most (credential/policy.go, secrets.go), for any requests, headers,
\* policies and TTL, in whatever order requests store what they read.
THEOREM SecretsNoForeignCredential == Secrets!Spec => [](Secrets!IInv /\ Secrets!NoForeignCredential)
<1>1. Secrets!IInv /\ Secrets!NoForeignCredential /\ [Secrets!Next]_(Secrets!vars)
        => (Secrets!IInv /\ Secrets!NoForeignCredential)'
  BY FetchKeeps, SecretStoreKeeps, FinishedKeeps, OperatorKeeps DEF Secrets!Next
<1> QED BY SecretsInit, <1>1, PTL DEF Secrets!Spec

\* Readings and what is done for them, in the specification of the run.
THEOREM ServicesReadingsBacked == ServicesSpec => []ReadingsBacked
<1>1. ServicesInit => Gpu!Init /\ Secrets!Init /\ Cpu!Init
  BY DEF ServicesInit
<1>2. [ServicesNext]_allVars => [Gpu!Next]_(Gpu!vars)
  BY DEF ServicesNext, allVars, gpuVars, Gpu!vars, Gpu!backend, Gpu!history, Gpu!state
<1>3. [ServicesNext]_allVars => [Secrets!Next]_(Secrets!vars)
  BY DEF ServicesNext, allVars, credentialVars, Secrets!vars
<1>4. [ServicesNext]_allVars => [Cpu!Next]_(Cpu!vars)
  BY DEF ServicesNext, allVars, cpuVars, Cpu!vars
<1>5. ServicesSpec => Gpu!Spec /\ Secrets!Spec /\ Cpu!Spec
  BY <1>1, <1>2, <1>3, <1>4, PTL DEF ServicesSpec, Gpu!Spec, Secrets!Spec, Cpu!Spec
<1> QED BY <1>5, GpuCriticalForCause, SecretsNoForeignCredential, CpuThrottlingBacked, PTL
        DEF ReadingsBacked

(***************************************************************************)
(* The replicas (Affinity).                                                *)
(***************************************************************************)
\* Ring's Cardinality is the one the library's theorems are about.
LEMMA RingCardinality == \A S : Ring!Cardinality(S) = Cardinality(S)
  BY DEF Ring!Cardinality, Cardinality

\* A set of numbers up to a bound has a least one.
LEMMA Least ==
  ASSUME NEW n \in Nat, NEW S, S \in SUBSET (1 .. n), S # {}
  PROVE  \E k \in S : \A l \in S : k <= l
<1> DEFINE Q == {S \cap (1 .. k) : k \in S}
<1>1. Q \in SUBSET (SUBSET S)
  OBVIOUS
<1>a. Q # {}
  <2>1. PICK k \in S : TRUE
    OBVIOUS
  <2>2. S \cap (1 .. k) \in Q
    OBVIOUS
  <2> QED BY <2>2
<1>b. IsFiniteSet(1 .. n)
  BY FS_Interval
<1>c. IsFiniteSet(S)
  BY <1>b, FS_Subset
<1> HIDE DEF Q
<1>2. PICK T \in Q : \A U \in Q : ~(U \subseteq T /\ U # T)
  BY ONLY <1>1, <1>a, <1>c, MinimalSubset
<1> USE DEF Q
<1>3. PICK k \in S : T = S \cap (1 .. k)
  BY <1>2
<1>4. ASSUME NEW l \in S, ~(k <= l) PROVE FALSE
  <2>1. l < k /\ l \in 1 .. n /\ k \in 1 .. n
    BY <1>4
  <2>2. S \cap (1 .. l) \subseteq T /\ k \in T /\ k \notin S \cap (1 .. l)
    BY <1>3, <2>1
  <2>3. S \cap (1 .. l) \in Q
    OBVIOUS
  <2> QED BY <1>2, <2>2, <2>3
<1> QED BY <1>4

LEMMA RingMin ==
  ASSUME NEW n \in Nat, NEW S, S \in SUBSET (1 .. n), S # {}
  PROVE  Ring!Min(S) \in S /\ \A l \in S : Ring!Min(S) <= l
  BY Least DEF Ring!Min

LEMMA RingMax == \A k \in Int : Ring!Max({0, k}) = IF k > 0 THEN k ELSE 0
<1> SUFFICES ASSUME NEW k \in Int PROVE Ring!Max({0, k}) = IF k > 0 THEN k ELSE 0
  OBVIOUS
<1> DEFINE m == IF k > 0 THEN k ELSE 0
<1>1. m \in {0, k} /\ \A y \in {0, k} : m >= y
  OBVIOUS
<1>2. \A x \in {0, k} : (\A y \in {0, k} : x >= y) => x = m
  OBVIOUS
<1> QED BY <1>1, <1>2 DEF Ring!Max

(***************************************************************************)
(* The walk of Pick: every replica has a place of its own in it.           *)
(***************************************************************************)
Turn(start, i) == RingNodes[((start + i - 2) % Len(RingNodes)) + 1]
Meets(start, m) ==
  CHOOSE i \in 1 .. Len(RingNodes) : Turn(start, i) = m /\ \A j \in 1 .. i - 1 : Turn(start, j) # m
Before(start, m) == {n \in Members : Meets(start, n) <= Meets(start, m)}
Place(start, m)  == Ring!Cardinality(Before(start, m))

LEMMA RingSize ==
  /\ Len(RingNodes) \in Nat /\ DOMAIN RingNodes = 1 .. Len(RingNodes)
  /\ \A m \in Members : \E k \in 1 .. Len(RingNodes) : RingNodes[k] = m
  BY ServicesAssumption

\* From any virtual node on, the walk meets every replica.
LEMMA WalkMeets ==
  ASSUME NEW start \in 1 .. Len(RingNodes), NEW m \in Members
  PROVE  Meets(start, m) \in 1 .. Len(RingNodes) /\ Turn(start, Meets(start, m)) = m
<1> DEFINE N == Len(RingNodes)
<1>1. PICK p \in 1 .. N : RingNodes[p] = m
  BY RingSize
<1>2. N \in Nat \ {0} /\ start \in 1 .. N
  BY RingSize
<1> HIDE DEF N
<1> DEFINE i == IF p >= start THEN p - start + 1 ELSE p - start + N + 1
<1>3. i \in 1 .. N /\ (start + i - 2) = (IF p >= start THEN p - 1 ELSE N + (p - 1))
  BY <1>1, <1>2
<1>4. (start + i - 2) % N = p - 1
  <2> DEFINE s == start + i - 2
  <2>1. s \in Int /\ p - 1 \in 0 .. N - 1
    BY <1>1, <1>2, <1>3
  <2>2. s % N \in 0 .. N - 1 /\ s \div N \in Int
    BY <1>2, <2>1
  <2>3. s = N * (s \div N) + (s % N)
    BY <1>2, <2>1, DividesInt
  <2> DEFINE r == p - 1
             u == s % N
             v == s \div N
  <2>4. CASE p >= start
    <3>1. N * 0 + r = N * v + u /\ 0 \in Int
      BY <1>2, <1>3, <2>1, <2>3, <2>4
    <3>2. u \in 0 .. N - 1 /\ v \in Int /\ r \in 0 .. N - 1
      BY <2>1, <2>2
    <3> HIDE DEF r, u, v, s
    <3>3. r = u
      BY <1>2, <3>1, <3>2, DivisionUnique
    <3> QED BY <3>3 DEF r, u, s
  <2>5. CASE p < start
    <3>1. N * 1 + r = N * v + u /\ 1 \in Int
      BY <1>2, <1>3, <2>1, <2>3, <2>5
    <3>2. u \in 0 .. N - 1 /\ v \in Int /\ r \in 0 .. N - 1
      BY <2>1, <2>2
    <3> HIDE DEF r, u, v, s
    <3>3. r = u
      BY <1>2, <3>1, <3>2, DivisionUnique
    <3> QED BY <3>3 DEF r, u, s
  <2> QED BY <1>1, <1>2, <2>4, <2>5
<1> HIDE DEF i
<1>5. Turn(start, i) = m
  BY <1>1, <1>4 DEF Turn, N
<1> DEFINE S == {k \in 1 .. N : Turn(start, k) = m}
<1>6. S \in SUBSET (1 .. N) /\ S # {}
  BY <1>3, <1>5
<1>7. PICK k \in S : \A l \in S : k <= l
  BY <1>2, <1>6, Least
<1>8. k \in 1 .. N /\ Turn(start, k) = m /\ \A l \in 1 .. k - 1 : Turn(start, l) # m
  BY <1>2, <1>7
<1> QED BY <1>8 DEF Meets, N

\* No two replicas have one place.
LEMMA PlacesDiffer ==
  ASSUME NEW start \in 1 .. Len(RingNodes)
  PROVE  /\ \A m \in Members : Place(start, m) \in 1 .. Cardinality(Members)
         /\ \A m, n \in Members : Place(start, m) = Place(start, n) => m = n
<1>1. \A m \in Members : Meets(start, m) \in Nat /\ Turn(start, Meets(start, m)) = m
  BY WalkMeets, RingSize
<1>2. \A m \in Members : IsFiniteSet(Before(start, m)) /\ m \in Before(start, m) /\ Before(start, m) \subseteq Members
  BY <1>1, ServicesAssumption, FS_Subset DEF Before
<1>3. ASSUME NEW m \in Members PROVE Place(start, m) \in 1 .. Cardinality(Members)
  <2>1. Place(start, m) \in Nat /\ Cardinality(Members) \in Nat
    BY <1>2, ServicesAssumption, FS_CardinalityType, RingCardinality DEF Place
  <2>2. Place(start, m) # 0
    BY <1>2, FS_EmptySet, RingCardinality DEF Place
  <2>3. Place(start, m) <= Cardinality(Members)
    BY <1>2, ServicesAssumption, FS_Subset, RingCardinality DEF Place
  <2> QED BY <2>1, <2>2, <2>3
<1>4. ASSUME NEW m \in Members, NEW n \in Members, Meets(start, m) < Meets(start, n),
             Place(start, m) = Place(start, n)
      PROVE  FALSE
  <2>1. Before(start, m) \subseteq Before(start, n) /\ n \notin Before(start, m)
    BY <1>1, <1>4 DEF Before
  <2> QED BY <1>2, <1>4, <2>1, FS_Subset, RingCardinality DEF Place
<1>5. ASSUME NEW m \in Members, NEW n \in Members, Place(start, m) = Place(start, n) PROVE m = n
  <2>1. Meets(start, m) = Meets(start, n)
    BY <1>1, <1>4, <1>5
  <2> QED BY <1>1, <2>1
<1> QED BY <1>3, <1>5

LEMMA WalkIs ==
  ASSUME NEW start \in 1 .. Len(RingNodes)
  PROVE  /\ Ring!From(start) = [k \in 1 .. Ring!Cardinality(Members) |-> CHOOSE m \in Members : Place(start, m) = k]
         /\ \A m \in Members : Ring!From(start)[Place(start, m)] = m
<1>1. Ring!From(start) = [k \in 1 .. Ring!Cardinality(Members) |-> CHOOSE m \in Members : Place(start, m) = k]
  BY DEF Ring!From, Place, Before, Meets, Turn
<1>2. ASSUME NEW m \in Members PROVE Ring!From(start)[Place(start, m)] = m
  <2>1. Ring!From(start)[Place(start, m)] = CHOOSE n \in Members : Place(start, n) = Place(start, m)
    BY <1>1, PlacesDiffer, RingCardinality
  <2> QED BY <2>1, PlacesDiffer
<1> QED BY <1>1, <1>2

\* What the counters count.
Inside(m) == {r \in Requests : picked[r] = m /\ place[r] \in {"loaded", "in"}}
Underway  == {r \in Requests : place[r] \in {"in", "half"}}
RingCounted ==
  /\ loads \in [Members -> Nat] /\ sum \in Nat
  /\ \A m \in Members : loads[m] = Cardinality(Inside(m))
  /\ sum = Cardinality(Underway)

\* A request in Pick: its walk meets every replica, and one that had room ever since
\* is not behind it.
Looks(p) ==
  /\ DOMAIN p = {"eligible", "walk", "capacity", "next", "free"}
  /\ p.eligible \in SUBSET Members /\ p.eligible # {} /\ p.capacity \in Int /\ p.next \in Nat
  /\ DOMAIN p.walk = 1 .. Cardinality(Members)
  /\ \A n \in Members : \E k \in 1 .. Cardinality(Members) : p.walk[k] = n
  /\ \A n \in p.free : /\ n \in p.eligible /\ loads[n] < p.capacity
                       /\ \E k \in 1 .. Cardinality(Members) : k >= p.next /\ p.walk[k] = n

Stations == {"idle", "looking", "picked", "loaded", "in", "half"}
RingInv ==
  /\ RingCounted
  /\ place \in [Requests -> Stations]
  /\ picked \in [Requests -> Members \cup {None}]
  /\ \A r \in Requests : place[r] \notin {"idle", "looking"} => picked[r] \in Members
  /\ DOMAIN look = Requests /\ \A r \in Requests : place[r] = "looking" => Looks(look[r])
  /\ squeezed = {}

LEMMA RingInvInit == Ring!Init => RingInv
<1> SUFFICES ASSUME Ring!Init PROVE RingInv
  OBVIOUS
<1>1. \A m \in Members : Inside(m) = {}
  BY DEF Ring!Init, Inside
<1>2. Underway = {}
  BY DEF Ring!Init, Underway
<1> QED BY <1>1, <1>2, FS_EmptySet DEF Ring!Init, RingInv, RingCounted, Stations

\* The first eligible replica of the walk is an eligible one.
LEMMA PreferredIs ==
  ASSUME NEW p, Looks(p)
  PROVE  Ring!Preferred(p) \in p.eligible
<1> DEFINE N == Cardinality(Members)
           E == {k \in DOMAIN p.walk : p.walk[k] \in p.eligible}
<1>1. N \in Nat /\ E \in SUBSET (1 .. N)
  BY ServicesAssumption, FS_CardinalityType DEF Looks
<1>2. E # {}
  <2>1. PICK n \in p.eligible : n \in Members
    BY DEF Looks
  <2> QED BY <2>1 DEF Looks
<1> HIDE DEF N
<1>3. Ring!Min(E) \in E
  BY <1>1, <1>2, RingMin
<1> QED BY <1>3 DEF Ring!Preferred

\* A Pick begins with the whole walk before it.
LEMMA BeginLooks ==
  ASSUME RingInv, NEW r \in Requests, Ring!Begin(r)
  PROVE  Looks(look'[r])
<1>1. PICK eligible \in (SUBSET Members) \ {{}}, start \in 1 .. Len(RingNodes) :
        look' = [look EXCEPT ![r] =
          [eligible |-> eligible, walk |-> Ring!From(start), capacity |-> Ring!Capacity(eligible), next |-> 1,
           free |-> {m \in eligible : loads[m] < Ring!Capacity(eligible)}]]
  BY DEF Ring!Begin
<1> DEFINE N == Cardinality(Members)
           c == Ring!Capacity(eligible)
           walk == Ring!From(start)
<1>2. N \in Nat /\ Ring!Cardinality(Members) = N
  BY ServicesAssumption, FS_CardinalityType, RingCardinality
<1>3. DOMAIN walk = 1 .. N /\ \A n \in Members : \E k \in 1 .. N : k >= 1 /\ walk[k] = n
  <2>1. \A n \in Members : Place(start, n) \in 1 .. N /\ walk[Place(start, n)] = n
    BY PlacesDiffer, WalkIs
  <2>2. DOMAIN walk = 1 .. N
    BY <1>2, WalkIs
  <2> HIDE DEF walk, N
  <2> QED BY <1>2, <2>1, <2>2
<1>4. c \in Int
  <2> DEFINE d == 4 * Ring!Cardinality(eligible)
             t == sum * 5
  <2>1. Cardinality(eligible) \in Nat /\ Cardinality(eligible) # 0
    BY ServicesAssumption, FS_Subset, FS_CardinalityType, FS_EmptySet
  <2>2. d \in Nat \ {0}
    BY <2>1, RingCardinality
  <2>3. t \in Int
    BY DEF RingInv, RingCounted
  <2> HIDE DEF d, t
  <2>4. t \div d \in Int
    BY <2>2, <2>3
  <2>5. c = t \div d + 1
    BY DEF Ring!Capacity, d, t
  <2> HIDE DEF c
  <2> QED BY <2>4, <2>5
<1> HIDE DEF c, walk, N
<1>5. look'[r] = [eligible |-> eligible, walk |-> walk, capacity |-> c, next |-> 1,
                 free |-> {m \in eligible : loads[m] < c}]
  BY <1>1 DEF RingInv, c, walk
<1>6. UNCHANGED loads
  BY DEF Ring!Begin
<1> QED BY <1>3, <1>4, <1>5, <1>6 DEF Looks, N

\* A step of Pick takes an eligible replica, and none that is full beside one that had
\* room all through it where all are eligible; or it goes on to the next place.
LEMMA LookSteps ==
  ASSUME RingInv, NEW r \in Requests, Ring!Look(r)
  PROVE  /\ UNCHANGED <<loads, sum, squeezed>>
         /\ \/ /\ place' = [place EXCEPT ![r] = "picked"] /\ look' = [look EXCEPT ![r] = None]
               /\ \E m \in Members : picked' = [picked EXCEPT ![r] = m]
            \/ /\ UNCHANGED <<picked, place>>
               /\ \E q : look' = [look EXCEPT ![r] = q] /\ Looks(q)
<1> DEFINE p == look[r]
           m == p.walk[p.next]
           N == Cardinality(Members)
           room == m \in p.eligible /\ loads[m] < p.capacity
           over == m \in p.eligible /\ ~room /\ Ring!GivesUp(p)
<1>1. Looks(p) /\ N \in Nat /\ loads \in [Members -> Nat]
  BY ServicesAssumption, FS_CardinalityType DEF Ring!Look, RingInv, RingCounted
<1>2. /\ UNCHANGED <<loads, sum>>
      /\ \/ room /\ Ring!Take(r, m)
         \/ over /\ Ring!Take(r, Ring!Preferred(p))
         \/ /\ ~room /\ ~over /\ look' = [look EXCEPT ![r].next = @ + 1]
            /\ UNCHANGED <<picked, place, squeezed>>
  BY Zenon DEF Ring!Look
<1>3. CASE room /\ Ring!Take(r, m)
  <2>1. m \in Members /\ ~(loads[m] >= p.capacity)
    BY <1>1, <1>3 DEF Looks
  <2> QED BY <1>2, <1>3, <2>1 DEF Ring!Take
<1>4. CASE over /\ Ring!Take(r, Ring!Preferred(p))
  <2>1. Ring!Preferred(p) \in Members
    BY <1>1, PreferredIs DEF Looks
  <2>2. ASSUME p.eligible = Members, NEW n \in p.free PROVE FALSE
    <3>1. PICK k \in 1 .. N : k >= p.next /\ p.walk[k] = n
      BY <1>1 DEF Looks
    <3>2. p.next >= N
      BY <1>4, <2>2, RingCardinality DEF Ring!GivesUp
    <3>3. k = p.next
      BY <1>1, <3>1, <3>2 DEF Looks
    <3>4. loads[m] < p.capacity
      BY <1>1, <3>1, <3>3 DEF Looks
    <3> QED BY <1>4, <3>4
  <2>3. squeezed' = squeezed
    BY <1>4, <2>2 DEF Ring!Take
  <2> QED BY <1>2, <1>4, <2>1, <2>3 DEF Ring!Take
<1>5. CASE /\ ~room /\ ~over /\ look' = [look EXCEPT ![r].next = @ + 1]
           /\ UNCHANGED <<picked, place, squeezed>>
  <2> DEFINE q == [p EXCEPT !.next = @ + 1]
  <2>1. look' = [look EXCEPT ![r] = q]
    BY <1>5
  <2>2. /\ DOMAIN q = DOMAIN p /\ q.eligible = p.eligible /\ q.walk = p.walk /\ q.capacity = p.capacity
        /\ q.free = p.free /\ q.next = p.next + 1
    BY <1>1 DEF Looks
  <2> HIDE DEF q
  <2>3. ASSUME NEW n \in q.free
        PROVE  /\ n \in q.eligible /\ loads[n] < q.capacity
               /\ \E k \in 1 .. N : k >= q.next /\ q.walk[k] = n
    <3>1. n \in p.eligible /\ loads[n] < p.capacity
      BY <1>1, <2>2, <2>3 DEF Looks
    <3>2. PICK k \in 1 .. N : k >= p.next /\ p.walk[k] = n
      BY <1>1, <2>2, <2>3 DEF Looks
    <3>3. k # p.next
      BY <1>5, <3>1, <3>2
    <3>4. k >= q.next /\ q.walk[k] = n
      BY <1>1, <2>2, <3>2, <3>3 DEF Looks
    <3> QED BY <2>2, <3>1, <3>4
  <2>4. Looks(q)
    BY <1>1, <2>2, <2>3 DEF Looks
  <2> QED BY <1>2, <1>5, <2>1, <2>4
<1> QED BY <1>2, <1>3, <1>4, <1>5

\* A request that moves to another place, and is at a replica while it is on its way.
LEMMA RingCounts ==
  ASSUME RingInv, NEW r \in Requests, NEW there \in Stations,
         place' = [place EXCEPT ![r] = there],
         \A q \in Requests : q # r => picked'[q] = picked[q],
         NEW at0 \in Members, at0 = picked[r],
         there \in {"loaded", "in"} => picked'[r] = at0
  PROVE  /\ \A m \in Members : m # at0 => Cardinality(Inside(m))' = Cardinality(Inside(m))
         /\ Cardinality(Inside(at0)) \in Nat /\ Cardinality(Underway) \in Nat
         /\ place[r] \in {"loaded", "in"} => Cardinality(Inside(at0)) > 0
         /\ place[r] \in {"in", "half"} => Cardinality(Underway) > 0
         /\ Cardinality(Inside(at0)') = CASE
              there \in {"loaded", "in"} /\ place[r] \notin {"loaded", "in"} -> Cardinality(Inside(at0)) + 1
              [] there \notin {"loaded", "in"} /\ place[r] \in {"loaded", "in"} -> Cardinality(Inside(at0)) - 1
              [] OTHER -> Cardinality(Inside(at0))
         /\ Cardinality(Underway)' = CASE
              there \in {"in", "half"} /\ place[r] \notin {"in", "half"} -> Cardinality(Underway) + 1
              [] there \notin {"in", "half"} /\ place[r] \in {"in", "half"} -> Cardinality(Underway) - 1
              [] OTHER -> Cardinality(Underway)
<1>1. place'[r] = there /\ \A q \in Requests : q # r => place'[q] = place[q]
  BY DEF RingInv
<1>2. \A m \in Members : m # at0 => Inside(m)' = Inside(m)
  BY <1>1 DEF Inside
<1>3. Inside(at0)' = (IF there \in {"loaded", "in"} THEN Inside(at0) \cup {r} ELSE Inside(at0) \ {r})
  BY <1>1 DEF Inside
<1>4. Underway' = (IF there \in {"in", "half"} THEN Underway \cup {r} ELSE Underway \ {r})
  BY <1>1 DEF Underway
<1>5. (r \in Inside(at0) <=> place[r] \in {"loaded", "in"}) /\ (r \in Underway <=> place[r] \in {"in", "half"})
  BY DEF Inside, Underway
<1>6. IsFiniteSet(Inside(at0)) /\ IsFiniteSet(Underway)
  BY LimiterAssumption, FS_Subset DEF Inside, Underway
<1>7. /\ Cardinality(Inside(at0)) \in Nat /\ Cardinality(Underway) \in Nat
      /\ r \in Inside(at0) => Cardinality(Inside(at0)) > 0
      /\ r \in Underway => Cardinality(Underway) > 0
  BY <1>6, FS_CardinalityType, FS_EmptySet
<1>8. \A S : IsFiniteSet(S) =>
        /\ Cardinality(S \cup {r}) = IF r \in S THEN Cardinality(S) ELSE Cardinality(S) + 1
        /\ Cardinality(S \ {r}) = IF r \in S THEN Cardinality(S) - 1 ELSE Cardinality(S)
  BY FS_AddElement, FS_RemoveElement
<1> QED BY <1>2, <1>3, <1>4, <1>5, <1>6, <1>7, <1>8

LEMMA RingStep == RingInv /\ [Ring!Next]_(Ring!vars) => RingInv'
<1> SUFFICES ASSUME RingInv, [Ring!Next]_(Ring!vars) PROVE RingInv'
  OBVIOUS
<1>1. ASSUME NEW r \in Requests, Ring!Begin(r) PROVE RingInv'
  <2>1. /\ place[r] = "idle" /\ place' = [place EXCEPT ![r] = "looking"]
        /\ UNCHANGED <<loads, sum, picked, squeezed>>
    BY <1>1 DEF Ring!Begin
  <2>2. DOMAIN look' = Requests /\ \A q \in Requests : q # r => look'[q] = look[q]
    BY <1>1 DEF Ring!Begin, RingInv
  <2>3. Looks(look'[r]) /\ \A q \in Requests : q # r /\ place[q] = "looking" => Looks(look[q])
    BY <1>1, BeginLooks DEF RingInv
  <2>4. ASSUME NEW q \in Requests, place'[q] = "looking" PROVE Looks(look[q])'
    <3>1. Looks(look'[q])
      BY <2>1, <2>2, <2>3, <2>4 DEF RingInv
    <3> QED BY <2>1, <3>1 DEF Looks
  <2>5. Underway' = Underway /\ \A n \in Members : Inside(n)' = Inside(n)
    BY <2>1 DEF Underway, Inside, RingInv
  <2> QED BY <2>1, <2>2, <2>4, <2>5 DEF RingInv, RingCounted, Stations
<1>2. ASSUME NEW r \in Requests, Ring!Look(r) PROVE RingInv'
  <2>1. UNCHANGED <<loads, sum, squeezed>> /\ place[r] = "looking"
    BY <1>2, LookSteps DEF Ring!Look
  <2>2. CASE /\ place' = [place EXCEPT ![r] = "picked"] /\ look' = [look EXCEPT ![r] = None]
             /\ \E m \in Members : picked' = [picked EXCEPT ![r] = m]
    <3>1. \A q \in Requests : place'[q] = "looking" => place[q] = "looking" /\ look'[q] = look[q]
      BY <2>2 DEF RingInv
    <3>2. ASSUME NEW q \in Requests, place'[q] = "looking" PROVE Looks(look[q])'
      <4>1. Looks(look'[q])
        BY <3>1, <3>2 DEF RingInv
      <4> QED BY <2>1, <4>1 DEF Looks
    <3>3. Underway' = Underway /\ \A n \in Members : Inside(n)' = Inside(n)
      BY <2>1, <2>2 DEF Underway, Inside, RingInv
    <3> QED BY <2>1, <2>2, <3>2, <3>3 DEF RingInv, RingCounted, Stations
  <2>3. CASE UNCHANGED <<picked, place>> /\ \E q : look' = [look EXCEPT ![r] = q] /\ Looks(q)
    <3>1. PICK p : look' = [look EXCEPT ![r] = p] /\ Looks(p)
      BY <2>3
    <3>2. ASSUME NEW q \in Requests, place'[q] = "looking" PROVE Looks(look[q])'
      <4>1. look'[q] = (IF q = r THEN p ELSE look[q]) /\ place[q] = "looking"
        BY <2>3, <3>1, <3>2 DEF RingInv
      <4>2. Looks(look'[q])
        BY <3>1, <4>1 DEF RingInv
      <4> QED BY <2>1, <4>2 DEF Looks
    <3>3. Underway' = Underway /\ \A n \in Members : Inside(n)' = Inside(n)
      BY <2>3 DEF Underway, Inside
    <3> QED BY <2>1, <2>3, <3>1, <3>2, <3>3 DEF RingInv, RingCounted
  <2> QED BY <1>2, <2>2, <2>3, LookSteps
<1>3. ASSUME NEW r \in Requests, Ring!Refused(r) PROVE RingInv'
  <2>1. /\ place[r] = "picked" /\ place' = [place EXCEPT ![r] = "idle"]
        /\ picked' = [picked EXCEPT ![r] = None] /\ UNCHANGED <<loads, sum, look, squeezed>>
    BY <1>3 DEF Ring!Refused
  <2>2. Underway' = Underway /\ \A n \in Members : Inside(n)' = Inside(n)
    BY <2>1 DEF Underway, Inside, RingInv
  <2>3. \A q \in Requests : place'[q] = "looking" => place[q] = "looking" /\ Looks(look[q])
    BY <2>1 DEF RingInv
  <2>4. \A q \in Requests : place'[q] = "looking" => Looks(look[q])'
    BY <2>1, <2>3 DEF Looks
  <2> QED BY <2>1, <2>2, <2>4 DEF RingInv, RingCounted, Stations
<1>4. ASSUME NEW r \in Requests, Ring!AcquireLoad(r) PROVE RingInv'
  <2>1. /\ place[r] = "picked" /\ place' = [place EXCEPT ![r] = "loaded"]
        /\ UNCHANGED <<sum, picked, squeezed>> /\ loads' = [loads EXCEPT ![picked[r]] = @ + 1]
        /\ look' = [q \in Requests |-> IF place[q] # "looking" THEN look[q] ELSE
                     [look[q] EXCEPT !.free = {m \in @ : loads'[m] < look[q].capacity}]]
    BY <1>4 DEF Ring!AcquireLoad
  <2>2. /\ picked[r] \in Members /\ picked'[r] = picked[r]
        /\ \A q \in Requests : q # r => picked'[q] = picked[q]
    BY <2>1 DEF RingInv
  <2>3. /\ \A m \in Members : m # picked[r] => Cardinality(Inside(m))' = Cardinality(Inside(m))
        /\ Cardinality(Inside(picked[r])') = Cardinality(Inside(picked[r])) + 1
        /\ Cardinality(Underway)' = Cardinality(Underway)
    <3>1. "loaded" \in Stations
      BY DEF Stations
    <3> QED BY <2>1, <2>2, <3>1, RingCounts
  <2>4. Cardinality(Inside(picked[r]))' = Cardinality(Inside(picked[r])) + 1
    BY <2>1, <2>3
  <2>5. ASSUME NEW q \in Requests, place'[q] = "looking" PROVE Looks(look[q])'
    <3>1. place[q] = "looking" /\ Looks(look[q])
      BY <2>1, <2>5 DEF RingInv
    <3>2. look'[q] = [look[q] EXCEPT !.free = {m \in @ : loads'[m] < look[q].capacity}]
      BY <2>1, <3>1
    <3> DEFINE p == look[q]
               n == look'[q]
    <3>3. /\ DOMAIN n = DOMAIN p /\ n.eligible = p.eligible /\ n.walk = p.walk /\ n.capacity = p.capacity
          /\ n.free = {m \in p.free : loads'[m] < p.capacity} /\ n.next = p.next
      BY <3>1, <3>2 DEF Looks
    <3> QED BY <3>1, <3>3 DEF Looks
  <2>6. RingCounted'
    BY <2>1, <2>2, <2>3, <2>4 DEF RingInv, RingCounted
  <2> QED BY <2>1, <2>2, <2>5, <2>6 DEF RingInv, Stations
<1>5. ASSUME NEW r \in Requests, Ring!AcquireTotal(r) PROVE RingInv'
  <2>1. /\ place[r] = "loaded" /\ place' = [place EXCEPT ![r] = "in"]
        /\ UNCHANGED <<loads, picked, look, squeezed>> /\ sum' = sum + 1
    BY <1>5 DEF Ring!AcquireTotal
  <2>2. picked[r] \in Members /\ \A q \in Requests : picked'[q] = picked[q]
    BY <2>1 DEF RingInv
  <2>3. Cardinality(Underway)' = Cardinality(Underway) + 1
    BY <2>1, <2>2, RingCounts DEF Stations
  <2>4. \A n \in Members : Inside(n)' = Inside(n)
    BY <2>1 DEF Inside, RingInv
  <2>5. \A q \in Requests : place'[q] = "looking" => Looks(look[q])'
    BY <2>1 DEF Looks, RingInv
  <2> QED BY <2>1, <2>2, <2>3, <2>4, <2>5 DEF RingInv, RingCounted, Stations
<1>6. ASSUME NEW r \in Requests, Ring!ReleaseLoad(r) PROVE RingInv'
  <2>1. /\ place[r] = "in" /\ place' = [place EXCEPT ![r] = "half"] /\ UNCHANGED <<sum, picked, look, squeezed>>
        /\ loads' = [loads EXCEPT ![picked[r]] = Ring!Max({0, @ - 1})]
    BY <1>6 DEF Ring!ReleaseLoad
  <2>2. /\ picked[r] \in Members /\ picked'[r] = picked[r]
        /\ \A q \in Requests : q # r => picked'[q] = picked[q]
    BY <2>1 DEF RingInv
  <2>3. /\ \A m \in Members : m # picked[r] => Cardinality(Inside(m))' = Cardinality(Inside(m))
        /\ Cardinality(Inside(picked[r])') = Cardinality(Inside(picked[r])) - 1
        /\ Cardinality(Inside(picked[r])) > 0 /\ Cardinality(Inside(picked[r])) \in Nat
        /\ Cardinality(Underway)' = Cardinality(Underway)
    <3>1. "half" \in Stations
      BY DEF Stations
    <3> QED BY <2>1, <2>2, <3>1, RingCounts
  <2>4. Cardinality(Inside(picked[r]))' = Cardinality(Inside(picked[r])) - 1
    BY <2>1, <2>3
  <2>5. /\ loads[picked[r]] = Cardinality(Inside(picked[r]))
        /\ Ring!Max({0, loads[picked[r]] - 1}) = loads[picked[r]] - 1 /\ loads[picked[r]] - 1 \in Nat
    BY <2>2, <2>3, RingMax DEF RingInv, RingCounted
  <2>6. loads' = [loads EXCEPT ![picked[r]] = loads[picked[r]] - 1]
    BY <2>1, <2>5
  <2>7. RingCounted'
    BY <2>1, <2>2, <2>3, <2>4, <2>5, <2>6 DEF RingInv, RingCounted
  <2>8. \A n \in Members : loads'[n] <= loads[n] /\ loads[n] \in Nat /\ loads'[n] \in Nat
    BY <2>5, <2>6 DEF RingInv, RingCounted
  <2>9. ASSUME NEW q \in Requests, place'[q] = "looking" PROVE Looks(look[q])'
    <3>1. Looks(look[q]) /\ UNCHANGED look
      BY <2>1, <2>9 DEF RingInv
    <3> QED BY <2>8, <3>1 DEF Looks
  <2> QED BY <2>1, <2>2, <2>7, <2>9 DEF RingInv, Stations
<1>7. ASSUME NEW r \in Requests, Ring!ReleaseTotal(r) PROVE RingInv'
  <2>1. /\ place[r] = "half" /\ place' = [place EXCEPT ![r] = "idle"] /\ UNCHANGED <<loads, look, squeezed>>
        /\ sum' = Ring!Max({0, sum - 1}) /\ picked' = [picked EXCEPT ![r] = None]
    BY <1>7 DEF Ring!ReleaseTotal
  <2>2. picked[r] \in Members /\ \A q \in Requests : q # r => picked'[q] = picked[q]
    BY <2>1 DEF RingInv
  <2>3. /\ Cardinality(Underway) > 0 /\ Cardinality(Underway) \in Nat
        /\ Cardinality(Underway)' = Cardinality(Underway) - 1
    BY <2>1, <2>2, RingCounts DEF Stations
  <2>4. \A n \in Members : Inside(n)' = Inside(n)
    BY <2>1, <2>2 DEF Inside, RingInv
  <2>5. sum' = sum - 1 /\ sum' \in Nat
    BY <2>1, <2>3, RingMax DEF RingInv, RingCounted
  <2>6. \A q \in Requests : place'[q] = "looking" => Looks(look[q])'
    BY <2>1 DEF Looks, RingInv
  <2> QED BY <2>1, <2>2, <2>3, <2>4, <2>5, <2>6 DEF RingInv, RingCounted, Stations
<1>8. CASE UNCHANGED Ring!vars
  BY <1>8 DEF Ring!vars, RingInv, RingCounted, Looks, Inside, Underway
<1> QED BY <1>1, <1>2, <1>3, <1>4, <1>5, <1>6, <1>7, <1>8 DEF Ring!Next

\* Between any two steps of Pick, Acquire and Release of requests (affinity/prefix.go:102-184),
\* each counter is what was added to it and not yet taken back, and where all replicas are
\* eligible no request is sent to a full one while another had room all through its Pick;
\* for any replicas, virtual nodes and load factor of 5/4.
THEOREM RingSpread == Ring!Spec => []Ring!Spread
<1>1. RingInv => Ring!Spread
  BY RingCardinality DEF RingInv, RingCounted, Ring!Spread, Inside, Underway
<1> QED BY RingInvInit, RingStep, <1>1, PTL DEF Ring!Spec

(***************************************************************************)
(* From a file to the tier of a request (RoutingRules).                    *)
(***************************************************************************)
Size     == Len(config.rules)
Prio(k)  == config.rules[k].priority
Lex(k, l) == Prio(k) < Prio(l) \/ (Prio(k) = Prio(l) /\ k < l)

\* The policy's rules are the file's, in the order of p.
Order(p) ==
  /\ p \in [1 .. Size -> 1 .. Size] /\ \A l \in 1 .. Size : \E k \in 1 .. Size : p[k] = l
  /\ DOMAIN rules = 1 .. Size /\ Len(rules) = Size
  /\ \A k \in 1 .. Size : rules[k] = config.rules[p[k]]

\* Where the sort stands: rule outer of the file is on its way down, at inner;
\* the others before it are in order, and those it has passed are of later priority.
Partly(p) ==
  /\ outer \in 1 .. Size /\ inner \in 1 .. outer /\ p[inner] = outer
  /\ \A k \in 1 .. Size : k > outer => p[k] = k
  /\ \A k \in 1 .. outer : k # inner => p[k] < outer
  /\ \A k, l \in 1 .. outer : k < l /\ k # inner /\ l # inner => Lex(p[k], p[l])
  /\ \A k \in 1 .. outer : k > inner => Prio(outer) < Prio(p[k])
Sorting(p) == Order(p) /\ (Size # 0 => Partly(p))
Sorted(p)  == Order(p) /\ \A k, l \in 1 .. Size : k < l => Lex(p[k], p[l])

\* What validation lets through.
Accepted ==
  /\ config.targets \in Seq(Targets) /\ config.rules \in Seq(Rules)
  /\ Routing!Buildable /\ Routing!ValidRules(config)

RoutingInv ==
  /\ position \in {"decoded", "accepted", "sorting", "serving", "decided", "rejected"}
  /\ position = "decoded" => config \in Configs
  /\ position \in {"decoded", "accepted"} => outer = 1 /\ inner = 1
  /\ position \in {"accepted", "sorting", "serving", "decided"} => Accepted
  /\ position = "sorting" => \E p : Sorting(p)
  /\ position \in {"serving", "decided"} => \E p : Sorted(p)
  /\ Routing!RoutedAsConfigured

LEMMA RoutingInit == Routing!Init => RoutingInv
  BY DEF Routing!Init, RoutingInv, Routing!RoutedAsConfigured

LEMMA SizeIs == Accepted => Size \in Nat /\ \A k \in 1 .. Size : config.rules[k] \in Rules /\ Prio(k) \in Int
<1> SUFFICES ASSUME Accepted PROVE Size \in Nat /\ \A k \in 1 .. Size : config.rules[k] \in Rules /\ Prio(k) \in Int
  OBVIOUS
<1>1. config.rules \in Seq(Rules)
  BY DEF Accepted
<1>2. Size \in Nat /\ \A k \in 1 .. Size : config.rules[k] \in Rules
  BY <1>1 DEF Size
<1>3. \A x \in Rules : x.priority \in Int
  BY DEF Rules
<1> QED BY <1>2, <1>3 DEF Prio

\* The steps before there is a decision: nothing but the position is asked of the rest.
Early == position' \in {"decoded", "accepted", "sorting", "serving", "rejected"}
LEMMA EarlyRouted == Early => Routing!RoutedAsConfigured'
  BY DEF Early, Routing!RoutedAsConfigured

LEMMA DefaultedIs ==
  ASSUME NEW c0 \in Configs
  PROVE  /\ Routing!Defaulted(c0).rules \in Seq(Rules)
         /\ Routing!Defaulted(c0).targets \in Seq(Targets)
         /\ \A k \in DOMAIN Routing!Defaulted(c0).targets : Routing!Defaulted(c0).targets[k].weight # 0
<1> DEFINE d == Routing!Defaulted(c0)
           t == c0.targets
           u == [k \in DOMAIN t |-> IF t[k].weight = 0 THEN [t[k] EXCEPT !.weight = 100] ELSE t[k]]
<1>1. /\ DOMAIN c0 = {"targets", "rules", "budgets"}
      /\ t \in Seq(Targets) /\ c0.rules \in Seq(Rules)
  BY ConfigsAssumption
<1>2. d = [c0 EXCEPT !.targets = u]
  BY DEF Routing!Defaulted
<1> HIDE DEF d
<1>3. d.rules = c0.rules /\ d.targets = u
  BY <1>1, <1>2
<1>4. Len(t) \in Nat /\ DOMAIN t = 1 .. Len(t) /\ \A k \in DOMAIN t : t[k] \in Targets
  BY <1>1
<1>5. ASSUME NEW k \in DOMAIN t PROVE u[k] \in Targets /\ u[k].weight # 0
  <2>1. t[k] \in [name : STRING, tier : Int, weight : Int]
    BY <1>4, <1>5 DEF Targets
  <2> HIDE DEF t
  <2>2. u[k] = IF t[k].weight = 0 THEN [t[k] EXCEPT !.weight = 100] ELSE t[k]
    BY <1>5
  <2> HIDE DEF u
  <2>3. u[k] \in Targets
    BY <2>1, <2>2 DEF Targets
  <2>4. u[k].weight # 0
    BY <2>1, <2>2
  <2> QED BY <2>3, <2>4
<1>6. u \in Seq(Targets) /\ DOMAIN u = DOMAIN t
  <2>1. u \in [1 .. Len(t) -> Targets]
    BY <1>4, <1>5
  <2> QED BY <1>4, <2>1
<1> QED BY <1>1, <1>3, <1>5, <1>6 DEF d

LEMMA ValidateKeeps == RoutingInv /\ Routing!Validate => RoutingInv'
<1> SUFFICES ASSUME RoutingInv, Routing!Validate PROVE RoutingInv'
  OBVIOUS
<1>1. config \in Configs /\ config' = Routing!Defaulted(config) /\ outer' = 1 /\ inner' = 1
  BY DEF RoutingInv, Routing!Validate
<1>2. /\ config'.rules \in Seq(Rules) /\ config'.targets \in Seq(Targets)
      /\ \A k \in DOMAIN config'.targets : config'.targets[k].weight # 0
  BY <1>1, DefaultedIs
<1>3. CASE position' = "accepted"
  <2>1. Routing!ValidTargets(config') /\ Routing!ValidRules(config')
    BY <1>3 DEF Routing!Validate
  <2>2. \A k \in DOMAIN config'.targets : config'.targets[k].weight > 0
    <3> SUFFICES ASSUME NEW k \in DOMAIN config'.targets PROVE config'.targets[k].weight > 0
      OBVIOUS
    <3>1. config'.targets[k] \in Targets
      BY <1>2
    <3>2. \A x \in Targets : x.weight \in Int
      BY DEF Targets
    <3>3. config'.targets[k].weight >= 0
      BY <2>1 DEF Routing!ValidTargets
    <3> QED BY <1>2, <3>1, <3>2, <3>3
  <2>3. Accepted'
    BY <1>2, <2>1, <2>2 DEF Accepted, Routing!Buildable, Routing!ValidTargets, Routing!ValidRules,
       Routing!ValidRule, Routing!Names, Routing!Distinct, Routing!WellFormed, Routing!TiersOf
  <2> QED BY <1>1, <1>3, <2>3, EarlyRouted DEF RoutingInv, Early
<1>4. CASE position' = "rejected"
  BY <1>4, EarlyRouted DEF RoutingInv, Early
<1> QED BY <1>3, <1>4 DEF Routing!Validate

LEMMA BuildKeeps == RoutingInv /\ Routing!Build => RoutingInv'
<1> SUFFICES ASSUME RoutingInv, Routing!Build PROVE RoutingInv'
  OBVIOUS
<1>1. /\ Accepted /\ position' = "sorting" /\ rules' = config.rules /\ UNCHANGED <<config, outer, inner>>
      /\ outer = 1 /\ inner = 1
  BY DEF RoutingInv, Routing!Build, Accepted
<1>2. Accepted'
  BY <1>1 DEF Accepted, Routing!Buildable
<1> DEFINE p == [k \in 1 .. Size |-> k]
<1>3. Size \in Nat /\ Size' = Size /\ DOMAIN config.rules = 1 .. Size /\ \A k : Prio(k)' = Prio(k)
  BY <1>1 DEF Size, Prio, Accepted
<1>4. Order(p)'
  BY <1>1, <1>3 DEF Order, Size
<1>5. Size # 0 => Partly(p)'
  BY <1>1, <1>3 DEF Partly
<1>6. Sorting(p)'
  BY <1>3, <1>4, <1>5 DEF Sorting
<1> QED BY <1>1, <1>2, <1>6, EarlyRouted DEF RoutingInv, Early

\* One exchange of neighbours: the rule on its way down passes one of later priority.
LEMMA ExchangeSorts ==
  ASSUME NEW p, Accepted, Sorting(p), Routing!Exchange, NEW o, o = inner - 1,
         NEW q, q = [p EXCEPT ![inner] = p[o], ![o] = p[inner]]
  PROVE  Sorting(q)'
<1>1. /\ inner \in 1 .. Size /\ inner > 1 /\ rules[inner].priority < rules[o].priority
      /\ rules' = [rules EXCEPT ![inner] = rules[o], ![o] = rules[inner]] /\ inner' = o
      /\ UNCHANGED <<config, outer>>
  BY DEF Routing!Exchange, Routing!Earlier, Sorting, Order
<1>2. /\ p \in [1 .. Size -> 1 .. Size] /\ \A l \in 1 .. Size : \E k \in 1 .. Size : p[k] = l
      /\ DOMAIN rules = 1 .. Size /\ Len(rules) = Size /\ Size \in Nat
      /\ \A k \in 1 .. Size : rules[k] = config.rules[p[k]]
  BY SizeIs DEF Sorting, Order
<1>3. Partly(p)
  BY <1>1, <1>2 DEF Sorting
<1>a. outer \in 1 .. Size /\ inner \in 1 .. outer
  BY <1>3 DEF Partly
<1>4. /\ o \in 1 .. Size /\ o \in 1 .. outer /\ o # inner /\ outer \in 1 .. Size /\ inner \in 1 .. outer
      /\ o < inner /\ o = inner - 1 /\ o \in Int /\ outer \in Int /\ inner \in Int
  <2>1. Size \in Nat /\ outer \in Int /\ inner \in Int /\ inner <= outer /\ outer <= Size /\ 1 < inner
    BY <1>1, <1>2, <1>a
  <2>2. o \in Int /\ 1 <= o /\ o < inner /\ o <= outer /\ o <= Size
    BY <2>1
  <2>3. o \in 1 .. Size /\ o \in 1 .. outer
    BY <2>1, <2>2
  <2> QED BY <1>a, <2>1, <2>2, <2>3
<1>b. 1 .. outer \subseteq 1 .. Size
  BY <1>2, <1>4
<1>5. /\ q \in [1 .. Size -> 1 .. Size] /\ q[inner] = p[o] /\ q[o] = p[inner]
      /\ \A k \in 1 .. Size : k # inner /\ k # o => q[k] = p[k]
  BY <1>1, <1>2, <1>4
<1>6. ASSUME NEW l \in 1 .. Size PROVE \E k \in 1 .. Size : q[k] = l
  <2>1. PICK k \in 1 .. Size : p[k] = l
    BY <1>2
  <2> QED BY <1>1, <1>4, <1>5, <2>1
<1>7. /\ DOMAIN rules' = 1 .. Size /\ rules'[inner] = rules[o] /\ rules'[o] = rules[inner]
      /\ \A k \in 1 .. Size : k # inner /\ k # o => rules'[k] = rules[k]
  BY <1>1, <1>2, <1>4
<1>8. Len(rules') = Size
  BY <1>7, <1>2
<1>9. Size' = Size /\ (\A k : Prio(k)' = Prio(k)) /\ \A k, l : Lex(k, l)' <=> Lex(k, l)
  BY <1>1 DEF Size, Prio, Lex
<1>10. Order(q)'
  <2>1. \A k \in 1 .. Size : rules'[k] = config.rules[q[k]]
    <3> SUFFICES ASSUME NEW k \in 1 .. Size PROVE rules'[k] = config.rules[q[k]]
      OBVIOUS
    <3>1. CASE k = inner
      BY <1>2, <1>4, <1>5, <1>7, <3>1
    <3>2. CASE k = o
      BY <1>1, <1>2, <1>5, <1>7, <3>2
    <3>3. CASE k # inner /\ k # o
      <4>1. rules'[k] = rules[k] /\ q[k] = p[k]
        BY <1>5, <1>7, <3>3
      <4> QED BY <1>2, <4>1
    <3> QED BY <3>1, <3>2, <3>3
  <2>2. config' = config
    BY <1>1
  <2> QED BY <1>5, <1>6, <1>7, <1>8, <1>9, <2>1, <2>2 DEF Order
<1>11. /\ p[inner] = outer /\ p[o] < outer /\ Prio(outer) < Prio(p[o])
  <2>1. p[inner] = outer /\ p[o] < outer
    BY <1>3, <1>4 DEF Partly
  <2>2. rules[inner] = config.rules[outer] /\ rules[o] = config.rules[p[o]]
    BY <1>2, <1>4, <1>a, <1>b, <2>1
  <2> QED BY <1>1, <2>1, <2>2 DEF Prio
<1>12. \A k \in 1 .. Size : k > outer => q[k] = k
  BY <1>2, <1>3, <1>4, <1>5 DEF Partly
<1>13. \A k \in 1 .. outer : k # o => q[k] < outer
  <2> SUFFICES ASSUME NEW k \in 1 .. outer, k # o PROVE q[k] < outer
    OBVIOUS
  <2>1. CASE k = inner
    BY <1>5, <1>11, <2>1
  <2>2. CASE k # inner
    <3>1. q[k] = p[k]
      BY <1>5, <1>b, <2>2
    <3> QED BY <1>3, <2>2, <3>1 DEF Partly
  <2> QED BY <2>1, <2>2
<1>14. ASSUME NEW k \in 1 .. outer, NEW l \in 1 .. outer, k < l, k # o, l # o
       PROVE  Lex(q[k], q[l])
  <2>1. k \in 1 .. Size /\ l \in 1 .. Size
    BY <1>b
  <2>2. CASE k # inner /\ l # inner
    BY <1>3, <1>5, <1>14, <2>1, <2>2 DEF Partly
  <2>3. CASE k = inner
    <3>1. q[k] = p[o] /\ q[l] = p[l] /\ l # inner /\ o < l
      BY <1>4, <1>5, <1>14, <2>1, <2>3
    <3> QED BY <1>3, <1>4, <1>14, <3>1 DEF Partly
  <2>4. CASE l = inner
    <3>1. q[k] = p[k] /\ q[l] = p[o] /\ k # inner /\ k < o
      BY <1>4, <1>5, <1>14, <2>1, <2>4
    <3> QED BY <1>3, <1>4, <1>14, <3>1 DEF Partly
  <2> QED BY <2>2, <2>3, <2>4
<1>15. ASSUME NEW k \in 1 .. outer, k > o PROVE Prio(outer) < Prio(q[k])
  <2>1. CASE k = inner
    BY <1>5, <1>11, <2>1
  <2>2. CASE k # inner
    <3>1. k > inner /\ q[k] = p[k]
      BY <1>2, <1>4, <1>5, <1>15, <2>2
    <3> QED BY <1>3, <3>1 DEF Partly
  <2> QED BY <2>1, <2>2
<1>16. Partly(q)'
  <2>1. outer' = outer /\ inner' = o /\ q[o] = outer
    BY <1>1, <1>5, <1>11
  <2>2. \A k, l \in 1 .. outer : k < l /\ k # o /\ l # o => Lex(q[k], q[l])'
    BY <1>9, <1>14
  <2>3. \A k \in 1 .. outer : k > o => (Prio(outer) < Prio(q[k]))'
    <3>1. Prio(outer)' = Prio(outer)
      BY <1>9, <2>1 DEF Prio
    <3> QED BY <1>9, <1>15, <3>1
  <2>4. o \in 1 .. outer /\ outer \in 1 .. Size
    BY <1>4
  <2>5. \A k \in 1 .. Size : k > outer => q[k] = k
    BY <1>12
  <2>6. /\ outer' \in 1 .. Size' /\ inner' \in 1 .. outer' /\ q[inner'] = outer'
        /\ \A k \in 1 .. Size' : k > outer' => q[k] = k
    BY <1>9, <2>1, <2>4, <2>5
  <2>7. \A k \in 1 .. outer' : k # inner' => q[k] < outer'
    BY <1>13, <2>1
  <2>8. \A k, l \in 1 .. outer' : k < l /\ k # inner' /\ l # inner' => Lex(q[k], q[l])'
    BY <2>1, <2>2
  <2>9. \A k \in 1 .. outer' : k > inner' => (Prio(outer) < Prio(q[k]))'
    BY <2>1, <2>3
  <2> QED BY <2>6, <2>7, <2>8, <2>9 DEF Partly
<1> QED BY <1>10, <1>16 DEF Sorting

\* Where the rule on its way down stops it is in order with those before it.
LEMMA StopsInOrder ==
  ASSUME NEW p, Accepted, Sorting(p), Size # 0, ~(inner \in DOMAIN rules /\ Routing!Earlier)
  PROVE  \A k, l \in 1 .. outer : k < l => Lex(p[k], p[l])
<1>1. Partly(p) /\ p \in [1 .. Size -> 1 .. Size] /\ DOMAIN rules = 1 .. Size /\ Size \in Nat
  BY SizeIs DEF Sorting, Order
<1>2. outer \in 1 .. Size /\ inner \in 1 .. outer /\ p[inner] = outer /\ inner \in DOMAIN rules
  BY <1>1 DEF Partly
<1>3. \A k \in 1 .. outer : k \in 1 .. Size /\ p[k] \in 1 .. Size /\ Prio(p[k]) \in Int
  <2> SUFFICES ASSUME NEW k \in 1 .. outer
               PROVE  k \in 1 .. Size /\ p[k] \in 1 .. Size /\ Prio(p[k]) \in Int
    OBVIOUS
  <2>1. k \in 1 .. Size
    BY <1>1, <1>2
  <2>2. p[k] \in 1 .. Size
    BY <1>1, <2>1
  <2> QED BY <2>1, <2>2, SizeIs
<1>4. inner > 1 => Prio(p[inner - 1]) <= Prio(outer)
  <2> SUFFICES ASSUME inner > 1 PROVE Prio(p[inner - 1]) <= Prio(outer)
    OBVIOUS
  <2>1. ~(rules[inner].priority < rules[inner - 1].priority)
    BY <1>2 DEF Routing!Earlier
  <2>2. inner - 1 \in 1 .. Size /\ inner \in 1 .. Size
    BY <1>1, <1>2
  <2>3. rules[inner].priority = Prio(outer) /\ rules[inner - 1].priority = Prio(p[inner - 1])
    BY <1>2, <2>2 DEF Sorting, Order, Prio
  <2>4. Prio(outer) \in Int /\ Prio(p[inner - 1]) \in Int
    BY <1>2, <1>3, <2>2, SizeIs
  <2> QED BY <2>1, <2>3, <2>4
<1>5. ASSUME NEW k \in 1 .. outer, NEW l \in 1 .. outer, k < l PROVE Lex(p[k], p[l])
  <2>1. CASE k # inner /\ l # inner
    BY <1>1, <1>5, <2>1 DEF Partly
  <2>2. CASE k = inner
    BY <1>1, <1>2, <1>5, <2>2 DEF Partly, Lex
  <2>3. CASE l = inner
    <3>1. p[k] < outer /\ inner > 1 /\ p[l] = outer
      BY <1>1, <1>2, <1>5, <2>3 DEF Partly
    <3>2. Prio(p[k]) <= Prio(outer)
      <4>1. CASE k = inner - 1
        BY <1>4, <3>1, <4>1
      <4>2. CASE k # inner - 1
        <5>1. k < inner - 1 /\ inner - 1 \in 1 .. outer /\ k # inner /\ inner - 1 # inner
          BY <1>1, <1>2, <1>5, <2>3, <4>2
        <5>2. Lex(p[k], p[inner - 1])
          BY <1>1, <5>1 DEF Partly
        <5>3. Prio(p[k]) \in Int /\ Prio(p[inner - 1]) \in Int /\ Prio(outer) \in Int
          BY <1>2, <1>3, <5>1
        <5> QED BY <1>4, <3>1, <5>2, <5>3 DEF Lex
      <4> QED BY <4>1, <4>2
    <3>3. Prio(p[k]) \in Int /\ Prio(outer) \in Int
      BY <1>2, <1>3
    <3> QED BY <3>1, <3>2, <3>3 DEF Lex
  <2> QED BY <2>1, <2>2, <2>3
<1> QED BY <1>5

LEMMA ExchangeKeeps == RoutingInv /\ Routing!Exchange => RoutingInv'
<1> SUFFICES ASSUME RoutingInv, Routing!Exchange PROVE RoutingInv'
  OBVIOUS
<1>1. position = "sorting" /\ position' = "sorting" /\ Accepted /\ UNCHANGED config
  BY DEF RoutingInv, Routing!Exchange
<1>2. Accepted'
  BY <1>1 DEF Accepted, Routing!Buildable
<1>3. PICK p : Sorting(p)
  BY <1>1 DEF RoutingInv
<1> DEFINE o == inner - 1
           q == [p EXCEPT ![inner] = p[o], ![o] = p[inner]]
<1>4. \E i, r : i = o /\ r = q
  OBVIOUS
<1>5. PICK i, r : i = inner - 1 /\ r = [p EXCEPT ![inner] = p[i], ![i] = p[inner]]
  BY <1>4
<1>6. Sorting(r)'
  BY <1>1, <1>3, <1>5, ExchangeSorts
<1> QED BY <1>1, <1>2, <1>6, EarlyRouted DEF RoutingInv, Early

LEMMA TakeNextKeeps == RoutingInv /\ Routing!TakeNext => RoutingInv'
<1> SUFFICES ASSUME RoutingInv, Routing!TakeNext PROVE RoutingInv'
  OBVIOUS
<1>1. position = "sorting" /\ Accepted /\ UNCHANGED <<config, rules>>
  BY DEF RoutingInv, Routing!TakeNext
<1>2. Accepted'
  BY <1>1 DEF Accepted, Routing!Buildable
<1>3. PICK p : Sorting(p)
  BY <1>1 DEF RoutingInv
<1>4. Size' = Size /\ Size \in Nat /\ (\A k : Prio(k)' = Prio(k)) /\ \A k, l : Lex(k, l)' <=> Lex(k, l)
  BY <1>1, SizeIs DEF Size, Prio, Lex
<1>5. Order(p)' /\ Len(rules) = Size
  BY <1>1, <1>3, <1>4 DEF Sorting, Order
<1>6. Size # 0 => \A k, l \in 1 .. outer : k < l => Lex(p[k], p[l])
  BY <1>1, <1>3, StopsInOrder DEF Routing!TakeNext
<1>7. CASE outer < Size
  <2>1. position' = "sorting" /\ outer' = outer + 1 /\ inner' = outer + 1
    BY <1>1, <1>5, <1>7 DEF Routing!TakeNext
  <2>2. Size # 0 => Partly(p)'
    <3> SUFFICES ASSUME Size # 0 PROVE Partly(p)'
      OBVIOUS
    <3>1. Partly(p) /\ outer \in 1 .. Size
      BY <1>3 DEF Sorting, Partly
    <3>2. p[outer + 1] = outer + 1 /\ \A k \in 1 .. Size : k > outer + 1 => p[k] = k
      BY <1>4, <1>7, <3>1 DEF Partly
    <3>3. \A k \in 1 .. outer : p[k] < outer + 1
      <4> SUFFICES ASSUME NEW k \in 1 .. outer PROVE p[k] < outer + 1
        OBVIOUS
      <4>1. p \in [1 .. Size -> 1 .. Size] /\ p[inner] = outer /\ (k # inner => p[k] < outer)
        BY <1>3, <3>1 DEF Sorting, Order, Partly
      <4>2. k \in 1 .. Size
        BY <1>4, <3>1
      <4>3. p[k] \in 1 .. Size
        BY <4>1, <4>2
      <4>4. p[k] <= outer
        <5>1. outer \in Int /\ p[k] \in Int
          BY <1>4, <3>1, <4>3
        <5>2. CASE k = inner
          BY <4>1, <5>1, <5>2
        <5>3. CASE k # inner
          BY <4>1, <5>1, <5>3
        <5> QED BY <5>2, <5>3
      <4> QED BY <3>1, <4>3, <4>4
    <3>4. \A k \in 1 .. outer + 1 : k # outer + 1 => k \in 1 .. outer
      BY <3>1
    <3> QED BY <1>4, <1>6, <1>7, <2>1, <3>1, <3>2, <3>3, <3>4 DEF Partly
  <2>3. Sorting(p)'
    BY <1>4, <1>5, <2>2 DEF Sorting
  <2> QED BY <1>2, <2>1, <2>3, EarlyRouted DEF RoutingInv, Early
<1>8. CASE ~(outer < Size)
  <2>1. position' = "serving"
    BY <1>1, <1>5, <1>8 DEF Routing!TakeNext
  <2>2. Size # 0 => outer = Size
    BY <1>3, <1>4, <1>8 DEF Sorting, Partly
  <2>3. \A k, l \in 1 .. Size : k < l => Lex(p[k], p[l])
    BY <1>4, <1>6, <2>2
  <2>4. Sorted(p)'
    BY <1>4, <1>5, <2>3 DEF Sorted
  <2> QED BY <1>2, <2>1, <2>4, EarlyRouted DEF RoutingInv, Early
<1> QED BY <1>7, <1>8

LEMMA ExhaustKeeps ==
  ASSUME RoutingInv, NEW t, Routing!Exhaust(t)
  PROVE  RoutingInv'
<1>1. position = "serving" /\ position' = "serving" /\ UNCHANGED <<config, rules, outer, inner>>
  BY DEF Routing!Exhaust
<1>2. Accepted'
  BY <1>1 DEF RoutingInv, Accepted, Routing!Buildable
<1>3. PICK p : Sorted(p)
  BY <1>1 DEF RoutingInv
<1>4. Sorted(p)'
  BY <1>1, <1>3 DEF Sorted, Order, Size, Lex, Prio
<1> QED BY <1>1, <1>2, <1>4, EarlyRouted DEF RoutingInv, Early

LEMMA RulesAre == Accepted => DOMAIN config.rules = 1 .. Size /\ Size \in Nat
  BY DEF Accepted, Size

\* The first rule of the policy that matches is the one the file asks for.
LEMMA FirstHit ==
  ASSUME Accepted, NEW p, Sorted(p), NEW who, NEW k \in DOMAIN rules, Routing!Matches(rules[k], who),
         \A l \in DOMAIN rules : Routing!Matches(rules[l], who) => k <= l
  PROVE  /\ p[k] \in DOMAIN config.rules /\ rules[k] = config.rules[p[k]]
         /\ \A l \in DOMAIN config.rules : Routing!Matches(config.rules[l], who) =>
              Lex(p[k], l) \/ p[k] = l
<1>1. /\ p \in [1 .. Size -> 1 .. Size] /\ \A l \in 1 .. Size : \E i \in 1 .. Size : p[i] = l
      /\ DOMAIN rules = 1 .. Size /\ \A i \in 1 .. Size : rules[i] = config.rules[p[i]]
      /\ \A i, l \in 1 .. Size : i < l => Lex(p[i], p[l])
      /\ DOMAIN config.rules = 1 .. Size /\ Size \in Nat
  BY RulesAre DEF Sorted, Order
<1>2. ASSUME NEW l \in 1 .. Size, Routing!Matches(config.rules[l], who)
      PROVE  Lex(p[k], l) \/ p[k] = l
  <2>1. PICK i \in 1 .. Size : p[i] = l
    BY <1>1
  <2>2. Routing!Matches(rules[i], who)
    BY <1>1, <1>2, <2>1
  <2>3. k <= i
    BY <1>1, <2>2
  <2>4. k < i \/ k = i
    BY <1>1, <2>3
  <2> QED BY <1>1, <2>1, <2>4
<1> QED BY <1>1, <1>2

\* Of the three ways to a tier.
LEMMA ResolveIs ==
  ASSUME Accepted, NEW p, Sorted(p), NEW who
  PROVE  LET d == Routing!Resolve(who) IN
         /\ d.from = 0 /\ d.reason \in {"explicit_header", "rule", "task_default"}
         /\ d.reason = "rule" =>
              \E k \in DOMAIN config.rules :
                /\ Routing!Matches(config.rules[k], who)
                /\ \A l \in DOMAIN config.rules : Routing!Matches(config.rules[l], who) => Lex(k, l) \/ k = l
                /\ config.rules[k].name = d.rule /\ config.rules[k].tier = d.tier
         /\ d.reason = "task_default" =>
              \A k \in DOMAIN config.rules : ~Routing!Matches(config.rules[k], who)
         /\ who.hint > 0 /\ Routing!TargetsOf(who.hint) # {} =>
              d.reason = "explicit_header" /\ d.tier = who.hint
         /\ d.reason # "task_default" => Routing!TargetsOf(d.tier) # {}
         /\ d.prefer \subseteq Routing!Names(config.targets)
<1> DEFINE d     == Routing!Resolve(who)
           hits  == {k \in DOMAIN rules : Routing!Matches(rules[k], who)}
           best  == CHOOSE k \in hits : \A l \in hits : k <= l
           asked == who.hint > 0 /\ Routing!TargetsOf(who.hint) # {}
<1>1. d = IF asked THEN [Routing!NoDecision EXCEPT !.tier = who.hint, !.reason = "explicit_header"]
          ELSE IF hits # {}
          THEN [Routing!NoDecision EXCEPT !.tier = rules[best].tier, !.reason = "rule",
                                          !.rule = rules[best].name, !.prefer = rules[best].prefer]
          ELSE [Routing!NoDecision EXCEPT !.tier = Routing!DefaultTaskTier[who.task], !.reason = "task_default"]
  BY DEF Routing!Resolve
<1>2. /\ DOMAIN rules = 1 .. Size /\ DOMAIN config.rules = 1 .. Size /\ Size \in Nat
      /\ p \in [1 .. Size -> 1 .. Size] /\ \A l \in 1 .. Size : \E i \in 1 .. Size : p[i] = l
      /\ \A i \in 1 .. Size : rules[i] = config.rules[p[i]]
  BY RulesAre DEF Sorted, Order
<1> HIDE DEF d, best, asked
<1>3. CASE asked
  <2>1. d = [Routing!NoDecision EXCEPT !.tier = who.hint, !.reason = "explicit_header"]
    BY <1>1, <1>3
  <2>2. /\ d.from = 0 /\ d.reason = "explicit_header" /\ d.tier = who.hint /\ d.prefer = {}
    BY <2>1 DEF Routing!NoDecision
  <2> QED BY <1>3, <2>2 DEF asked, d
<1>4. CASE ~asked /\ hits # {}
  <2>1. best \in hits /\ \A l \in hits : best <= l
    <3>1. hits \in SUBSET (1 .. Size)
      BY <1>2
    <3> HIDE DEF hits
    <3>2. \E k \in hits : \A l \in hits : k <= l
      BY <1>2, <1>4, <3>1, Least
    <3> QED BY <3>2 DEF best
  <2> DEFINE k == p[best]
  <2>2. /\ k \in DOMAIN config.rules /\ rules[best] = config.rules[k]
        /\ \A l \in DOMAIN config.rules : Routing!Matches(config.rules[l], who) => Lex(k, l) \/ k = l
    BY <2>1, FirstHit
  <2>3. Routing!Matches(config.rules[k], who)
    BY <2>1, <2>2
  <2> HIDE DEF k
  <2> DEFINE r == config.rules[k]
  <2>4. d = [Routing!NoDecision EXCEPT !.tier = r.tier, !.reason = "rule", !.rule = r.name, !.prefer = r.prefer]
    BY <1>1, <1>4, <2>2
  <2> HIDE DEF r
  <2>5. d.from = 0 /\ d.reason = "rule" /\ d.tier = r.tier /\ d.rule = r.name /\ d.prefer = r.prefer
    BY <2>4 DEF Routing!NoDecision
  <2>6. r.tier \in Routing!TiersOf(config) /\ r.prefer \subseteq Routing!Names(config.targets)
    BY <2>2 DEF Accepted, Routing!ValidRules, Routing!ValidRule, r
  <2>7. Routing!TargetsOf(r.tier) # {}
    BY <2>6 DEF Routing!TiersOf, Routing!TargetsOf
  <2> QED BY <1>4, <2>2, <2>3, <2>5, <2>6, <2>7 DEF asked, d, r
<1>5. CASE ~asked /\ hits = {}
  <2>1. d = [Routing!NoDecision EXCEPT !.tier = Routing!DefaultTaskTier[who.task], !.reason = "task_default"]
    BY <1>1, <1>5
  <2>2. d.from = 0 /\ d.reason = "task_default" /\ d.prefer = {}
    BY <2>1 DEF Routing!NoDecision
  <2>3. ASSUME NEW l \in DOMAIN config.rules, Routing!Matches(config.rules[l], who) PROVE FALSE
    <3>1. PICK i \in 1 .. Size : p[i] = l
      BY <1>2, <2>3
    <3>2. i \in hits
      BY <1>2, <2>3, <3>1
    <3> QED BY <1>5, <3>2
  <2> QED BY <1>5, <2>2, <2>3 DEF asked, d
<1> QED BY <1>3, <1>4, <1>5

LEMMA HandleKeeps ==
  ASSUME RoutingInv, NEW h, Routing!Handle(h)
  PROVE  RoutingInv'
<1>1. /\ position = "serving" /\ position' = "decided" /\ UNCHANGED <<config, rules, outer, inner, exhausted>>
      /\ decision' = Routing!ApplyBudget(Routing!Resolve(id')) /\ Accepted
  BY DEF RoutingInv, Routing!Handle
<1>2. Accepted'
  BY <1>1 DEF Accepted, Routing!Buildable
<1>3. PICK p : Sorted(p)
  BY <1>1 DEF RoutingInv
<1>4. Sorted(p)'
  BY <1>1, <1>3 DEF Sorted, Order, Size, Lex, Prio
<1> DEFINE d == Routing!Resolve(id')
<1>5. /\ d.from = 0 /\ d.reason \in {"explicit_header", "rule", "task_default"}
      /\ d.reason = "rule" =>
           \E k \in DOMAIN config.rules :
             /\ Routing!Matches(config.rules[k], id')
             /\ \A l \in DOMAIN config.rules : Routing!Matches(config.rules[l], id') => Lex(k, l) \/ k = l
             /\ config.rules[k].name = d.rule /\ config.rules[k].tier = d.tier
      /\ d.reason = "task_default" =>
           \A k \in DOMAIN config.rules : ~Routing!Matches(config.rules[k], id')
      /\ id'.hint > 0 /\ Routing!TargetsOf(id'.hint) # {} =>
           d.reason = "explicit_header" /\ d.tier = id'.hint
      /\ d.reason # "task_default" => Routing!TargetsOf(d.tier) # {}
      /\ d.prefer \subseteq Routing!Names(config.targets)
  BY <1>1, <1>3, ResolveIs
<1> DEFINE shape == DOMAIN d = {"tier", "reason", "rule", "prefer", "from"}
<1>6. shape
  BY DEF Routing!Resolve, Routing!NoDecision
<1>7. decision' = IF d.tier \in exhausted \cap DOMAIN Routing!FallbackChain
                  THEN [d EXCEPT !.tier = Routing!FallbackChain[d.tier], !.from = d.tier] ELSE d
  BY <1>1 DEF Routing!ApplyBudget
<1>8. DOMAIN Routing!FallbackChain = {1}
  BY DEF Routing!FallbackChain
<1> DEFINE chosen == IF decision'.from # 0 THEN decision'.from ELSE decision'.tier
<1> HIDE DEF d
<1>9. /\ decision'.reason = d.reason /\ decision'.rule = d.rule /\ decision'.prefer = d.prefer
      /\ chosen = d.tier
      /\ decision'.from # 0 => decision'.from \in exhausted
  <2>1. CASE d.tier \in exhausted \cap {1}
    <3>1. decision' = [d EXCEPT !.tier = Routing!FallbackChain[d.tier], !.from = d.tier]
      BY <1>7, <1>8, <2>1
    <3> QED BY <1>6, <2>1, <3>1
  <2>2. CASE d.tier \notin exhausted \cap {1}
    <3>1. decision' = d
      BY <1>7, <1>8, <2>2
    <3> QED BY <1>5, <3>1
  <2> QED BY <2>1, <2>2
<1>10. Routing!Chosen' = d.tier
  <2>1. Routing!Chosen' = chosen
    BY DEF Routing!Chosen
  <2> HIDE DEF chosen
  <2> QED BY <1>9, <2>1
<1>11. \A k : Routing!First(k)' <=>
         /\ k \in DOMAIN config.rules /\ Routing!Matches(config.rules[k], id')
         /\ \A l \in DOMAIN config.rules : Routing!Matches(config.rules[l], id') =>
              Prio(k) < Prio(l) \/ (Prio(k) = Prio(l) /\ k <= l)
  BY <1>1 DEF Routing!First, Prio
<1>12. \A k, l \in DOMAIN config.rules : Lex(k, l) \/ k = l => Prio(k) < Prio(l) \/ (Prio(k) = Prio(l) /\ k <= l)
  <2>1. DOMAIN config.rules = 1 .. Size /\ Size \in Nat
    BY <1>1, RulesAre
  <2>2. \A k, l \in 1 .. Size : (k < l => k <= l) /\ (k = l => k <= l)
    BY <2>1
  <2> QED BY <2>1, <2>2 DEF Lex
<1>13. /\ decision'.reason = "rule" =>
            \E k \in DOMAIN config.rules :
              Routing!First(k)' /\ config.rules[k].name = decision'.rule /\ config.rules[k].tier = d.tier
       /\ decision'.reason = "task_default" => \A k \in DOMAIN config.rules : ~Routing!First(k)'
  BY <1>5, <1>9, <1>11, <1>12
<1>14. Routing!RoutedAsConfigured'
  <2>1. /\ id'.hint > 0 /\ Routing!TargetsOf(id.hint)' # {} =>
             decision'.reason = "explicit_header" /\ Routing!Chosen' = id'.hint
        /\ decision'.reason # "task_default" => Routing!TargetsOf(Routing!Chosen)' # {}
    BY <1>1, <1>5, <1>9, <1>10 DEF Routing!TargetsOf
  <2>2. decision'.prefer \subseteq Routing!Names(config'.targets)
    BY <1>1, <1>5, <1>9
  <2>3. decision'.reason = "rule" =>
          \E k \in DOMAIN config'.rules :
            Routing!First(k)' /\ config'.rules[k].name = decision'.rule /\ config'.rules[k].tier = Routing!Chosen'
    BY <1>1, <1>10, <1>13
  <2>4. decision'.reason = "task_default" => \A k \in DOMAIN config'.rules : ~Routing!First(k)'
    BY <1>1, <1>13
  <2>5. decision'.from # 0 => decision'.from \in exhausted'
    BY <1>1, <1>9
  <2> QED BY <1>1, <2>1, <2>2, <2>3, <2>4, <2>5 DEF Routing!RoutedAsConfigured
<1> QED BY <1>1, <1>2, <1>4, <1>14 DEF RoutingInv

LEMMA RoutingStep == RoutingInv /\ [Routing!Next]_(Routing!vars) => RoutingInv'
<1> SUFFICES ASSUME RoutingInv, [Routing!Next]_(Routing!vars) PROVE RoutingInv'
  OBVIOUS
<1>1. CASE UNCHANGED Routing!vars
  <2>1. UNCHANGED <<config, position, rules, outer, inner, exhausted, id, decision>>
    BY <1>1 DEF Routing!vars
  <2>2. Accepted' <=> Accepted
    BY <2>1 DEF Accepted, Routing!Buildable
  <2>3. \A p : (Sorting(p)' <=> Sorting(p)) /\ (Sorted(p)' <=> Sorted(p))
    BY <2>1 DEF Sorting, Sorted, Partly, Order, Size, Lex, Prio
  <2>4. Routing!RoutedAsConfigured'
    BY <2>1 DEF RoutingInv, Routing!RoutedAsConfigured, Routing!First, Routing!Chosen, Routing!TargetsOf
  <2> QED BY <2>1, <2>2, <2>3, <2>4 DEF RoutingInv
<1> QED BY <1>1, ValidateKeeps, BuildKeeps, ExchangeKeeps, TakeNextKeeps, ExhaustKeeps, HandleKeeps
        DEF Routing!Next

\* What validation accepts is never refused (cmd/airlock-gateway/config.go), the sort is stable,
\* and a request goes where the file says (routing/policy.go): by its header, by the first rule
\* of least priority that matches, by its task; for any file and any headers.
THEOREM RoutingAsConfigured == Routing!Spec => []Routing!RoutedAsConfigured
<1>1. RoutingInv => Routing!RoutedAsConfigured
  BY DEF RoutingInv
<1> QED BY RoutingInit, RoutingStep, <1>1, PTL DEF Routing!Spec

\* Both, in the specification of the run: where a request goes (routing/policy.go) and
\* to which of the replicas there (affinity/prefix.go).
THEOREM ServicesSpread == ServicesSpec => []Spread
<1>1. ServicesInit => Ring!Init /\ Routing!Init
  BY DEF ServicesInit
<1>2. [ServicesNext]_allVars => [Ring!Next]_(Ring!vars)
  BY DEF ServicesNext, allVars, affinityVars, Ring!vars
<1>3. [ServicesNext]_allVars => [Routing!Next]_(Routing!vars)
  BY DEF ServicesNext, allVars, routingVars, Routing!vars
<1>4. ServicesSpec => Ring!Spec /\ Routing!Spec
  BY <1>1, <1>2, <1>3, PTL DEF ServicesSpec, Ring!Spec, Routing!Spec
<1> QED BY <1>4, RingSpread, RoutingAsConfigured, PTL DEF Spread

=============================================================================
