------------------------- MODULE SessionVaultProofs -------------------------
(***************************************************************************)
(* One request and its answer: the vault's invariant, its safety properties*)
(* and its refinement of the pseudonym table, for any number of goroutines,*)
(* types and values; then the audit sink, the NER client, and the streamed *)
(* answer: its events, its tool calls and its hold-back buffers.           *)
(***************************************************************************)
EXTENDS SessionParts, FiniteSetTheorems, WellFoundedInduction, TLAPS

\* Go's m[k] = v keeps the keys in S and the values in T.
LEMMA PutType ==
  ASSUME NEW S, NEW T, NEW m, DOMAIN m \subseteq S, m \in [DOMAIN m -> T],
         NEW k \in S, NEW v \in T
  PROVE  /\ DOMAIN Put(m, k, v) \subseteq S
         /\ Put(m, k, v) \in [DOMAIN Put(m, k, v) -> T]
  BY DEF Put

LEMMA InitIInv == Init => IInv
  <1> SUFFICES ASSUME Init PROVE IInv
    OBVIOUS
  <1>1. TypeOK
    BY DEF Init, TypeOK, EmptyMap
  <1>2. IssuedInForward /\ ForwardReverse /\ ForwardInjective /\ CounterBounds
    BY DEF Init, EmptyMap, IssuedInForward, ForwardReverse, ForwardInjective, CounterBounds
  <1> QED BY <1>1, <1>2 DEF IInv

\* The step that takes an ordinal: the placeholder is fresh because every
\* registered one of the type is below the counter.
LEMMA AllocateIInv ==
  ASSUME IInv, NEW g \in Procs, Allocate(g)
  PROVE  IInv'
  <1> DEFINE e == wanted[g]
             p == <<e[1], counters[e[1]]>>
  <1>1. /\ e \in Entities
        /\ e \notin DOMAIN forward
        /\ e[1] \in Types /\ e[2] \in Values /\ e = <<e[1], e[2]>>
        /\ p \in Placeholders /\ p[1] = e[1] /\ p[2] = counters[e[1]]
    BY DEF IInv, TypeOK, Allocate, MissedTwice, Entities, Placeholders
  <1>2. /\ counters' = [counters EXCEPT ![e[1]] = @ + 1]
        /\ forward' = Put(forward, e, p)
        /\ reverse' = Put(reverse, p, e[2])
        /\ issued' = issued \cup {<<e, p>>}
        /\ wanted' = [wanted EXCEPT ![g] = NoEntity]
    BY DEF Allocate, AdvanceCounters
  <1>3. p \notin DOMAIN reverse
    BY <1>1 DEF IInv, TypeOK, CounterBounds, Placeholders
  <1> HIDE DEF e, p
  <1>4. /\ DOMAIN forward' = DOMAIN forward \cup {e}
        /\ forward'[e] = p
        /\ \A f \in DOMAIN forward : forward'[f] = forward[f]
    BY <1>1, <1>2 DEF Put
  <1>5. /\ DOMAIN reverse' = DOMAIN reverse \cup {p}
        /\ reverse'[p] = e[2]
        /\ \A q \in DOMAIN reverse : reverse'[q] = reverse[q]
    BY <1>2, <1>3 DEF Put
  <1>6. TypeOK'
    <2>1. DOMAIN forward' \subseteq Entities /\ forward' \in [DOMAIN forward' -> Placeholders]
      BY <1>1, <1>2, PutType DEF IInv, TypeOK
    <2>2. DOMAIN reverse' \subseteq Placeholders /\ reverse' \in [DOMAIN reverse' -> Values]
      BY <1>1, <1>2, PutType DEF IInv, TypeOK
    <2>3. counters' \in [Types -> Nat] /\ wanted' \in [Procs -> Entities \cup {NoEntity}]
      BY <1>1, <1>2 DEF IInv, TypeOK
    <2>4. issued' \subseteq Entities \X Placeholders
      BY <1>1, <1>2 DEF IInv, TypeOK
    <2> QED BY <2>1, <2>2, <2>3, <2>4 DEF TypeOK
  <1>7. IssuedInForward'
    BY <1>1, <1>2, <1>4 DEF IInv, IssuedInForward
  <1>8. ForwardReverse'
    BY <1>1, <1>3, <1>4, <1>5 DEF IInv, ForwardReverse
  <1>9. ForwardInjective'
    BY <1>1, <1>3, <1>4 DEF IInv, ForwardReverse, ForwardInjective
  <1>10. CounterBounds'
    <2>1. \A q \in DOMAIN reverse' : q[2] < counters'[q[1]]
      BY <1>1, <1>2, <1>5 DEF IInv, TypeOK, CounterBounds, Placeholders
    <2>2. ASSUME NEW t \in Types, NEW i \in 0 .. counters'[t] - 1
          PROVE  <<t, i>> \in DOMAIN reverse'
      <3>1. CASE t = e[1] /\ i = counters[t]
        <4>1. <<t, i>> = p BY <3>1, <1>1 DEF p
        <4> QED BY <4>1, <1>5
      <3>2. CASE ~(t = e[1] /\ i = counters[t])
        <4>1. i \in 0 .. counters[t] - 1
          BY <2>2, <3>2, <1>1, <1>2 DEF IInv, TypeOK
        <4> QED BY <4>1, <1>5 DEF IInv, CounterBounds
      <3> QED BY <3>1, <3>2
    <2> QED BY <2>1, <2>2 DEF CounterBounds
  <1> QED BY <1>6, <1>7, <1>8, <1>9, <1>10 DEF IInv

LEMMA NextIInv == IInv /\ [Next]_vars => IInv'
  <1> SUFFICES ASSUME IInv, [Next]_vars PROVE IInv'
    OBVIOUS
  <1>1. ASSUME NEW g \in Procs, NEW e \in Entities, Lookup(g, e) PROVE IInv'
    <2>1. UNCHANGED <<forward, reverse, counters>>
      BY <1>1 DEF Lookup
    <2>2. wanted' \in [Procs -> Entities \cup {NoEntity}]
      BY <1>1 DEF Lookup, IInv, TypeOK
    <2>3. issued' \subseteq Entities \X Placeholders /\ IssuedInForward'
      BY <1>1 DEF Lookup, IInv, TypeOK, IssuedInForward
    <2> QED
      BY <2>1, <2>2, <2>3
      DEF IInv, TypeOK, ForwardReverse, ForwardInjective, CounterBounds
  <1>2. ASSUME NEW g \in Procs, LookupAgain(g) PROVE IInv'
    <2>1. UNCHANGED <<forward, reverse, counters>>
      BY <1>2 DEF LookupAgain
    <2>2. wanted' \in [Procs -> Entities \cup {NoEntity}]
      BY <1>2 DEF LookupAgain, IInv, TypeOK
    <2>3. issued' \subseteq Entities \X Placeholders /\ IssuedInForward'
      BY <1>2 DEF LookupAgain, IInv, TypeOK, IssuedInForward
    <2> QED
      BY <2>1, <2>2, <2>3
      DEF IInv, TypeOK, ForwardReverse, ForwardInjective, CounterBounds
  <1>3. ASSUME NEW g \in Procs, Allocate(g) PROVE IInv'
    BY <1>3, AllocateIInv
  <1>4. CASE Purge
    <2>1. TypeOK'
      BY <1>4 DEF Purge, ClearedCounters, IInv, TypeOK, EmptyMap
    <2> QED
      BY <1>4, <2>1 DEF Purge, ClearedCounters, EmptyMap, IInv, IssuedInForward, ForwardReverse,
                        ForwardInjective, CounterBounds
  <1>5. CASE UNCHANGED vars
    BY <1>5 DEF vars, IInv, TypeOK, IssuedInForward, ForwardReverse,
                ForwardInjective, CounterBounds
  <1> QED BY <1>1, <1>2, <1>3, <1>4, <1>5 DEF Next

\* The maps of a session vault stay inverse to each other and every ordinal
\* below a counter is taken, whatever the goroutines and Purge do.
THEOREM VaultInvariant == Spec => []IInv
  BY InitIInv, NextIInv, PTL DEF Spec

\* PlaceholderFor is stable and one-to-one between two Purges: its two locked
\* halves never give one entity two placeholders, or two entities one.
THEOREM VaultAgreement == Spec => []Agreement
  <1>1. IInv => Agreement
    BY DEF IInv, TypeOK, IssuedInForward, ForwardInjective, Agreement
  <1> QED BY <1>1, VaultInvariant, PTL

\* A placeholder that was handed out resolves to the value it was handed out
\* for, as long as the vault has not been purged.
THEOREM VaultRoundTrip == Spec => []RoundTrip
  <1>1. IInv => RoundTrip
    BY DEF IInv, IssuedInForward, ForwardReverse, RoundTrip, Resolve
  <1> QED BY <1>1, VaultInvariant, PTL

\* The final leak check knows every value a placeholder was handed out for.
THEOREM VaultScanCatchesIssued == Spec => []ScanCatchesIssued
  <1>1. IInv => ScanCatchesIssued
    <2> SUFFICES ASSUME IInv, NEW a \in issued, NEW leaked \in SUBSET Values, a[1][2] \in leaked
                 PROVE  a[1][1] \in ScanLeak(leaked)
      BY DEF ScanCatchesIssued
    <2>1. /\ forward[a[1]] \in DOMAIN reverse
          /\ reverse[forward[a[1]]] = a[1][2]
          /\ forward[a[1]][1] = a[1][1]
      BY DEF IInv, IssuedInForward, ForwardReverse
    <2> QED BY <2>1 DEF ScanLeak
  <1> QED BY <1>1, VaultInvariant, PTL

\* The ordinals of a type are 0 .. counter-1, none skipped and none twice.
THEOREM VaultOrdinalsDense == Spec => []OrdinalsDense
  <1>1. IInv => OrdinalsDense
    <2> SUFFICES ASSUME IInv, NEW t \in Types
                 PROVE  AuditCounts(t) = {<<t, i>> : i \in 0 .. counters[t] - 1}
      BY DEF OrdinalsDense
    <2>1. ASSUME NEW p \in AuditCounts(t) PROVE p \in {<<t, i>> : i \in 0 .. counters[t] - 1}
      <3>1. p \in Placeholders /\ p[1] = t /\ p[2] < counters[t] /\ p \in DOMAIN reverse
        BY <2>1 DEF AuditCounts, IInv, TypeOK, CounterBounds
      <3>2. p = <<t, p[2]>> /\ p[2] \in 0 .. counters[t] - 1
        BY <3>1 DEF Placeholders, IInv, TypeOK
      <3> QED BY <3>2
    <2>2. ASSUME NEW i \in 0 .. counters[t] - 1 PROVE <<t, i>> \in AuditCounts(t)
      BY DEF IInv, CounterBounds, AuditCounts
    <2> QED BY <2>1, <2>2
  <1> QED BY <1>1, VaultInvariant, PTL

-----------------------------------------------------------------------------
\* The refinement: the goroutine that allocates performs Bind, Purge performs
\* Forget, and both lookups stutter.
Graph(m) == {<<e, m[e]>> : e \in DOMAIN m}

LEMMA AllocateBinds ==
  ASSUME IInv, NEW g \in Procs, Allocate(g)
  PROVE  Abstract!Next
  <1> DEFINE e == wanted[g]
             p == <<e[1], counters[e[1]]>>
             b == <<e, p>>
  <1>1. e \in Entities /\ e \notin DOMAIN forward /\ p \in Placeholders
    BY DEF IInv, TypeOK, Allocate, MissedTwice, Entities, Placeholders
  <1>2. \A f \in DOMAIN forward : forward[f] # p
    BY <1>1 DEF IInv, TypeOK, ForwardReverse, CounterBounds, Placeholders
  <1>3. Graph(forward') = Graph(forward) \cup {b}
    BY <1>1 DEF Allocate, Put, Graph
  <1>4. b \in Entities \X Placeholders /\ b[2][1] = b[1][1]
    BY <1>1
  <1>5. \A c \in Graph(forward) : c[1] # b[1] /\ c[2] # b[2]
    BY <1>1, <1>2 DEF Graph
  <1> HIDE DEF b
  <1>6. \E d \in Graph(forward') : Abstract!Bind(d)
    <2>1. b \in Graph(forward') BY <1>3
    <2>2. Abstract!Bind(b)
      BY <1>3, <1>4, <1>5
      DEF Abstract!Bind, Graph, Entities, Placeholders, Abstract!Entities, Abstract!Placeholders
    <2> QED BY <2>1, <2>2 DEF Abstract!Bind
  <1> QED BY <1>6 DEF Abstract!Next, Graph

\* A SessionVault with its locks and its two indexes implements the abstract
\* pseudonym table.
THEOREM VaultRefinesPseudonyms == Spec => ImplementsPseudonyms
  <1>1. Init => Abstract!Init
    BY DEF Init, EmptyMap, Abstract!Init
  <1>2. IInv /\ [Next]_vars => [Abstract!Next]_{<<e, forward[e]>> : e \in DOMAIN forward}
    <2> SUFFICES ASSUME IInv, [Next]_vars
                 PROVE  Abstract!Next \/ UNCHANGED forward
      OBVIOUS
    <2>1. ASSUME NEW g \in Procs, NEW e \in Entities, Lookup(g, e) PROVE UNCHANGED forward
      BY <2>1 DEF Lookup
    <2>2. ASSUME NEW g \in Procs, LookupAgain(g) PROVE UNCHANGED forward
      BY <2>2 DEF LookupAgain
    <2>3. ASSUME NEW g \in Procs, Allocate(g) PROVE Abstract!Next
      BY <2>3, AllocateBinds
    <2>4. CASE Purge
      BY <2>4 DEF Purge, EmptyMap, Abstract!Next, Abstract!Forget
    <2>5. CASE UNCHANGED vars
      BY <2>5 DEF vars
    <2> QED BY <2>1, <2>2, <2>3, <2>4, <2>5 DEF Next
  <1> QED BY <1>1, <1>2, VaultInvariant, PTL DEF Spec, ImplementsPseudonyms, Abstract!Spec


(***************************************************************************)
(* The audit sink (Audit).                                                 *)
(***************************************************************************)
\* What is in a sequence when an element is put behind it, and when it has one no more.
LEMMA EventsAppend ==
  ASSUME NEW s \in Seq(Nat), NEW e \in Nat
  PROVE  Siem!Events(Append(s, e)) = Siem!Events(s) \cup {e} /\ Append(s, e) \in Seq(Nat)
<1>1. /\ Len(Append(s, e)) = Len(s) + 1 /\ Append(s, e)[Len(s) + 1] = e
      /\ \A k \in 1 .. Len(s) : Append(s, e)[k] = s[k] /\ Len(s) \in Nat
  OBVIOUS
<1>2. 1 .. Len(s) + 1 = 1 .. Len(s) \cup {Len(s) + 1}
  OBVIOUS
<1> QED BY <1>1, <1>2 DEF Siem!Events

LEMMA EventsTail ==
  ASSUME NEW s \in Seq(Nat), s # <<>>
  PROVE  /\ Siem!Events(s) = {Head(s)} \cup Siem!Events(Tail(s))
         /\ Head(s) \in Nat /\ Tail(s) \in Seq(Nat) /\ Len(Tail(s)) = Len(s) - 1
         /\ \A k \in 1 .. Len(s) - 1 : Tail(s)[k] = s[k + 1]
         /\ (\A k, l \in 1 .. Len(s) : s[k] = s[l] => k = l) => Head(s) \notin Siem!Events(Tail(s))
<1>1. /\ Len(s) \in Nat \ {0} /\ Head(s) = s[1] /\ Head(s) \in Nat
      /\ Tail(s) \in Seq(Nat) /\ Len(Tail(s)) = Len(s) - 1
      /\ \A k \in 1 .. Len(s) - 1 : Tail(s)[k] = s[k + 1]
  OBVIOUS
<1>2. Siem!Events(Tail(s)) = {s[k + 1] : k \in 1 .. Len(s) - 1}
  BY <1>1 DEF Siem!Events
<1>3. Siem!Events(s) = {Head(s)} \cup Siem!Events(Tail(s))
  <2>1. \A k \in 1 .. Len(s) : k = 1 \/ (k - 1 \in 1 .. Len(s) - 1 /\ k = (k - 1) + 1)
    BY <1>1
  <2>2. \A x \in Siem!Events(s) : x \in {Head(s)} \cup Siem!Events(Tail(s))
    <3> SUFFICES ASSUME NEW k \in 1 .. Len(s), s[k] # Head(s)
                 PROVE  s[k] \in Siem!Events(Tail(s))
      BY DEF Siem!Events
    <3>1. k - 1 \in 1 .. Len(s) - 1 /\ k = (k - 1) + 1
      BY <1>1, <2>1
    <3>2. s[(k - 1) + 1] \in Siem!Events(Tail(s))
      BY <1>2, <3>1
    <3> QED BY <3>1, <3>2
  <2>3. \A k \in 1 .. Len(s) - 1 : k + 1 \in 1 .. Len(s)
    BY <1>1
  <2>4. Siem!Events(Tail(s)) \subseteq Siem!Events(s) /\ Head(s) \in Siem!Events(s)
    BY <1>1, <1>2, <2>3 DEF Siem!Events
  <2> QED BY <2>2, <2>4
<1>4. ASSUME \A k, l \in 1 .. Len(s) : s[k] = s[l] => k = l, Head(s) \in Siem!Events(Tail(s))
      PROVE  FALSE
  <2>1. PICK k \in 1 .. Len(s) - 1 : s[k + 1] = s[1]
    BY <1>1, <1>2, <1>4
  <2>2. k + 1 \in 1 .. Len(s) /\ 1 \in 1 .. Len(s) /\ k + 1 # 1
    BY <1>1, <2>1
  <2> QED BY <1>4, <2>1, <2>2
<1> QED BY <1>1, <1>3, <1>4

LEMMA AuditInit == Siem!Init => Siem!IInv /\ Siem!AuditAccounted
<1> SUFFICES ASSUME Siem!Init PROVE Siem!IInv /\ Siem!AuditAccounted
  OBVIOUS
<1>1. Siem!Events(queue) = {} /\ Siem!Events(batch) = {} /\ 1 .. emitted = {} /\ Len(queue) = 0
  BY DEF Siem!Init, Siem!Events
<1>2. closing = [asked |-> FALSE, upTo |-> 0] /\ FALSE \in BOOLEAN
  BY DEF Siem!Init
<1> QED BY <1>1, <1>2 DEF Siem!Init, Siem!IInv, Siem!TypeOK, Siem!WaitsOnce, Siem!Ending, Siem!AuditAccounted

\* A request puts an event into the queue, or it is dropped and counted.
LEMMA EmitKeeps ==
  ASSUME Siem!IInv, Siem!AuditAccounted, Siem!Emit
  PROVE  Siem!IInv' /\ Siem!AuditAccounted'
<1>1. /\ emitted' = emitted + 1 /\ UNCHANGED <<batch, worker, closing, delivered, failed>>
      /\ \/ queue' = Append(queue, emitted + 1) /\ dropped' = dropped
         \/ queue' = queue /\ dropped' = dropped \cup {emitted + 1}
  BY DEF Siem!Emit
<1>2. /\ emitted \in Nat /\ queue \in Seq(Nat) /\ batch \in Seq(Nat) /\ Len(queue) \in Nat
      /\ closing \in [asked : BOOLEAN, upTo : Nat] /\ closing.upTo <= emitted
  BY DEF Siem!IInv, Siem!TypeOK, Siem!Ending
<1>3. 1 .. emitted + 1 = 1 .. emitted \cup {emitted + 1} /\ emitted + 1 \notin 1 .. emitted
  BY <1>2
<1>4. /\ Siem!Events(queue) \subseteq 1 .. emitted /\ Siem!Events(batch) \subseteq 1 .. emitted
      /\ dropped \cup delivered \cup failed \subseteq 1 .. emitted
  BY DEF Siem!AuditAccounted
<1>5. Siem!Events(batch)' = Siem!Events(batch)
  BY <1>1 DEF Siem!Events
<1>6. CASE queue' = Append(queue, emitted + 1) /\ dropped' = dropped
  <2>1. Siem!Events(queue)' = Siem!Events(queue) \cup {emitted + 1} /\ queue' \in Seq(Nat)
    <3>1. Siem!Events(queue') = Siem!Events(queue) \cup {emitted + 1} /\ queue' \in Seq(Nat)
      BY <1>2, <1>6, EventsAppend
    <3> QED BY <3>1 DEF Siem!Events
  <2>2. \A k, l \in 1 .. Len(queue') : queue'[k] = queue'[l] => k = l
    <3>1. /\ Len(queue') = Len(queue) + 1 /\ queue'[Len(queue) + 1] = emitted + 1
          /\ \A k \in 1 .. Len(queue) : queue'[k] = queue[k] /\ queue[k] \in Siem!Events(queue)
      BY <1>2, <1>6 DEF Siem!Events
    <3>2. \A k \in 1 .. Len(queue) : queue'[k] # emitted + 1
      BY <1>3, <1>4, <3>1
    <3>3. \A k \in 1 .. Len(queue') : k \in 1 .. Len(queue) \/ k = Len(queue) + 1
      BY <1>2, <3>1
    <3> QED BY <3>1, <3>2, <3>3 DEF Siem!IInv, Siem!WaitsOnce
  <2>3. Siem!IInv'
    BY <1>1, <1>2, <1>3, <1>4, <1>5, <2>1, <2>2
    DEF Siem!IInv, Siem!TypeOK, Siem!WaitsOnce, Siem!Ending
  <2>4. Siem!AuditAccounted'
    BY <1>1, <1>3, <1>4, <1>5, <1>6, <2>1 DEF Siem!AuditAccounted
  <2> QED BY <2>3, <2>4
<1>7. CASE queue' = queue /\ dropped' = dropped \cup {emitted + 1}
  <2>1. Siem!Events(queue)' = Siem!Events(queue)
    BY <1>7 DEF Siem!Events
  <2>2. Siem!IInv'
    BY <1>1, <1>2, <1>5, <1>7, <2>1 DEF Siem!IInv, Siem!TypeOK, Siem!WaitsOnce, Siem!Ending
  <2>3. Siem!AuditAccounted'
    BY <1>1, <1>3, <1>4, <1>5, <1>7, <2>1 DEF Siem!AuditAccounted
  <2> QED BY <2>2, <2>3
<1> QED BY <1>1, <1>6, <1>7

\* The worker takes events out of the queue and out of the batch, to where they count.
LEMMA WorkerKeeps ==
  ASSUME Siem!IInv, Siem!AuditAccounted, Siem!Receive \/ Siem!Flush \/ Siem!Leave
  PROVE  Siem!IInv' /\ Siem!AuditAccounted'
<1>1. /\ queue \in Seq(Nat) /\ batch \in Seq(Nat)
      /\ \A k, l \in 1 .. Len(queue) : queue[k] = queue[l] => k = l
      /\ Siem!Events(queue) \cap Siem!Events(batch) = {}
  BY DEF Siem!IInv, Siem!TypeOK, Siem!WaitsOnce
<1>2. Siem!Events(<<>>) = {} /\ <<>> \in Seq(Nat)
  BY DEF Siem!Events
<1>3. ASSUME NEW some, some \in Seq(Nat), Siem!Deliver(some)
      PROVE  \/ delivered' = delivered \cup Siem!Events(some) /\ failed' = failed
             \/ failed' = failed \cup Siem!Events(some) /\ delivered' = delivered
  BY <1>3 DEF Siem!Deliver
<1>4. CASE Siem!Receive
  <2> DEFINE more == Append(batch, Head(queue))
  <2>1. /\ queue # <<>> /\ queue' = Tail(queue) /\ worker # "gone"
        /\ UNCHANGED <<worker, closing, emitted, dropped>>
        /\ \/ batch' = <<>> /\ Siem!Deliver(more)
           \/ batch' = more /\ UNCHANGED <<delivered, failed>>
    BY <1>4 DEF Siem!Receive
  <2>2. /\ Siem!Events(queue) = {Head(queue)} \cup Siem!Events(queue')
        /\ Head(queue) \in Nat /\ queue' \in Seq(Nat) /\ Len(queue') = Len(queue) - 1
        /\ \A k \in 1 .. Len(queue) - 1 : queue'[k] = queue[k + 1]
        /\ Head(queue) \notin Siem!Events(queue')
    BY <1>1, <2>1, EventsTail
  <2>3. more \in Seq(Nat) /\ Siem!Events(more) = Siem!Events(batch) \cup {Head(queue)}
    BY <1>1, <2>2, EventsAppend
  <2> HIDE DEF more
  <2>4. \A k, l \in 1 .. Len(queue') : queue'[k] = queue'[l] => k = l
    <3> SUFFICES ASSUME NEW k \in 1 .. Len(queue'), NEW l \in 1 .. Len(queue'), queue'[k] = queue'[l]
                 PROVE  k = l
      OBVIOUS
    <3>1. Len(queue) \in Nat /\ k + 1 \in 1 .. Len(queue) /\ l + 1 \in 1 .. Len(queue)
      BY <1>1, <2>2
    <3>2. queue[k + 1] = queue[l + 1]
      BY <2>2
    <3>3. k + 1 = l + 1
      BY <1>1, <3>1, <3>2
    <3> QED BY <3>3
  <2>5. batch' \in Seq(Nat) /\ Siem!Events(queue') \cap Siem!Events(batch') = {}
    <3>1. CASE batch' = <<>>
      BY <1>2, <3>1
    <3>2. CASE batch' = more
      BY <1>1, <2>2, <2>3, <3>2
    <3> QED BY <2>1, <3>1, <3>2
  <2>6. Siem!IInv'
    BY <2>1, <2>2, <2>4, <2>5
    DEF Siem!IInv, Siem!TypeOK, Siem!WaitsOnce, Siem!Ending, Siem!Events
  <2>7. CASE batch' = more /\ UNCHANGED <<delivered, failed>>
    <3>1. Siem!Events(queue') \cup Siem!Events(batch') = Siem!Events(queue) \cup Siem!Events(batch)
      BY <2>2, <2>3, <2>7
    <3>2. worker' = worker /\ closing' = closing /\ emitted' = emitted /\ dropped' = dropped
      BY <2>1
    <3> QED BY <2>1, <2>6, <2>7, <3>1, <3>2 DEF Siem!AuditAccounted, Siem!Events
  <2>8. CASE batch' = <<>> /\ Siem!Deliver(more)
    <3>1. \/ delivered' = delivered \cup Siem!Events(more) /\ failed' = failed
          \/ failed' = failed \cup Siem!Events(more) /\ delivered' = delivered
      BY <1>3, <2>3, <2>8
    <3>2. Siem!Events(more) \subseteq Siem!Events(queue) \cup Siem!Events(batch)
      BY <2>2, <2>3
    <3>3. /\ Siem!Events(queue') \cup Siem!Events(more) = Siem!Events(queue) \cup Siem!Events(batch)
          /\ Siem!Events(queue') \cap Siem!Events(more) = {} /\ Siem!Events(batch') = {}
      BY <1>1, <1>2, <2>2, <2>3, <2>8
    <3>4. Siem!AuditAccounted'
      BY <2>1, <3>1, <3>2, <3>3 DEF Siem!AuditAccounted, Siem!Events
    <3> QED BY <2>6, <3>4
  <2> QED BY <2>1, <2>7, <2>8
<1>5. CASE Siem!Flush \/ Siem!Leave
  <2>1. /\ batch' = <<>> /\ Siem!Deliver(batch) /\ UNCHANGED <<queue, closing, emitted, dropped>>
        /\ \/ worker' = worker /\ worker # "gone"
           \/ worker' = "gone" /\ worker = "draining" /\ queue = <<>>
    BY <1>5 DEF Siem!Flush, Siem!Leave, Siem!Drained
  <2>2. \/ delivered' = delivered \cup Siem!Events(batch) /\ failed' = failed
        \/ failed' = failed \cup Siem!Events(batch) /\ delivered' = delivered
    BY <1>1, <1>3, <2>1
  <2>3. Siem!Events(batch') = {} /\ Siem!Events(queue') = Siem!Events(queue) /\ batch' \in Seq(Nat)
    BY <1>2, <2>1
  <2>4. Siem!IInv'
    BY <2>1, <2>3 DEF Siem!IInv, Siem!TypeOK, Siem!WaitsOnce, Siem!Ending, Siem!Events
  <2>5. worker' = "gone" => 1 .. closing'.upTo \subseteq dropped' \cup delivered' \cup failed'
    <3>1. worker' = "gone" => queue = <<>>
      BY <2>1
    <3>2. closing.upTo \in Nat /\ emitted \in Nat /\ closing.upTo <= emitted
      BY DEF Siem!IInv, Siem!TypeOK, Siem!Ending
    <3>3. 1 .. closing.upTo \subseteq 1 .. emitted
      BY <3>2
    <3> QED BY <1>2, <2>1, <2>2, <3>1, <3>3 DEF Siem!AuditAccounted
  <2>6. Siem!AuditAccounted'
    BY <1>1, <2>1, <2>2, <2>3, <2>5 DEF Siem!AuditAccounted, Siem!Events
  <2> QED BY <2>4, <2>6
<1> QED BY <1>4, <1>5

LEMMA ClosingKeeps ==
  ASSUME Siem!IInv, Siem!AuditAccounted,
         Siem!Close \/ Siem!StartDrain \/ UNCHANGED Siem!vars
  PROVE  Siem!IInv' /\ Siem!AuditAccounted'
<1>1. /\ UNCHANGED <<queue, batch, emitted, dropped, delivered, failed>>
      /\ \/ worker' = worker /\ closing' = closing
         \/ worker' = worker /\ ~closing.asked /\ closing' = [asked |-> TRUE, upTo |-> emitted]
         \/ closing' = closing /\ closing.asked /\ worker' = "draining"
  BY DEF Siem!Close, Siem!StartDrain, Siem!vars
<1>2. TRUE \in BOOLEAN /\ emitted \in Nat
  BY DEF Siem!IInv, Siem!TypeOK
<1>3. Siem!IInv'
  <2>1. closing' \in [asked : BOOLEAN, upTo : Nat] /\ closing'.upTo <= emitted
    <3>1. CASE closing' = closing
      BY <3>1 DEF Siem!IInv, Siem!TypeOK, Siem!Ending
    <3>2. CASE closing' = [asked |-> TRUE, upTo |-> emitted]
      BY <1>2, <3>2
    <3> QED BY <1>1, <3>1, <3>2
  <2>2. worker' \in {"running", "draining", "gone"} /\ (worker' # "running" => closing'.asked)
    BY <1>1 DEF Siem!IInv, Siem!TypeOK, Siem!Ending
  <2>3. Siem!TypeOK' /\ Siem!Ending'
    BY <1>1, <2>1, <2>2 DEF Siem!IInv, Siem!TypeOK, Siem!Ending
  <2> QED BY <1>1, <2>3 DEF Siem!IInv, Siem!WaitsOnce, Siem!Events
<1>4. worker' = "gone" => worker = "gone" /\ closing' = closing
  BY <1>1 DEF Siem!IInv, Siem!Ending
<1>5. Siem!AuditAccounted'
  BY <1>1, <1>4 DEF Siem!AuditAccounted, Siem!Events
<1> QED BY <1>3, <1>5

\* No event is lost without a count, whatever the sizes of queue and batch, and a Close
\* that returns has drained all that was emitted before it (audit/sink.go:177).
THEOREM SinkAccounted == Siem!Spec => [](Siem!IInv /\ Siem!AuditAccounted)
<1>1. Siem!IInv /\ Siem!AuditAccounted /\ [Siem!Next]_(Siem!vars)
        => (Siem!IInv /\ Siem!AuditAccounted)'
  BY EmitKeeps, WorkerKeeps, ClosingKeeps DEF Siem!Next
<1> QED BY AuditInit, <1>1, PTL DEF Siem!Spec


(***************************************************************************)
(* The client of the NER service and its breaker (RemoteNer).              *)
(***************************************************************************)
LEMMA NerCardinality == \A S : Ner!Cardinality(S) = Cardinality(S)
  BY DEF Ner!Cardinality, Cardinality

LEMMA NerInit == Ner!Init => Ner!IInv /\ Ner!OpenForCause
<1> SUFFICES ASSUME Ner!Init PROVE Ner!IInv /\ Ner!OpenForCause
  OBVIOUS
<1>1. Ner!IInv
  BY NerAssumption DEF Ner!Init, Ner!IInv, Ner!TypeOK, Ner!Counted
<1>2. Ner!Entries = {}
  BY DEF Ner!Init, Ner!Entries
<1>3. Ner!Cardinality(Ner!Entries) <= CacheSize
  BY <1>2, NerAssumption, NerCardinality, FS_EmptySet
<1> QED BY <1>1, <1>3 DEF Ner!Init, Ner!OpenForCause

\* The lookup, the breaker's refusal and the call.
LEMMA AskKeeps ==
  ASSUME Ner!IInv, Ner!OpenForCause, NEW r \in Asking,
         Ner!Look(r) \/ Ner!CircuitOpen(r) \/ Ner!Call(r)
  PROVE  Ner!IInv' /\ Ner!OpenForCause'
<1>1. /\ UNCHANGED <<failOpen, cached, failures, openFor, streak>>
      /\ about' = about \/ \E t \in Asked : about' = [about EXCEPT ![r] = t]
      /\ \E s \in {"idle", "gate", "call"} : stage' = [stage EXCEPT ![r] = s]
      /\ outcome' = outcome \/ \E o \in {"none", "answer", "nothing", "error"} :
           outcome' = [outcome EXCEPT ![r] = o] /\ (o = "nothing" => failOpen)
  BY DEF Ner!Look, Ner!CircuitOpen, Ner!Call, Ner!OnFailure, Ner!Ends, Ner!To
<1>2. Ner!IInv'
  <2>1. /\ about' \in [Asking -> Asked] /\ stage' \in [Asking -> {"idle", "gate", "call", "put"}]
        /\ outcome' \in [Asking -> {"none", "answer", "nothing", "error"}]
    BY <1>1 DEF Ner!IInv, Ner!TypeOK
  <2> QED BY <1>1, <2>1 DEF Ner!IInv, Ner!TypeOK, Ner!Counted
<1>3. \A q \in Asking : outcome'[q] = "nothing" => failOpen
  BY <1>1 DEF Ner!IInv, Ner!TypeOK, Ner!OpenForCause
<1>4. Ner!Entries' = Ner!Entries
  BY <1>1 DEF Ner!Entries
<1> QED BY <1>1, <1>2, <1>3, <1>4 DEF Ner!OpenForCause

\* A result that is recorded late: the breaker opens only behind a whole threshold.
LEMMA RecordKeeps ==
  ASSUME Ner!IInv, Ner!OpenForCause, NEW r \in Asking,
         Ner!RecordFailure(r) \/ Ner!RecordSuccess(r)
  PROVE  Ner!IInv' /\ Ner!OpenForCause'
<1>1. /\ failures \in Nat /\ openFor \in Nat /\ streak \in 0 .. FailureThreshold /\ failures <= streak
      /\ FailureThreshold \in Nat \ {0} /\ Cooldown \in Nat
  BY NerAssumption DEF Ner!IInv, Ner!TypeOK, Ner!Counted
<1>2. /\ UNCHANGED <<failOpen, cached, about>>
      /\ \E s \in {"idle", "put"} : stage' = [stage EXCEPT ![r] = s]
      /\ outcome' = outcome \/ \E o \in {"nothing", "error"} :
           outcome' = [outcome EXCEPT ![r] = o] /\ (o = "nothing" => failOpen)
  BY DEF Ner!RecordFailure, Ner!RecordSuccess, Ner!OnFailure, Ner!Ends, Ner!To
<1>3. \/ /\ failures' = IF failures + 1 >= FailureThreshold THEN 0 ELSE failures + 1
         /\ openFor' = IF failures + 1 >= FailureThreshold THEN Cooldown ELSE openFor
         /\ streak' = IF streak < FailureThreshold THEN streak + 1 ELSE streak
      \/ failures' = 0 /\ openFor' = 0 /\ streak' = 0
  BY DEF Ner!RecordFailure, Ner!RecordSuccess, Ner!AtThreshold, Ner!AfterSuccess
<1>4. /\ failures' \in Nat /\ openFor' \in Nat /\ streak' \in 0 .. FailureThreshold
      /\ failures' <= streak' /\ (openFor' > 0 => streak' >= FailureThreshold)
  BY <1>1, <1>3 DEF Ner!OpenForCause
<1>5. Ner!IInv'
  <2>1. /\ stage' \in [Asking -> {"idle", "gate", "call", "put"}]
        /\ outcome' \in [Asking -> {"none", "answer", "nothing", "error"}]
    BY <1>2 DEF Ner!IInv, Ner!TypeOK
  <2> QED BY <1>2, <1>4, <2>1 DEF Ner!IInv, Ner!TypeOK, Ner!Counted
<1>6. \A q \in Asking : outcome'[q] = "nothing" => failOpen
  BY <1>2 DEF Ner!IInv, Ner!TypeOK, Ner!OpenForCause
<1>7. Ner!Entries' = Ner!Entries
  BY <1>2 DEF Ner!Entries
<1> QED BY <1>2, <1>4, <1>5, <1>6, <1>7 DEF Ner!OpenForCause

\* A full cache is cleared before an answer is put in.
LEMMA PutKeeps ==
  ASSUME Ner!IInv, Ner!OpenForCause, NEW r \in Asking, Ner!Put(r)
  PROVE  Ner!IInv' /\ Ner!OpenForCause'
<1>1. /\ UNCHANGED <<failOpen, failures, openFor, about, streak>>
      /\ stage' = [stage EXCEPT ![r] = "idle"] /\ outcome' = [outcome EXCEPT ![r] = "answer"]
      /\ cached' = [t \in Asked |->
           IF t = about[r] THEN CacheTTL + 1
           ELSE IF Ner!Cardinality(Ner!Entries) >= CacheSize THEN 0 ELSE cached[t]]
  BY DEF Ner!Put, Ner!Ends, Ner!To
<1>2. about[r] \in Asked /\ CacheTTL + 1 \in Nat /\ CacheTTL + 1 > 0 /\ cached \in [Asked -> Nat]
  BY NerAssumption DEF Ner!IInv, Ner!TypeOK
<1>3. Ner!IInv'
  <2>1. /\ stage' \in [Asking -> {"idle", "gate", "call", "put"}] /\ cached' \in [Asked -> Nat]
        /\ outcome' \in [Asking -> {"none", "answer", "nothing", "error"}]
    BY <1>1, <1>2 DEF Ner!IInv, Ner!TypeOK
  <2> QED BY <1>1, <2>1 DEF Ner!IInv, Ner!TypeOK, Ner!Counted
<1>4. \A q \in Asking : outcome'[q] = "nothing" => failOpen
  BY <1>1 DEF Ner!IInv, Ner!TypeOK, Ner!OpenForCause
<1>5. Cardinality(Ner!Entries') <= CacheSize
  <2>1. IsFiniteSet(Ner!Entries) /\ Ner!Entries \subseteq Asked /\ Cardinality(Ner!Entries) \in Nat
    BY NerAssumption, FS_Subset, FS_CardinalityType DEF Ner!Entries
  <2>2. CASE Cardinality(Ner!Entries) >= CacheSize
    <3>1. Ner!Entries' = {about[r]}
      BY <1>1, <1>2, <2>2, NerCardinality DEF Ner!Entries
    <3>2. Cardinality(Ner!Entries') = 1
      BY <3>1, FS_Singleton
    <3> QED BY <3>2, NerAssumption
  <2>3. CASE ~(Cardinality(Ner!Entries) >= CacheSize)
    <3>1. Ner!Entries' = Ner!Entries \cup {about[r]}
      BY <1>1, <1>2, <2>3, NerCardinality DEF Ner!Entries
    <3> HIDE DEF Ner!Entries
    <3>4. Cardinality(Ner!Entries \cup {about[r]}) =
            IF about[r] \in Ner!Entries THEN Cardinality(Ner!Entries) ELSE Cardinality(Ner!Entries) + 1
      BY <2>1, FS_AddElement
    <3>2. Cardinality(Ner!Entries') <= Cardinality(Ner!Entries) + 1
      BY <2>1, <3>1, <3>4
    <3>3. IsFiniteSet(Ner!Entries') /\ Cardinality(Ner!Entries') \in Nat
      BY <2>1, <3>1, FS_AddElement, FS_CardinalityType
    <3> QED BY <2>1, <2>3, <3>2, <3>3, NerAssumption
  <2> QED BY <2>2, <2>3
<1> QED BY <1>1, <1>3, <1>4, <1>5, NerCardinality DEF Ner!OpenForCause

LEMMA NerTickKeeps ==
  ASSUME Ner!IInv, Ner!OpenForCause, Ner!Tick \/ UNCHANGED Ner!vars
  PROVE  Ner!IInv' /\ Ner!OpenForCause'
<1>1. CASE Ner!Tick
  <2>1. /\ UNCHANGED <<failOpen, failures, stage, about, outcome, streak>>
        /\ openFor' = (IF openFor <= 0 THEN openFor ELSE openFor - 1)
        /\ cached' = [t \in Asked |-> IF cached[t] <= 1 THEN cached[t] ELSE cached[t] - 1]
    BY <1>1 DEF Ner!Tick, Ner!Less
  <2>2. openFor' \in Nat /\ (openFor' > 0 => openFor > 0)
    BY <2>1 DEF Ner!IInv, Ner!TypeOK
  <2>3. \A t \in Asked : cached'[t] \in Nat /\ (cached'[t] > 0 <=> cached[t] > 0)
    BY <2>1 DEF Ner!IInv, Ner!TypeOK
  <2>4. cached' \in [Asked -> Nat]
    BY <2>1, <2>3
  <2>5. Ner!Entries' = Ner!Entries
    BY <2>3 DEF Ner!Entries
  <2> QED BY <2>1, <2>2, <2>4, <2>5 DEF Ner!IInv, Ner!TypeOK, Ner!Counted, Ner!OpenForCause
<1>2. CASE UNCHANGED Ner!vars
  BY <1>2 DEF Ner!vars, Ner!IInv, Ner!TypeOK, Ner!Counted, Ner!OpenForCause, Ner!Entries
<1> QED BY <1>1, <1>2

\* The breaker opens for cause, a text passes unseen only where the deployment fails
\* open, and the cache keeps to its size (remote.go:150-360), for any requests, texts,
\* threshold and size, however late results are recorded.
THEOREM NerOpenForCause == Ner!Spec => [](Ner!IInv /\ Ner!OpenForCause)
<1>1. Ner!IInv /\ Ner!OpenForCause /\ [Ner!Next]_(Ner!vars) => (Ner!IInv /\ Ner!OpenForCause)'
  BY AskKeeps, RecordKeeps, PutKeeps, NerTickKeeps DEF Ner!Next
<1> QED BY NerInit, <1>1, PTL DEF Ner!Spec

(***************************************************************************)
(* The events of an answer (SseScanner).                                   *)
(***************************************************************************)
\* The scanner's inductive invariant.
ScanInv == Scanner!TypeOK /\ Scanner!Scanned /\ Scanner!EventsWhole

\* A line that is not blank is in the event that is read; one that is not ended is
\* too, and what is in that event is behind every event that is.
LEMMA EventOfCurrent ==
  ASSUME Scanner!TypeOK
  PROVE  /\ \A i \in Scanner!Current : Scanner!EventOf(i) = Scanner!Current
         /\ \A i \in DOMAIN lines \ Scanner!Blanks : Scanner!Ended(i) \/ i \in Scanner!Current
         /\ \A i \in DOMAIN lines, j \in Scanner!Current : Scanner!Ended(i) => i < j
         /\ \A i \in DOMAIN lines : Scanner!IsData(i) => i \notin Scanner!Blanks
<1>1. DOMAIN lines \subseteq Nat
  BY DEF Scanner!TypeOK
<1>2. ASSUME NEW i \in Scanner!Current PROVE Scanner!EventOf(i) = Scanner!Current
  <2>1. \A j \in DOMAIN lines \ Scanner!Blanks, b \in Scanner!Blanks : (b < j) <=> ~(j < b)
    BY <1>1 DEF Scanner!Blanks
  <2> QED BY <1>2, <2>1 DEF Scanner!Current, Scanner!EventOf, Scanner!Ended
<1>3. \A i \in DOMAIN lines, j \in Scanner!Current : Scanner!Ended(i) => i < j
  BY <1>1 DEF Scanner!Current, Scanner!Ended, Scanner!Blanks
<1> QED BY <1>2, <1>3 DEF Scanner!Current, Scanner!Blanks, Scanner!IsData

\* finishEvent: the lines of the event that is read are written behind the others.
LEMMA EventFinished ==
  ASSUME ScanInv, err = "none", Scanner!finishEvent,
         DOMAIN lines \subseteq DOMAIN lines',
         \A i \in DOMAIN lines : lines'[i] = lines[i],
         \A i \in DOMAIN lines : Scanner!EventOf(i)' = Scanner!EventOf(i),
         \A i \in DOMAIN lines : Scanner!Ended(i)' \/ err' = "EOF",
         \A i \in DOMAIN lines' \ DOMAIN lines : lines'[i] = "blank"
  PROVE  /\ Scanner!EventsWhole'
         /\ \A k \in DOMAIN outs' : \A i \in Scanner!ToSet(outs'[k]) \ {0} :
              Scanner!Ended(i)' \/ err' = "EOF"
<1> DEFINE w == Scanner!WriteEvent
           n == Len(outs)
<1>1. /\ outs' = Append(outs, w) /\ outs \in Seq(Seq(Nat)) /\ w \in Seq(Nat) /\ n \in Nat
      /\ DOMAIN lines \subseteq Nat
  BY DEF ScanInv, Scanner!finishEvent, Scanner!TypeOK, Scanner!WriteEvent
<1>2. /\ DOMAIN outs = 1 .. n /\ DOMAIN outs' = 1 .. n + 1
      /\ \A k \in 1 .. n : outs'[k] = outs[k]
      /\ outs'[n + 1] = w
      /\ \A k \in DOMAIN outs' : k \in 1 .. n \/ k = n + 1
  BY <1>1
<1>3. /\ Scanner!ToSet(w) \ {0} = IF comment THEN {} ELSE {j \in Scanner!Current : Scanner!IsData(j)}
      /\ ~comment => Scanner!Rising(w)
  <2>1. CASE comment
    BY <2>1 DEF Scanner!WriteEvent, Scanner!ToSet
  <2>2. CASE ~comment
    <3>1. 0 \notin Scanner!Current
      BY <1>1 DEF Scanner!Current, ScanInv, Scanner!TypeOK
    <3> QED BY <2>2, <3>1 DEF Scanner!WriteEvent, ScanInv, Scanner!Scanned
  <2> QED BY <2>1, <2>2
<1>4. \A k \in 1 .. n : \A i \in Scanner!ToSet(outs[k]) \ {0} :
        Scanner!Ended(i) /\ i \in DOMAIN lines
  <2>1. \A k \in DOMAIN outs : \A i \in Scanner!ToSet(outs[k]) \ {0} : Scanner!Ended(i)
    BY DEF ScanInv, Scanner!Scanned
  <2>2. \A k \in DOMAIN outs : \A i \in Scanner!ToSet(outs[k]) \ {0} : i \in DOMAIN lines
    BY DEF ScanInv, Scanner!EventsWhole
  <2> QED BY <1>2, <2>1, <2>2
<1>5. \A i \in Scanner!ToSet(w) \ {0} : i \in DOMAIN lines /\ i \in Scanner!Current
  BY <1>3 DEF Scanner!Current
<1>6. /\ \A i \in DOMAIN lines : Scanner!IsData(i)' <=> Scanner!IsData(i)
      /\ \A i \in DOMAIN lines : Scanner!Commented(i)' <=> Scanner!Commented(i)
      /\ \A i \in DOMAIN lines : {j \in Scanner!EventOf(i)' : Scanner!IsData(j)'}
                                   = {j \in Scanner!EventOf(i) : Scanner!IsData(j)}
  <2>1. \A i \in DOMAIN lines : Scanner!IsData(i)' <=> Scanner!IsData(i)
    BY DEF Scanner!IsData
  <2>2. \A i \in DOMAIN lines : Scanner!EventOf(i) \subseteq DOMAIN lines
    BY DEF Scanner!EventOf
  <2>3. \A i \in DOMAIN lines : Scanner!Commented(i)' <=> Scanner!Commented(i)
    BY <2>2 DEF Scanner!Commented
  <2> QED BY <2>1, <2>2, <2>3
<1> HIDE DEF w, n
<1>7. ASSUME NEW k \in DOMAIN outs', NEW i \in Scanner!ToSet(outs'[k]) \ {0}
      PROVE  /\ Scanner!Rising(outs'[k])
             /\ Scanner!ToSet(outs'[k]) = {j \in Scanner!EventOf(i)' : Scanner!IsData(j)'}
             /\ \A m \in DOMAIN outs' : m > k => \A j \in Scanner!ToSet(outs'[m]) \ {0} : i < j
  <2>1. CASE k \in 1 .. n
    <3>1. outs'[k] = outs[k] /\ k \in DOMAIN outs /\ i \in Scanner!ToSet(outs[k]) \ {0}
      BY <1>2, <1>7, <2>1
    <3>2. i \in DOMAIN lines /\ Scanner!Ended(i)
      BY <1>4, <2>1, <3>1
    <3>3. /\ Scanner!Rising(outs[k])
          /\ Scanner!ToSet(outs[k]) = {j \in Scanner!EventOf(i) : Scanner!IsData(j)}
          /\ \A m \in DOMAIN outs : m > k => \A j \in Scanner!ToSet(outs[m]) \ {0} : i < j
      BY <3>1 DEF ScanInv, Scanner!EventsWhole
    <3>4. ASSUME NEW m \in DOMAIN outs', m > k, NEW j \in Scanner!ToSet(outs'[m]) \ {0} PROVE i < j
      <4>1. CASE m \in 1 .. n
        BY <1>2, <3>3, <3>4, <4>1
      <4>2. CASE m = n + 1
        <5>1. j \in Scanner!Current
          BY <1>2, <1>5, <3>4, <4>2
        <5> QED BY <3>2, <5>1, EventOfCurrent DEF ScanInv
      <4> QED BY <1>2, <4>1, <4>2
    <3> QED BY <1>6, <3>1, <3>2, <3>3, <3>4
  <2>2. CASE k = n + 1
    <3>1. outs'[k] = w /\ i \in Scanner!ToSet(w) \ {0}
      BY <1>1, <1>2, <1>7, <2>2
    <3>2. i \in Scanner!Current /\ i \in DOMAIN lines /\ ~comment
      BY <1>3, <1>5, <3>1
    <3>3. Scanner!EventOf(i) = Scanner!Current
      BY <3>2, EventOfCurrent DEF ScanInv
    <3>4. 0 \notin Scanner!ToSet(w)
      <4>1. 0 \notin Scanner!ToSet(dataBuf)
        BY <3>2 DEF ScanInv, Scanner!Scanned, Scanner!Current, Scanner!TypeOK
      <4> QED BY <3>2, <4>1 DEF w, Scanner!WriteEvent
    <3>5. \A m \in DOMAIN outs' : ~(m > k)
      BY <1>1, <1>2, <2>2
    <3> QED BY <1>3, <1>6, <3>1, <3>2, <3>3, <3>4, <3>5
  <2> QED BY <1>2, <2>1, <2>2
<1>8. (UNION {Scanner!ToSet(outs'[k]) : k \in DOMAIN outs'}) \ {0}
        = {i \in DOMAIN lines' : Scanner!IsData(i)' /\ ~Scanner!Commented(i)'
                                   /\ (Scanner!Ended(i)' \/ err' = "EOF")}
  <2> DEFINE old == {i \in DOMAIN lines : Scanner!IsData(i) /\ ~Scanner!Commented(i) /\ Scanner!Ended(i)}
             new == {i \in Scanner!Current : Scanner!IsData(i) /\ ~Scanner!Commented(i)}
  <2>1. (UNION {Scanner!ToSet(outs[k]) : k \in DOMAIN outs}) \ {0} = old
    BY DEF ScanInv, Scanner!EventsWhole
  <2>2. Scanner!ToSet(w) \ {0} = new
    <3>1. \A i \in Scanner!Current : Scanner!Commented(i) <=> comment
      BY EventOfCurrent DEF ScanInv, Scanner!Scanned, Scanner!Commented
    <3> QED BY <1>3, <3>1
  <2>3. UNION {Scanner!ToSet(outs'[k]) : k \in DOMAIN outs'}
          = (UNION {Scanner!ToSet(outs[k]) : k \in DOMAIN outs}) \cup Scanner!ToSet(w)
    <3>1. 1 .. n + 1 = 1 .. n \cup {n + 1}
      BY <1>1
    <3>2. n + 1 \in DOMAIN outs' /\ outs'[n + 1] = w
      BY <1>1, <1>2, <3>1
    <3> QED BY <1>2, <3>1, <3>2
  <2>4. {i \in DOMAIN lines' : Scanner!IsData(i)' /\ ~Scanner!Commented(i)'
                                   /\ (Scanner!Ended(i)' \/ err' = "EOF")}
          = {i \in DOMAIN lines : Scanner!IsData(i) /\ ~Scanner!Commented(i)}
    <3>1. \A i \in DOMAIN lines' : Scanner!IsData(i)' => i \in DOMAIN lines
      BY DEF Scanner!IsData
    <3> QED BY <1>6, <3>1
  <2>5. {i \in DOMAIN lines : Scanner!IsData(i) /\ ~Scanner!Commented(i)} = old \cup new
    <3>1. \A i \in DOMAIN lines : Scanner!IsData(i) => Scanner!Ended(i) \/ i \in Scanner!Current
      BY EventOfCurrent DEF ScanInv
    <3>2. Scanner!Current \subseteq DOMAIN lines
      BY DEF Scanner!Current
    <3> QED BY <3>1, <3>2
  <2> HIDE DEF old, new
  <2> QED BY <2>1, <2>2, <2>3, <2>4, <2>5
<1>9. Scanner!EventsWhole'
  BY <1>7, <1>8 DEF Scanner!EventsWhole
<1>10. \A k \in DOMAIN outs' : \A i \in Scanner!ToSet(outs'[k]) \ {0} : i \in DOMAIN lines
  BY <1>1, <1>2, <1>4, <1>5
<1> QED BY <1>9, <1>10

\* A line that is not blank belongs to the event that is read.
LEMMA LineRead ==
  ASSUME Scanner!TypeOK, NEW form \in Scanner!Forms, lines' = Append(lines, form), form # "blank"
  PROVE  /\ DOMAIN lines \subseteq DOMAIN lines' /\ Len(lines) + 1 \in DOMAIN lines'
         /\ \A i \in DOMAIN lines' : i \in DOMAIN lines \/ i = Len(lines) + 1
         /\ Len(lines) + 1 \notin DOMAIN lines /\ lines'[Len(lines) + 1] = form
         /\ \A i \in DOMAIN lines : lines'[i] = lines[i] /\ i < Len(lines) + 1
         /\ Scanner!Current' = Scanner!Current \cup {Len(lines) + 1}
         /\ \A i : Scanner!Ended(i)' <=> Scanner!Ended(i)
         /\ \A i \in DOMAIN lines : Scanner!Ended(i) => Scanner!EventOf(i)' = Scanner!EventOf(i)
         /\ ~Scanner!Ended(Len(lines) + 1)
<1> DEFINE n == Len(lines)
<1>1. n \in Nat /\ DOMAIN lines = 1 .. n /\ DOMAIN lines' = 1 .. n + 1
  BY DEF Scanner!TypeOK
<1>2. (\A i \in 1 .. n : lines'[i] = lines[i]) /\ lines'[n + 1] = form
  BY <1>1 DEF Scanner!TypeOK
<1> HIDE DEF n
<1>3. /\ 1 .. n + 1 = 1 .. n \cup {n + 1} /\ n + 1 \notin 1 .. n
      /\ \A i \in 1 .. n : i < n + 1 /\ ~(n + 1 < i)
  BY <1>1
<1>4. Scanner!Blanks' = Scanner!Blanks /\ Scanner!Blanks \subseteq 1 .. n
  BY <1>1, <1>2, <1>3 DEF Scanner!Blanks
<1>5. \A i : Scanner!Ended(i)' <=> Scanner!Ended(i)
  BY <1>4 DEF Scanner!Ended
<1>6. ~Scanner!Ended(n + 1)
  BY <1>3, <1>4 DEF Scanner!Ended
<1>7. Scanner!Current' = Scanner!Current \cup {n + 1}
  BY <1>1, <1>3, <1>4, <1>5, <1>6 DEF Scanner!Current
<1>8. ASSUME NEW i \in DOMAIN lines, Scanner!Ended(i) PROVE Scanner!EventOf(i)' = Scanner!EventOf(i)
  <2>1. PICK b \in Scanner!Blanks : i < b
    BY <1>8 DEF Scanner!Ended
  <2>2. b < n + 1 /\ ~(b < i)
    BY <1>1, <1>3, <1>4, <2>1
  <2> QED BY <1>1, <1>3, <1>4, <2>1, <2>2 DEF Scanner!EventOf
<1> QED BY <1>1, <1>2, <1>3, <1>5, <1>6, <1>7, <1>8 DEF n

\* A blank line ends the event that is read.
LEMMA BlankRead ==
  ASSUME Scanner!TypeOK, lines' = Append(lines, "blank")
  PROVE  /\ DOMAIN lines \subseteq DOMAIN lines'
         /\ \A i \in DOMAIN lines : lines'[i] = lines[i]
         /\ \A i \in DOMAIN lines' \ DOMAIN lines : lines'[i] = "blank"
         /\ \A i \in DOMAIN lines : Scanner!EventOf(i)' = Scanner!EventOf(i)
         /\ \A i \in DOMAIN lines : Scanner!Ended(i)'
         /\ Scanner!Current' = {}
<1> DEFINE n == Len(lines)
<1>1. n \in Nat /\ DOMAIN lines = 1 .. n /\ DOMAIN lines' = 1 .. n + 1
  BY DEF Scanner!TypeOK
<1>2. (\A i \in 1 .. n : lines'[i] = lines[i]) /\ lines'[n + 1] = "blank"
  BY <1>1 DEF Scanner!TypeOK
<1> HIDE DEF n
<1>3. /\ 1 .. n + 1 = 1 .. n \cup {n + 1} /\ n + 1 \notin 1 .. n
      /\ \A i \in 1 .. n : i < n + 1 /\ ~(n + 1 < i)
  BY <1>1
<1>4. Scanner!Blanks' = Scanner!Blanks \cup {n + 1} /\ Scanner!Blanks \subseteq 1 .. n
  BY <1>1, <1>2, <1>3 DEF Scanner!Blanks
<1>5. \A i \in 1 .. n : Scanner!Ended(i)'
  BY <1>3, <1>4 DEF Scanner!Ended
<1>6. Scanner!Current' = {}
  BY <1>1, <1>3, <1>4, <1>5 DEF Scanner!Current
<1>7. DOMAIN lines' \ Scanner!Blanks' = DOMAIN lines \ Scanner!Blanks
  BY <1>1, <1>3, <1>4
<1>8. ASSUME NEW i \in DOMAIN lines PROVE Scanner!EventOf(i)' = Scanner!EventOf(i)
  <2>1. \A j \in DOMAIN lines : ~(n + 1 < i) /\ ~(n + 1 < j)
    BY <1>1, <1>3
  <2> QED BY <1>4, <1>7, <2>1 DEF Scanner!EventOf
<1> QED BY <1>1, <1>2, <1>3, <1>5, <1>6, <1>8

LEMMA ScanInit == Scanner!Init => ScanInv
<1> SUFFICES ASSUME Scanner!Init PROVE ScanInv
  OBVIOUS
<1>1. /\ lines = <<>> /\ dataBuf = <<>> /\ comment = FALSE /\ hasField = FALSE
      /\ err = "none" /\ outs = <<>>
  BY DEF Scanner!Init
<1>2. DOMAIN lines = {} /\ DOMAIN outs = {} /\ DOMAIN dataBuf = {}
  BY <1>1
<1>3. Scanner!Current = {}
  BY <1>2 DEF Scanner!Current
<1>4. Scanner!TypeOK
  <2>1. lines \in Seq(Scanner!Forms) /\ dataBuf \in Seq(Nat) /\ outs \in Seq(Seq(Nat))
    BY <1>1
  <2> QED BY <1>1, <2>1 DEF Scanner!TypeOK
<1>5. Scanner!Scanned
  BY <1>1, <1>2, <1>3 DEF Scanner!Scanned, Scanner!Rising, Scanner!ToSet
<1>6. Scanner!EventsWhole
  BY <1>2 DEF Scanner!EventsWhole
<1> QED BY <1>4, <1>5, <1>6 DEF ScanInv

\* A line of an event that goes on.
LEMMA ScanField ==
  ASSUME ScanInv, NEW form \in Scanner!Forms, Scanner!Line(form), form # "blank"
  PROVE  ScanInv'
<1>0. PICK n : n = Len(lines)
  OBVIOUS
<1>1. /\ err = "none" /\ lines' = Append(lines, form) /\ Scanner!Field(form)
      /\ hasField' = TRUE /\ outs' = outs
  BY DEF Scanner!Line, Scanner!Field
<1>2. /\ lines \in Seq(Scanner!Forms) /\ dataBuf \in Seq(Nat) /\ outs \in Seq(Seq(Nat))
      /\ comment \in BOOLEAN /\ n \in Nat
  BY <1>0 DEF ScanInv, Scanner!TypeOK
<1>3. /\ DOMAIN lines \subseteq DOMAIN lines' /\ n + 1 \in DOMAIN lines'
      /\ \A i \in DOMAIN lines' : i \in DOMAIN lines \/ i = n + 1
      /\ n + 1 \notin DOMAIN lines /\ lines'[n + 1] = form
      /\ \A i \in DOMAIN lines : lines'[i] = lines[i] /\ i < n + 1
      /\ Scanner!Current' = Scanner!Current \cup {n + 1}
      /\ \A i : Scanner!Ended(i)' <=> Scanner!Ended(i)
      /\ \A i \in DOMAIN lines : Scanner!Ended(i) => Scanner!EventOf(i)' = Scanner!EventOf(i)
      /\ ~Scanner!Ended(n + 1)
  BY <1>0, <1>1, LineRead DEF ScanInv
<1>4. /\ form = "comment" => dataBuf' = <<0>> /\ comment' = TRUE /\ err' = err
      /\ form \in {"data", "DONE"} =>
           /\ comment' = comment
           /\ \/ dataBuf' = Append(dataBuf, n + 1) /\ err' = err
              \/ dataBuf' = dataBuf /\ err' = "large"
      /\ form \notin {"comment", "data", "DONE"} => UNCHANGED <<dataBuf, comment, err>>
  BY <1>0, <1>1 DEF Scanner!Field, Scanner!Number
<1>5. Scanner!TypeOK'
  <2>1. lines' \in Seq(Scanner!Forms)
    BY <1>1, <1>2
  <2>2. dataBuf' \in Seq(Nat) /\ comment' \in BOOLEAN /\ err' \in {"none", "large"}
    <3>1. n + 1 \in Nat
      BY <1>2
    <3>2. Append(dataBuf, n + 1) \in Seq(Nat) /\ <<0>> \in Seq(Nat)
      BY <1>2, <3>1
    <3>3. CASE form = "comment"
      BY <1>1, <1>4, <3>2, <3>3
    <3>4. CASE form \in {"data", "DONE"}
      BY <1>1, <1>2, <1>4, <3>2, <3>4
    <3>5. CASE form \notin {"comment", "data", "DONE"}
      BY <1>1, <1>2, <1>4, <3>5
    <3> QED BY <3>3, <3>4, <3>5
  <2> QED BY <1>1, <1>2, <2>1, <2>2 DEF Scanner!TypeOK
<1>6. err' # "EOF"
  BY <1>1, <1>4
<1>7. Scanner!Current \subseteq DOMAIN lines
  BY DEF Scanner!Current
<1>8. \A k \in DOMAIN outs : \A i \in Scanner!ToSet(outs[k]) \ {0} :
        Scanner!Ended(i) /\ i \in DOMAIN lines
  <2>1. \A k \in DOMAIN outs : \A i \in Scanner!ToSet(outs[k]) \ {0} : Scanner!Ended(i)
    BY <1>1 DEF ScanInv, Scanner!Scanned
  <2>2. \A k \in DOMAIN outs : \A i \in Scanner!ToSet(outs[k]) \ {0} : i \in DOMAIN lines
    BY DEF ScanInv, Scanner!EventsWhole
  <2> QED BY <2>1, <2>2
<1>9. ASSUME err' = "none"
      PROVE  /\ hasField' = (Scanner!Current' # {})
             /\ comment' = \E j \in Scanner!Current' : lines'[j] = "comment"
             /\ ~comment' => /\ Scanner!Rising(dataBuf')
                             /\ Scanner!ToSet(dataBuf') = {j \in Scanner!Current' : Scanner!IsData(j)'}
  <2>1. /\ comment = \E j \in Scanner!Current : lines[j] = "comment"
        /\ ~comment => /\ Scanner!Rising(dataBuf)
                       /\ Scanner!ToSet(dataBuf) = {j \in Scanner!Current : Scanner!IsData(j)}
    BY <1>1 DEF ScanInv, Scanner!Scanned
  <2>2. hasField' = (Scanner!Current' # {})
    BY <1>1, <1>3
  <2>3. (\E j \in Scanner!Current' : lines'[j] = "comment")
          <=> (\E j \in Scanner!Current : lines[j] = "comment") \/ form = "comment"
    BY <1>3, <1>7
  <2>4. comment' = \E j \in Scanner!Current' : lines'[j] = "comment"
    BY <1>2, <1>4, <2>1, <2>3
  <2>5. /\ Scanner!IsData(n + 1)' <=> form \in {"data", "DONE"}
        /\ \A j \in Scanner!Current : Scanner!IsData(j)' <=> Scanner!IsData(j)
    BY <1>3, <1>7 DEF Scanner!IsData
  <2>6. ASSUME ~comment'
        PROVE  /\ Scanner!Rising(dataBuf')
               /\ Scanner!ToSet(dataBuf') = {j \in Scanner!Current' : Scanner!IsData(j)'}
    <3>1. CASE form \in {"data", "DONE"}
      <4>1. ~comment /\ dataBuf' = Append(dataBuf, n + 1)
        BY <1>1, <1>4, <1>9, <2>6, <3>1
      <4>2. \A i \in DOMAIN dataBuf : dataBuf[i] < n + 1
        BY <1>3, <1>7, <2>1, <4>1 DEF Scanner!ToSet
      <4>3. /\ DOMAIN dataBuf' = DOMAIN dataBuf \cup {Len(dataBuf) + 1}
            /\ \A i \in DOMAIN dataBuf : dataBuf'[i] = dataBuf[i] /\ i < Len(dataBuf) + 1
            /\ dataBuf'[Len(dataBuf) + 1] = n + 1
        BY <1>2, <4>1
      <4>4. Scanner!Rising(dataBuf')
        <5>1. Scanner!Rising(dataBuf)
          BY <2>1, <4>1
        <5>2. \A i \in DOMAIN dataBuf : ~(Len(dataBuf) + 1 < i)
          BY <1>2
        <5>3. ~(Len(dataBuf) + 1 < Len(dataBuf) + 1)
          BY <1>2
        <5> QED BY <4>2, <4>3, <5>1, <5>2, <5>3 DEF Scanner!Rising
      <4>5. Scanner!ToSet(dataBuf') = Scanner!ToSet(dataBuf) \cup {n + 1}
        BY <4>3 DEF Scanner!ToSet
      <4>6. {j \in Scanner!Current' : Scanner!IsData(j)'}
              = {j \in Scanner!Current : Scanner!IsData(j)} \cup {n + 1}
        BY <1>3, <2>5, <3>1
      <4> QED BY <2>1, <4>1, <4>4, <4>5, <4>6
    <3>2. CASE form \notin {"data", "DONE"}
      <4>1. form # "comment"
        BY <1>4, <2>6
      <4>2. ~comment /\ dataBuf' = dataBuf
        BY <1>4, <2>6, <3>2, <4>1
      <4>3. {j \in Scanner!Current' : Scanner!IsData(j)'} = {j \in Scanner!Current : Scanner!IsData(j)}
        BY <1>3, <2>5, <3>2
      <4> QED BY <2>1, <4>2, <4>3
    <3> QED BY <3>1, <3>2
  <2> QED BY <2>2, <2>4, <2>6
<1>10. Scanner!Scanned'
  BY <1>1, <1>3, <1>8, <1>9 DEF Scanner!Scanned
<1>11. Scanner!EventsWhole'
  <2>1. \A i \in DOMAIN lines : Scanner!IsData(i)' <=> Scanner!IsData(i)
    BY <1>3 DEF Scanner!IsData
  <2>2. \A i \in DOMAIN lines : Scanner!EventOf(i) \subseteq DOMAIN lines
    BY DEF Scanner!EventOf
  <2>3. ASSUME NEW i \in DOMAIN lines, Scanner!Ended(i)
        PROVE  /\ Scanner!Commented(i)' <=> Scanner!Commented(i)
               /\ {j \in Scanner!EventOf(i)' : Scanner!IsData(j)'}
                    = {j \in Scanner!EventOf(i) : Scanner!IsData(j)}
    <3>1. Scanner!EventOf(i)' = Scanner!EventOf(i)
      BY <1>3, <2>3
    <3>2. \A j \in Scanner!EventOf(i) : lines'[j] = lines[j]
      BY <1>3, <2>2
    <3> QED BY <2>1, <2>2, <3>1, <3>2 DEF Scanner!Commented
  <2>4. {i \in DOMAIN lines' : Scanner!IsData(i)' /\ ~Scanner!Commented(i)'
                                 /\ (Scanner!Ended(i)' \/ err' = "EOF")}
          = {i \in DOMAIN lines : Scanner!IsData(i) /\ ~Scanner!Commented(i)
                                    /\ (Scanner!Ended(i) \/ err = "EOF")}
    <3>1. \A i \in DOMAIN lines' : Scanner!Ended(i)' => i \in DOMAIN lines /\ Scanner!Ended(i)
      BY <1>3
    <3> QED BY <1>1, <1>3, <1>6, <2>1, <2>3, <3>1
  <2>5. \A k \in DOMAIN outs : \A i \in Scanner!ToSet(outs[k]) \ {0} :
          {j \in Scanner!EventOf(i)' : Scanner!IsData(j)'}
            = {j \in Scanner!EventOf(i) : Scanner!IsData(j)}
    BY <1>8, <2>3
  <2> QED BY <1>1, <2>4, <2>5 DEF ScanInv, Scanner!EventsWhole
<1> QED BY <1>5, <1>10, <1>11 DEF ScanInv

\* The blank line behind an event, or behind none.
LEMMA ScanBlank ==
  ASSUME ScanInv, Scanner!Line("blank")
  PROVE  ScanInv'
<1>1. err = "none" /\ lines' = Append(lines, "blank")
  BY DEF Scanner!Line
<1>2. /\ lines \in Seq(Scanner!Forms) /\ dataBuf \in Seq(Nat) /\ outs \in Seq(Seq(Nat))
      /\ comment \in BOOLEAN /\ hasField \in BOOLEAN
  BY DEF ScanInv, Scanner!TypeOK
<1>3. lines' \in Seq(Scanner!Forms)
  BY <1>1, <1>2 DEF Scanner!Forms
<1>4. /\ DOMAIN lines \subseteq DOMAIN lines'
      /\ \A i \in DOMAIN lines : lines'[i] = lines[i]
      /\ \A i \in DOMAIN lines' \ DOMAIN lines : lines'[i] = "blank"
      /\ \A i \in DOMAIN lines : Scanner!EventOf(i)' = Scanner!EventOf(i)
      /\ \A i \in DOMAIN lines : Scanner!Ended(i)'
      /\ Scanner!Current' = {}
  BY <1>1, BlankRead DEF ScanInv
<1>5. CASE hasField
  <2>1. Scanner!finishEvent /\ err' \in {"DONE", "none"}
    BY <1>5 DEF Scanner!Line
  <2>2. /\ Scanner!EventsWhole'
        /\ \A k \in DOMAIN outs' : \A i \in Scanner!ToSet(outs'[k]) \ {0} :
             Scanner!Ended(i)' \/ err' = "EOF"
    BY <1>1, <1>4, <2>1, EventFinished
  <2>3. hasField' = FALSE /\ comment' = FALSE /\ dataBuf' = <<>> /\ outs' \in Seq(Seq(Nat))
    BY <1>2, <2>1 DEF Scanner!finishEvent, Scanner!WriteEvent
  <2>4. Scanner!TypeOK'
    <3>1. dataBuf' \in Seq(Nat)
      BY <2>3
    <3> QED BY <1>3, <2>1, <2>3, <3>1 DEF Scanner!TypeOK
  <2>5. Scanner!Rising(dataBuf') /\ Scanner!ToSet(dataBuf') = {}
    BY <2>3 DEF Scanner!Rising, Scanner!ToSet
  <2>6. Scanner!Scanned'
    BY <1>4, <2>2, <2>3, <2>5 DEF Scanner!Scanned
  <2> QED BY <2>2, <2>4, <2>6 DEF ScanInv
<1>6. CASE ~hasField
  <2>1. UNCHANGED <<dataBuf, comment, hasField, err, outs>>
    BY <1>6 DEF Scanner!Line
  <2>2. /\ Scanner!Current = {}
        /\ comment = \E j \in Scanner!Current : lines[j] = "comment"
        /\ ~comment => /\ Scanner!Rising(dataBuf)
                       /\ Scanner!ToSet(dataBuf) = {j \in Scanner!Current : Scanner!IsData(j)}
        /\ \A k \in DOMAIN outs : \A i \in Scanner!ToSet(outs[k]) \ {0} : Scanner!Ended(i)
    BY <1>1, <1>6 DEF ScanInv, Scanner!Scanned
  <2>3. Scanner!TypeOK'
    BY <1>1, <1>2, <1>3, <2>1 DEF Scanner!TypeOK
  <2>4. \A k \in DOMAIN outs : \A i \in Scanner!ToSet(outs[k]) \ {0} : i \in DOMAIN lines
    BY DEF ScanInv, Scanner!EventsWhole
  <2>5. Scanner!Scanned'
    <3>1. comment' = FALSE /\ hasField' = FALSE
      BY <1>2, <1>6, <2>1, <2>2
    <3>2. Scanner!Rising(dataBuf') /\ Scanner!ToSet(dataBuf') = {}
      BY <2>1, <2>2, <3>1
    <3>3. \A k \in DOMAIN outs' : \A i \in Scanner!ToSet(outs'[k]) \ {0} : Scanner!Ended(i)'
      BY <1>4, <2>1, <2>4
    <3> QED BY <1>4, <3>1, <3>2, <3>3 DEF Scanner!Scanned
  <2>6. Scanner!EventsWhole'
    <3>1. \A i \in DOMAIN lines : Scanner!IsData(i)' <=> Scanner!IsData(i)
      BY <1>4 DEF Scanner!IsData
    <3>2. \A i \in DOMAIN lines : Scanner!EventOf(i) \subseteq DOMAIN lines
      BY DEF Scanner!EventOf
    <3>3. \A i \in DOMAIN lines : Scanner!Commented(i)' <=> Scanner!Commented(i)
      BY <1>4, <3>2 DEF Scanner!Commented
    <3>4. \A i \in DOMAIN lines : Scanner!IsData(i) => Scanner!Ended(i)
      BY <2>2, EventOfCurrent DEF ScanInv
    <3>5. {i \in DOMAIN lines' : Scanner!IsData(i)' /\ ~Scanner!Commented(i)'
                                   /\ (Scanner!Ended(i)' \/ err' = "EOF")}
            = {i \in DOMAIN lines : Scanner!IsData(i) /\ ~Scanner!Commented(i)
                                      /\ (Scanner!Ended(i) \/ err = "EOF")}
      <4>1. \A i \in DOMAIN lines' : Scanner!IsData(i)' => i \in DOMAIN lines
        BY <1>4 DEF Scanner!IsData
      <4> QED BY <1>4, <3>1, <3>3, <3>4, <4>1
    <3>6. \A k \in DOMAIN outs : \A i \in Scanner!ToSet(outs[k]) \ {0} :
            {j \in Scanner!EventOf(i)' : Scanner!IsData(j)'}
              = {j \in Scanner!EventOf(i) : Scanner!IsData(j)}
      BY <1>4, <2>4, <3>1, <3>2
    <3> QED BY <2>1, <3>5, <3>6 DEF ScanInv, Scanner!EventsWhole
  <2> QED BY <2>3, <2>5, <2>6 DEF ScanInv
<1> QED BY <1>2, <1>5, <1>6

\* The end of the answer, behind its last event or within one.
LEMMA ScanEnd ==
  ASSUME ScanInv, Scanner!End
  PROVE  ScanInv'
<1>1. err = "none" /\ lines' = lines
  BY DEF Scanner!End
<1>2. /\ lines \in Seq(Scanner!Forms) /\ dataBuf \in Seq(Nat) /\ outs \in Seq(Seq(Nat))
      /\ comment \in BOOLEAN /\ hasField \in BOOLEAN
  BY DEF ScanInv, Scanner!TypeOK
<1>3. /\ Scanner!Blanks' = Scanner!Blanks
      /\ \A i \in DOMAIN lines : Scanner!EventOf(i)' = Scanner!EventOf(i)
      /\ \A i : Scanner!Ended(i)' <=> Scanner!Ended(i)
      /\ \A i : Scanner!IsData(i)' <=> Scanner!IsData(i)
  BY <1>1 DEF Scanner!Blanks, Scanner!EventOf, Scanner!Ended, Scanner!IsData
<1>4. CASE hasField /\ err' = "EOF" /\ Scanner!finishEvent
  <2>1. /\ Scanner!EventsWhole'
        /\ \A k \in DOMAIN outs' : \A i \in Scanner!ToSet(outs'[k]) \ {0} :
             Scanner!Ended(i)' \/ err' = "EOF"
    BY <1>1, <1>3, <1>4, EventFinished
  <2>2. hasField' = FALSE /\ comment' = FALSE /\ dataBuf' = <<>> /\ outs' \in Seq(Seq(Nat))
    BY <1>2, <1>4 DEF Scanner!finishEvent, Scanner!WriteEvent
  <2>3. Scanner!TypeOK'
    <3>1. dataBuf' \in Seq(Nat)
      BY <2>2
    <3> QED BY <1>1, <1>2, <1>4, <2>2, <3>1 DEF Scanner!TypeOK
  <2>4. Scanner!Scanned'
    BY <1>4, <2>1 DEF Scanner!Scanned
  <2> QED BY <2>1, <2>3, <2>4 DEF ScanInv
<1>5. CASE /\ err' \in {"read"} \cup (IF hasField THEN {} ELSE {"EOF"})
           /\ UNCHANGED <<dataBuf, comment, hasField, outs>>
  <2>1. Scanner!TypeOK'
    BY <1>1, <1>2, <1>5 DEF Scanner!TypeOK
  <2>2. err' # "none" /\ outs' = outs
    BY <1>5
  <2>3. \A k \in DOMAIN outs : \A i \in Scanner!ToSet(outs[k]) \ {0} : Scanner!Ended(i)
    BY <1>1 DEF ScanInv, Scanner!Scanned
  <2>4. Scanner!Scanned'
    BY <1>3, <2>2, <2>3 DEF Scanner!Scanned
  <2>5. \A i \in DOMAIN lines : Scanner!Commented(i)' <=> Scanner!Commented(i)
    BY <1>1, <1>3 DEF Scanner!Commented
  <2>6. \A i \in DOMAIN lines : Scanner!IsData(i) /\ err' = "EOF" => Scanner!Ended(i)
    <3>1. err' = "EOF" => Scanner!Current = {}
      BY <1>1, <1>2, <1>5 DEF ScanInv, Scanner!Scanned
    <3> QED BY <3>1, EventOfCurrent DEF ScanInv
  <2>7. {i \in DOMAIN lines' : Scanner!IsData(i)' /\ ~Scanner!Commented(i)'
                                 /\ (Scanner!Ended(i)' \/ err' = "EOF")}
          = {i \in DOMAIN lines : Scanner!IsData(i) /\ ~Scanner!Commented(i)
                                    /\ (Scanner!Ended(i) \/ err = "EOF")}
    BY <1>1, <1>3, <2>5, <2>6
  <2>8. \A k \in DOMAIN outs : \A i \in Scanner!ToSet(outs[k]) \ {0} : i \in DOMAIN lines
    BY DEF ScanInv, Scanner!EventsWhole
  <2>9. Scanner!EventsWhole'
    <3>1. \A k \in DOMAIN outs : \A i \in Scanner!ToSet(outs[k]) \ {0} :
            {j \in Scanner!EventOf(i)' : Scanner!IsData(j)'}
              = {j \in Scanner!EventOf(i) : Scanner!IsData(j)}
      BY <1>3, <2>8
    <3> QED BY <2>2, <2>7, <3>1 DEF ScanInv, Scanner!EventsWhole
  <2> QED BY <2>1, <2>4, <2>9 DEF ScanInv
<1> QED BY <1>4, <1>5 DEF Scanner!End

LEMMA ScanStep == ScanInv /\ [Scanner!Next]_(Scanner!vars) => ScanInv'
<1> SUFFICES ASSUME ScanInv, [Scanner!Next]_(Scanner!vars) PROVE ScanInv'
  OBVIOUS
<1>1. ASSUME NEW form \in Scanner!Forms, Scanner!Line(form) PROVE ScanInv'
  BY <1>1, ScanField, ScanBlank
<1>2. CASE Scanner!End
  BY <1>2, ScanEnd
<1>3. CASE UNCHANGED Scanner!vars
  <2>1. UNCHANGED <<lines, dataBuf, comment, hasField, err, outs>>
    BY <1>3 DEF Scanner!vars
  <2>2. /\ Scanner!Blanks' = Scanner!Blanks
        /\ \A i : Scanner!EventOf(i)' = Scanner!EventOf(i)
        /\ \A i : Scanner!Ended(i)' <=> Scanner!Ended(i)
        /\ \A i : Scanner!IsData(i)' <=> Scanner!IsData(i)
    BY <2>1 DEF Scanner!Blanks, Scanner!EventOf, Scanner!Ended, Scanner!IsData
  <2>3. Scanner!Current' = Scanner!Current
    BY <2>1, <2>2 DEF Scanner!Current
  <2>4. \A i : Scanner!Commented(i)' <=> Scanner!Commented(i)
    BY <2>1, <2>2 DEF Scanner!Commented
  <2>5. Scanner!TypeOK'
    BY <2>1 DEF ScanInv, Scanner!TypeOK
  <2>6. Scanner!Scanned'
    BY <2>1, <2>2, <2>3 DEF ScanInv, Scanner!Scanned
  <2>7. Scanner!EventsWhole'
    BY <2>1, <2>2, <2>4 DEF ScanInv, Scanner!EventsWhole
  <2> QED BY <2>5, <2>6, <2>7 DEF ScanInv
<1> QED BY <1>1, <1>2, <1>3 DEF Scanner!Next

\* Scanner.Next, finishEvent and the loop of stream: every data line of an event
\* without a comment is written once, in its place, with those of its event, for an
\* answer of any length.
THEOREM ScannerEventsWhole == Scanner!Spec => [](Scanner!TypeOK /\ Scanner!Scanned /\ Scanner!EventsWhole)
<1>1. Scanner!Spec => []ScanInv
  BY ScanInit, ScanStep, PTL DEF Scanner!Spec
<1>2. ScanInv => Scanner!TypeOK /\ Scanner!Scanned /\ Scanner!EventsWhole
  BY DEF ScanInv
<1> QED BY <1>1, <1>2, PTL

(***************************************************************************)
(* Recursive functions and sequences.  What the library says of them takes *)
(* an operator as a parameter; here induction is the choice of a least     *)
(* counterexample, and a recursive definition is a function G that gives a *)
(* value from the place and from the values before it.                     *)
(***************************************************************************)
\* A nonempty set of naturals has a least one: the bound of a minimal beginning of it.
LEMMA LeastNatural ==
  ASSUME NEW S, S \subseteq Nat, S # {}
  PROVE  \E k \in S : \A l \in S : k <= l
<1>1. PICK n \in S : TRUE
  OBVIOUS
<1> DEFINE T == S \cap (0 .. n)
           R == StrictSubsetOrdering(T)
           Q == {S \cap (0 .. k) : k \in T}
<1>2. IsFiniteSet(T)
  <2>1. IsFiniteSet(0 .. n)
    BY <1>1, FS_Interval
  <2> QED BY <2>1, FS_Subset
<1>3. Q \subseteq SUBSET T /\ Q # {}
  <2>a. Q \subseteq SUBSET T
    OBVIOUS
  <2>1. n \in T
    BY <1>1
  <2>2. S \cap (0 .. n) \in Q
    BY <2>1
  <2> QED BY <2>a, <2>2
<1>4. IsWellFoundedOn(R, SUBSET T)
  <2> HIDE DEF T, Q
  <2> QED BY <1>2, FS_StrictSubsetOrderingWellFounded, FS_FiniteSubsetsOfFinite
<1> HIDE DEF R, Q
<1>5. PICK U \in Q : \A V \in Q : ~(<<V, U>> \in R)
  BY <1>3, <1>4, WFMin
<1> USE DEF Q
<1>6. PICK k \in T : U = S \cap (0 .. k)
  BY <1>5
<1>7. ASSUME NEW l \in S, ~(k <= l) PROVE FALSE
  <2>1. l < k /\ l \in T
    BY <1>7
  <2>2. S \cap (0 .. l) \in Q /\ S \cap (0 .. l) \subseteq U
    BY <1>6, <2>1
  <2>3. k \in U /\ k \notin S \cap (0 .. l)
    BY <1>6, <2>1
  <2>4. <<S \cap (0 .. l), U>> \in R
    BY <2>2, <2>3, <1>6 DEF R, StrictSubsetOrdering
  <2> QED BY <1>5, <2>2, <2>4
<1> QED BY <1>6, <1>7

\* A recursion over 0 .. n has a solution.
IsRecursion(n, V, G) ==
  /\ n \in Nat /\ V # {} /\ G \in [(0 .. n) \X [0 .. n -> V] -> V]
  /\ \A i \in 0 .. n : \A g, h \in [0 .. n -> V] :
       (\A j \in 0 .. n : j < i => g[j] = h[j]) => G[<<i, g>>] = G[<<i, h>>]

LEMMA Recursion ==
  ASSUME NEW n, NEW V, NEW G, IsRecursion(n, V, G)
  PROVE  \E f \in [0 .. n -> V] : \A i \in 0 .. n : f[i] = G[<<i, f>>]
<1> USE DEF IsRecursion
<1> DEFINE Solved(f, k) == \A i \in 0 .. n : i < k => f[i] = G[<<i, f>>]
           S == {k \in 0 .. n + 1 : ~ \E f \in [0 .. n -> V] : Solved(f, k)}
<1>1. CASE S = {}
  <2>1. n + 1 \in 0 .. n + 1
    OBVIOUS
  <2>2. PICK f \in [0 .. n -> V] : Solved(f, n + 1)
    BY <1>1, <2>1
  <2> QED BY <2>2
<1>2. CASE S # {}
  <2>a. S \subseteq Nat
    OBVIOUS
  <2>1. PICK k \in S : \A l \in S : k <= l
    <3> HIDE DEF S
    <3> QED BY <1>2, <2>a, LeastNatural
  <2>b. k \in 0 .. n + 1
    OBVIOUS
  <2>2. k # 0
    <3>1. PICK v \in V : TRUE
      OBVIOUS
    <3>2. [i \in 0 .. n |-> v] \in [0 .. n -> V] /\ Solved([i \in 0 .. n |-> v], 0)
      OBVIOUS
    <3> QED BY <3>2
  <2>3. k - 1 \in 0 .. n /\ k - 1 \in 0 .. n + 1 /\ k - 1 \notin S
    <3> HIDE DEF S
    <3> QED BY <2>1, <2>2, <2>b
  <2>4. PICK f \in [0 .. n -> V] : Solved(f, k - 1)
    BY <2>3
  <2> DEFINE h == [f EXCEPT ![k - 1] = G[<<k - 1, f>>]]
  <2>5. h \in [0 .. n -> V] /\ \A i \in 0 .. n : i # k - 1 => h[i] = f[i]
    BY <2>3
  <2>6. h[k - 1] = G[<<k - 1, f>>]
    BY <2>3
  <2> HIDE DEF h
  <2>7. ASSUME NEW i \in 0 .. n, i < k PROVE h[i] = G[<<i, h>>]
    <3>1. G[<<i, f>>] = G[<<i, h>>]
      <4>1. \A j \in 0 .. n : j < i => f[j] = h[j]
        BY <2>3, <2>5, <2>7
      <4> HIDE DEF S
      <4> QED BY <2>4, <2>5, <4>1
    <3>2. h[i] = G[<<i, f>>]
      <4> HIDE DEF S
      <4>1. CASE i = k - 1
        BY <4>1, <2>6
      <4>2. CASE i # k - 1
        BY <4>2, <2>b, <2>3, <2>4, <2>5, <2>7
      <4> QED BY <4>1, <4>2
    <3> QED BY <3>1, <3>2
  <2>8. k \notin S
    BY <2>5, <2>7
  <2> QED BY <2>1, <2>8
<1> QED BY <1>1, <1>2

\* Two functions are the same that agree wherever they agreed before.
Agree(n, f, g) ==
  /\ n \in Nat
  /\ \A i \in 0 .. n : (\A j \in 0 .. n : j < i => f[j] = g[j]) => f[i] = g[i]

LEMMA Agreeing ==
  ASSUME NEW n, NEW f, NEW g, Agree(n, f, g)
  PROVE  \A i \in 0 .. n : f[i] = g[i]
<1> USE DEF Agree
<1> DEFINE S == {i \in 0 .. n : f[i] # g[i]}
<1>1. CASE S = {}
  BY <1>1
<1>2. CASE S # {}
  <2>1. S \subseteq Nat /\ S \subseteq 0 .. n
    OBVIOUS
  <2>2. PICK k \in S : \A l \in S : k <= l
    <3> HIDE DEF S
    <3> QED BY <1>2, <2>1, LeastNatural
  <2>3. \A j \in 0 .. n : j < k => f[j] = g[j]
    BY <2>1, <2>2
  <2> QED BY <2>2, <2>3
<1> QED BY <1>1, <1>2

(***************************************************************************)
(* The tool-call barrier (StreamRestore).                                  *)
(***************************************************************************)
\* What is in a sequence with one more element.
LEMMA AppendRange ==
  ASSUME NEW V, NEW s \in Seq(V), NEW e \in V
  PROVE  Stream!ToSet(Append(s, e)) = Stream!ToSet(s) \cup {e}
<1>1. /\ Len(s) \in Nat /\ DOMAIN s = 1 .. Len(s)
      /\ DOMAIN Append(s, e) = 1 .. Len(s) + 1
      /\ Append(s, e)[Len(s) + 1] = e
      /\ \A i \in 1 .. Len(s) : Append(s, e)[i] = s[i]
  OBVIOUS
<1> DEFINE t == Append(s, e)
<1> HIDE DEF t
<1>2. ASSUME NEW v \in Stream!ToSet(t) PROVE v \in Stream!ToSet(s) \cup {e}
  BY <1>1, <1>2 DEF Stream!ToSet, t
<1>3. ASSUME NEW v \in Stream!ToSet(s) \cup {e} PROVE v \in Stream!ToSet(t)
  <2>1. CASE v = e
    <3>1. Len(s) + 1 \in DOMAIN t /\ t[Len(s) + 1] = e
      BY <1>1 DEF t
    <3> QED BY <2>1, <3>1 DEF Stream!ToSet
  <2>2. CASE v \in Stream!ToSet(s)
    <3>1. PICK i \in DOMAIN s : s[i] = v
      BY <2>2 DEF Stream!ToSet
    <3>2. i \in DOMAIN t /\ t[i] = v
      BY <1>1, <3>1 DEF t
    <3> QED BY <3>2 DEF Stream!ToSet
  <2> QED BY <1>3, <2>1, <2>2
<1> QED BY <1>2, <1>3 DEF t

LEMMA HeadAndTail ==
  ASSUME NEW V, NEW s \in Seq(V), s # <<>>
  PROVE  /\ Head(s) \in V /\ Tail(s) \in Seq(V)
         /\ Stream!ToSet(s) = {Head(s)} \cup Stream!ToSet(Tail(s))
<1>1. /\ Len(s) \in Nat \ {0} /\ DOMAIN s = 1 .. Len(s) /\ Head(s) = s[1]
      /\ Tail(s) \in Seq(V) /\ DOMAIN Tail(s) = 1 .. Len(s) - 1
      /\ \A i \in 1 .. Len(s) - 1 : Tail(s)[i] = s[i + 1]
  OBVIOUS
<1> DEFINE t == Tail(s)
<1> HIDE DEF t
<1>2. ASSUME NEW v \in Stream!ToSet(s) PROVE v \in {Head(s)} \cup Stream!ToSet(t)
  <2>1. PICK i \in 1 .. Len(s) : s[i] = v
    BY <1>1 DEF Stream!ToSet
  <2>2. CASE i = 1
    BY <1>1, <2>1, <2>2
  <2>3. CASE i # 1
    <3>1. i - 1 \in DOMAIN t /\ t[i - 1] = v
      BY <1>1, <2>1, <2>3 DEF t
    <3> QED BY <3>1 DEF Stream!ToSet
  <2> QED BY <2>2, <2>3
<1>3. ASSUME NEW v \in Stream!ToSet(t) PROVE v \in Stream!ToSet(s)
  <2>1. PICK i \in 1 .. Len(s) - 1 : t[i] = v
    BY <1>1 DEF Stream!ToSet, t
  <2>2. i + 1 \in DOMAIN s /\ s[i + 1] = v
    BY <1>1, <2>1 DEF t
  <2> QED BY <2>2 DEF Stream!ToSet
<1>4. Head(s) \in Stream!ToSet(s)
  BY <1>1 DEF Stream!ToSet
<1> QED BY <1>1, <1>2, <1>3, <1>4 DEF t

\* Only goes along its keys.
IsOnly(f, s, A) ==
  /\ Stream!Only(s, A) = f[Len(s)]
  /\ f[0] = <<>>
  /\ \A i \in 1 .. Len(s) :
       f[i] = IF s[i] \in A THEN Append(f[i - 1], s[i]) ELSE f[i - 1]

LEMMA OnlySteps ==
  ASSUME NEW V, NEW s \in Seq(V), NEW A
  PROVE  \E f \in [0 .. Len(s) -> Seq(V)] : IsOnly(f, s, A)
<1> DEFINE n == Len(s)
           F == [0 .. n -> Seq(V)]
           Step(i, f) == IF i = 0 THEN <<>>
                         ELSE IF s[i] \in A THEN Append(f[i - 1], s[i]) ELSE f[i - 1]
           G == [x \in (0 .. n) \X F |-> Step(x[1], x[2])]
           g == CHOOSE f : f = [i \in 0 .. n |-> Step(i, f)]
<1>1. n \in Nat /\ \A i \in 1 .. n : s[i] \in V
  OBVIOUS
<1>2. \A i \in 0 .. n : \A f \in F : Step(i, f) \in Seq(V)
  <2> SUFFICES ASSUME NEW i \in 0 .. n, NEW f \in F PROVE Step(i, f) \in Seq(V)
    OBVIOUS
  <2>1. CASE i = 0
    BY <2>1
  <2>2. CASE i # 0
    <3>1. i - 1 \in 0 .. n /\ i \in 1 .. n
      BY <2>2, <1>1
    <3>2. f[i - 1] \in Seq(V) /\ s[i] \in V
      BY <1>1, <3>1
    <3> QED BY <2>2, <3>2
  <2> QED BY <2>1, <2>2
<1>3. \A i \in 0 .. n : \A f, h : (\A j \in 0 .. n : j < i => f[j] = h[j]) => Step(i, f) = Step(i, h)
  <2> SUFFICES ASSUME NEW i \in 0 .. n, NEW f, NEW h, \A j \in 0 .. n : j < i => f[j] = h[j]
               PROVE  Step(i, f) = Step(i, h)
    OBVIOUS
  <2>1. CASE i = 0
    BY <2>1
  <2>2. CASE i # 0
    <3>1. i - 1 \in 0 .. n /\ i - 1 < i
      BY <2>2, <1>1
    <3>2. f[i - 1] = h[i - 1]
      BY <3>1
    <3> QED BY <2>2, <3>2
  <2> QED BY <2>1, <2>2
<1> HIDE DEF n, Step
<1>4. G \in [(0 .. n) \X F -> Seq(V)]
  BY <1>2
<1>5. \A i \in 0 .. n : \A f \in F : G[<<i, f>>] = Step(i, f)
  OBVIOUS
<1> HIDE DEF G
<1>6. PICK f \in F : \A i \in 0 .. n : f[i] = G[<<i, f>>]
  <2>1. \A i \in 0 .. n : \A e, h \in F :
          (\A j \in 0 .. n : j < i => e[j] = h[j]) => G[<<i, e>>] = G[<<i, h>>]
    <3> SUFFICES ASSUME NEW i \in 0 .. n, NEW e \in F, NEW h \in F,
                        \A j \in 0 .. n : j < i => e[j] = h[j]
                 PROVE  G[<<i, e>>] = G[<<i, h>>]
      OBVIOUS
    <3> HIDE DEF F
    <3>1. Step(i, e) = Step(i, h)
      BY <1>3
    <3>2. G[<<i, e>>] = Step(i, e) /\ G[<<i, h>>] = Step(i, h)
      BY <1>5
    <3> QED BY <3>1, <3>2
  <2>2. Seq(V) # {}
    OBVIOUS
  <2>3. n \in Nat
    BY <1>1
  <2>4. IsRecursion(n, Seq(V), G)
    BY <1>4, <2>1, <2>2, <2>3 DEF IsRecursion
  <2> QED BY <2>4, Recursion
<1>7. f = [i \in 0 .. n |-> Step(i, f)]
  BY <1>5, <1>6
<1>8. g = [i \in 0 .. n |-> Step(i, g)]
  BY <1>7
<1> HIDE DEF g
<1>9. \A i \in 0 .. n : g[i] = f[i]
  <2>1. \A i \in 0 .. n : f[i] = Step(i, f) /\ g[i] = Step(i, g)
    BY <1>7, <1>8
  <2>3. \A i \in 0 .. n : (\A j \in 0 .. n : j < i => g[j] = f[j]) => g[i] = f[i]
    BY <1>3, <2>1
  <2>4. n \in Nat
    BY <1>1
  <2>5. Agree(n, g, f)
    BY <2>3, <2>4 DEF Agree
  <2> QED BY ONLY <2>5, Agreeing, Zenon
<1>10. Stream!Only(s, A) = g[n]
  BY DEF Stream!Only, g, Step, n
<1>11. f[0] = <<>>
  BY <1>1, <1>7 DEF Step
<1>12. \A i \in 1 .. n : f[i] = IF s[i] \in A THEN Append(f[i - 1], s[i]) ELSE f[i - 1]
  <2> SUFFICES ASSUME NEW i \in 1 .. n
               PROVE  f[i] = IF s[i] \in A THEN Append(f[i - 1], s[i]) ELSE f[i - 1]
    OBVIOUS
  <2>1. i \in 0 .. n /\ i # 0
    BY <1>1
  <2> QED BY <1>7, <2>1 DEF Step
<1>13. Stream!Only(s, A) = f[n]
  BY <1>1, <1>9, <1>10
<1> QED BY <1>6, <1>11, <1>12, <1>13 DEF n, IsOnly

\* Only keeps what is in the set, and nothing else.
LEMMA OnlyKeeps ==
  ASSUME NEW V, NEW s \in Seq(V), NEW A
  PROVE  /\ Stream!Only(s, A) \in Seq(V)
         /\ Stream!ToSet(Stream!Only(s, A)) = Stream!ToSet(s) \cap A
         /\ Stream!Only(s, A) \in Seq(V \cap A)
         /\ Len(Stream!Only(s, A)) <= Len(s)
<1>0. PICK f \in [0 .. Len(s) -> Seq(V)] : IsOnly(f, s, A)
  BY OnlySteps
<1>1. /\ Stream!Only(s, A) = f[Len(s)]
      /\ f[0] = <<>>
      /\ \A i \in 1 .. Len(s) :
           f[i] = IF s[i] \in A THEN Append(f[i - 1], s[i]) ELSE f[i - 1]
  BY <1>0 DEF IsOnly
<1> DEFINE Kept(i) == Stream!ToSet(f[i]) = {s[j] : j \in 1 .. i} \cap A /\ Len(f[i]) <= i
           S == {i \in 0 .. Len(s) : ~Kept(i)}
<1>2. Len(s) \in Nat /\ \A i \in 1 .. Len(s) : s[i] \in V
  OBVIOUS
<1>3. Kept(0)
  BY <1>1 DEF Stream!ToSet
<1>4. ASSUME NEW i \in 1 .. Len(s), Kept(i - 1) PROVE Kept(i)
  <2>1. /\ i - 1 \in 0 .. Len(s) /\ f[i - 1] \in Seq(V) /\ s[i] \in V
        /\ {s[j] : j \in 1 .. i} = {s[j] : j \in 1 .. i - 1} \cup {s[i]}
    BY <1>2
  <2>2. CASE s[i] \in A
    <3>1. f[i] = Append(f[i - 1], s[i])
      BY <1>1, <2>2
    <3>2. Stream!ToSet(Append(f[i - 1], s[i])) = Stream!ToSet(f[i - 1]) \cup {s[i]}
      BY <2>1, AppendRange
    <3>3. Len(f[i]) <= i
      BY <1>4, <2>1, <3>1
    <3> QED BY <1>4, <2>1, <2>2, <3>1, <3>2, <3>3
  <2>3. CASE s[i] \notin A
    BY <1>1, <1>4, <2>1, <2>3
  <2> QED BY <2>2, <2>3
<1>5. S = {}
  <2> SUFFICES ASSUME S # {} PROVE FALSE
    OBVIOUS
  <2>1. S \subseteq Nat /\ S \subseteq 0 .. Len(s)
    BY <1>2
  <2>2. PICK k \in S : \A l \in S : k <= l
    <3> HIDE DEF S
    <3> QED BY <2>1, LeastNatural
  <2>3. k # 0 /\ k \in 1 .. Len(s) /\ k - 1 \in 0 .. Len(s) /\ k - 1 < k
    BY <1>2, <1>3, <2>1, <2>2
  <2>4. Kept(k - 1)
    <3> HIDE DEF Kept
    <3> QED BY <2>2, <2>3
  <2> HIDE DEF Kept
  <2> QED BY <1>4, <2>2, <2>3, <2>4
<1>6. Stream!Only(s, A) \in Seq(V)
  BY <1>1, <1>2
<1>7. /\ Stream!ToSet(Stream!Only(s, A)) = {s[j] : j \in 1 .. Len(s)} \cap A
      /\ Len(Stream!Only(s, A)) <= Len(s)
  <2>1. Len(s) \in 0 .. Len(s)
    BY <1>2
  <2> QED BY <1>1, <1>5, <2>1
<1>8. {s[j] : j \in 1 .. Len(s)} = Stream!ToSet(s)
  BY <1>2 DEF Stream!ToSet
<1>9. Stream!Only(s, A) \in Seq(V \cap A)
  <2> DEFINE o == Stream!Only(s, A)
  <2>1. \A i \in 1 .. Len(o) : o[i] \in V /\ o[i] \in A
    <3> HIDE DEF o
    <3> QED BY <1>6, <1>7 DEF Stream!ToSet, o
  <2> HIDE DEF o
  <2>2. o \in Seq(V)
    BY <1>6 DEF o
  <2> QED BY <2>1, <2>2 DEF o
<1> QED BY <1>6, <1>7, <1>8, <1>9

\* The types of what the barrier keeps: TypeOK, without the texts.
ToolsTyped ==
  /\ sent \in [Calls -> 0 .. Whole] /\ held \in [Calls -> 0 .. Whole]
  /\ given \in [Calls -> 0 .. Whole]
  /\ order \in Seq(Calls) /\ pending \in Seq(Anthropic) /\ stopped \subseteq Calls

\* renderReleased: of the calls that are released, those of OpenAI's form are in
\* the frame and the others are in it or wait; one alone does not wait.
LEMMA RenderedCalls ==
  ASSUME ToolsTyped, pending = <<>>, NEW keys \in Seq(Calls),
         NEW K, K = {c \in Stream!ToSet(keys) : held[c] > 0},
         NEW r, r = Stream!Rendered(keys)
  PROVE  /\ r.frame \subseteq K /\ K \ Anthropic \subseteq r.frame
         /\ r.wait \in Seq(Anthropic) /\ Stream!ToSet(r.wait) \subseteq K \cap Anthropic
         /\ K \subseteq r.frame \cup Stream!ToSet(r.wait)
         /\ (\A a, b \in K : a = b) => K \subseteq r.frame
         /\ Len(keys) < 2 => r.wait = <<>>
<1> DEFINE w == Stream!Only(keys, K \cap Anthropic)
           o == K \ Anthropic
<1>1. /\ w \in Seq(Anthropic) /\ w \in Seq(Calls)
      /\ Stream!ToSet(w) = Stream!ToSet(keys) \cap (K \cap Anthropic)
      /\ Len(w) <= Len(keys)
  <2>1. /\ w \in Seq(Calls) /\ w \in Seq(Calls \cap (K \cap Anthropic))
        /\ Stream!ToSet(w) = Stream!ToSet(keys) \cap (K \cap Anthropic)
        /\ Len(w) <= Len(keys)
    <3> DEFINE A == K \cap Anthropic
    <3> HIDE DEF A
    <3>1. /\ Stream!Only(keys, A) \in Seq(Calls)
          /\ Stream!ToSet(Stream!Only(keys, A)) = Stream!ToSet(keys) \cap A
          /\ Stream!Only(keys, A) \in Seq(Calls \cap A)
          /\ Len(Stream!Only(keys, A)) <= Len(keys)
      BY OnlyKeeps
    <3> QED BY <3>1 DEF A
  <2> HIDE DEF w
  <2>2. w \in Seq(Anthropic)
    BY <2>1
  <2> QED BY <2>1, <2>2
<1>2. Stream!ToSet(w) = K \cap Anthropic
  <2> HIDE DEF w
  <2> QED BY <1>1
<1>3. pending \o w = w
  <2> HIDE DEF w
  <2> QED BY <1>1
<1>4. r = IF keys = <<>> THEN [frame |-> {}, wait |-> pending]
          ELSE IF o # {} THEN [frame |-> o, wait |-> pending \o w]
          ELSE IF pending \o w # <<>> THEN [frame |-> {Head(pending \o w)}, wait |-> Tail(pending \o w)]
          ELSE [frame |-> {}, wait |-> <<>>]
  BY DEF Stream!Rendered
<1> HIDE DEF w, o
<1>5. CASE keys = <<>>
  <2>1. K = {}
    BY <1>5 DEF Stream!ToSet
  <2>2. Stream!ToSet(<<>>) = {}
    BY DEF Stream!ToSet
  <2> QED BY <1>4, <1>5, <2>1, <2>2
<1>6. CASE keys # <<>> /\ o # {}
  <2>1. r.frame = o /\ r.wait = w
    BY <1>3, <1>4, <1>6
  <2>2. Len(keys) < 2 => w = <<>>
    <3>1. SUFFICES ASSUME Len(keys) < 2, w # <<>> PROVE FALSE
      OBVIOUS
    <3>2. PICK c \in K : c \notin Anthropic
      BY <1>6 DEF o
    <3>3. w[1] \in Stream!ToSet(w)
      BY <1>1, <3>1 DEF Stream!ToSet
    <3>4. \A x, y \in Stream!ToSet(keys) : x = y
      BY <3>1 DEF Stream!ToSet
    <3> QED BY <1>2, <3>2, <3>3, <3>4
  <2>3. (\A a, b \in K : a = b) => K \subseteq o
    BY <1>6 DEF o
  <2> QED BY <1>1, <1>2, <2>1, <2>2, <2>3 DEF o
<1>7. CASE keys # <<>> /\ o = {} /\ w # <<>>
  <2>1. r.frame = {Head(w)} /\ r.wait = Tail(w)
    BY <1>3, <1>4, <1>7
  <2>2. /\ Head(w) \in Stream!ToSet(w) /\ Tail(w) \in Seq(Anthropic)
        /\ Stream!ToSet(Tail(w)) \subseteq Stream!ToSet(w)
        /\ Stream!ToSet(w) \subseteq {Head(w)} \cup Stream!ToSet(Tail(w))
    BY <1>1, <1>7, HeadAndTail
  <2>3. Len(keys) < 2 => Tail(w) = <<>>
    BY <1>1, <1>7
  <2> QED BY <1>2, <1>7, <2>1, <2>2, <2>3 DEF o
<1>8. CASE keys # <<>> /\ o = {} /\ w = <<>>
  <2>1. r.frame = {} /\ r.wait = <<>>
    BY <1>3, <1>4, <1>8
  <2>2. Stream!ToSet(<<>>) = {}
    BY DEF Stream!ToSet
  <2> QED BY <1>2, <1>8, <2>1, <2>2 DEF o
<1> QED BY <1>5, <1>6, <1>7, <1>8

\* What a frame does to the calls of keys that wait: it carries the calls of frame,
\* and of the others those of Anthropic's form are left for the frames to come.
Lets(frame, keys, stops) ==
  /\ LET K == {c \in Stream!ToSet(keys) : held[c] > 0} IN
     /\ frame \subseteq K /\ K \ Anthropic \subseteq frame
     /\ K \subseteq frame \cup Stream!ToSet(pending')
     /\ Stream!ToSet(pending') \subseteq K \cap Anthropic
     /\ (\A a, b \in K : a = b) => K \subseteq frame
     /\ Len(keys) < 2 => pending' = <<>>
  /\ held' = [c \in Calls |-> IF c \in Stream!ToSet(keys) THEN 0 ELSE held[c]]
  /\ given' = [c \in Calls |-> IF c \in frame THEN sent[c] ELSE given[c]]
  /\ early' = early \cup {c \in stops : given'[c] < sent[c]}
  /\ held' \in [Calls -> 0 .. Whole] /\ given' \in [Calls -> 0 .. Whole]
  /\ pending' \in Seq(Anthropic)

\* A frame releases nothing, or all that its end stands for: what the barrier
\* holds of a call that is told to be complete is in the frame before.
LEMMA BarrierReleases ==
  ASSUME ToolsTyped, pending = <<>>, NEW keys \in Seq(Calls), NEW stops,
         Stream!Release(keys, stops),
         \A c \in Calls : held[c] > 0 => c \in Stream!ToSet(order)
  PROVE  \E frame : Lets(frame, keys, stops)
<1> DEFINE K == {c \in Stream!ToSet(keys) : held[c] > 0}
<1>1. PICK r : r = Stream!Rendered(keys)
  OBVIOUS
<1>2. /\ held' = [c \in Calls |-> IF c \in Stream!ToSet(keys) THEN 0 ELSE held[c]]
      /\ pending' = r.wait
      /\ given' = [c \in Calls |-> IF c \in r.frame THEN sent[c] ELSE given[c]]
      /\ early' = early \cup {c \in stops : given'[c] < sent[c]}
  BY <1>1 DEF Stream!Release, Stream!Read
<1>3. /\ r.frame \subseteq K /\ K \ Anthropic \subseteq r.frame
      /\ r.wait \in Seq(Anthropic) /\ Stream!ToSet(r.wait) \subseteq K \cap Anthropic
      /\ K \subseteq r.frame \cup Stream!ToSet(r.wait)
      /\ (\A a, b \in K : a = b) => K \subseteq r.frame
      /\ Len(keys) < 2 => r.wait = <<>>
  <2>1. PICK k : k = K
    OBVIOUS
  <2>2. k = {c \in Stream!ToSet(keys) : held[c] > 0}
    BY <2>1
  <2> HIDE DEF K
  <2> QED BY <1>1, <2>1, <2>2, RenderedCalls
<1>4. held' \in [Calls -> 0 .. Whole] /\ given' \in [Calls -> 0 .. Whole]
  BY <1>2, StreamAssumption DEF ToolsTyped
<1> WITNESS r.frame
<1> QED BY <1>2, <1>3, <1>4 DEF Lets

\* absorbToolCalls: a fragment that goes to the barrier has its place there.
LEMMA BarrierFragment ==
  ASSUME ToolsTyped, NEW c \in Calls, Stream!Fragment(c),
         \A d \in Calls : held[d] <= sent[d] /\ (held[d] > 0 => d \in Stream!ToSet(order))
  PROVE  /\ c \notin stopped /\ UNCHANGED <<pending, given, stopped, early>> /\ ToolsTyped'
         /\ sent'[c] = sent[c] + 1 /\ held'[c] = held[c] + 1
         /\ \A d \in Calls : d # c => sent'[d] = sent[d] /\ held'[d] = held[d]
         /\ \A d \in Calls : held'[d] <= sent'[d] /\ (held'[d] > 0 => d \in Stream!ToSet(order'))
<1> USE StreamAssumption
<1>1. /\ c \notin stopped /\ sent[c] < Whole
      /\ sent' = [sent EXCEPT ![c] = @ + 1] /\ held' = [held EXCEPT ![c] = @ + 1]
      /\ order' = IF held[c] = 0 THEN Append(order, c) ELSE order
      /\ UNCHANGED <<pending, given, stopped, early>>
  BY DEF Stream!Fragment, Stream!Absorb
<1>2. Stream!ToSet(order') = Stream!ToSet(order) \cup {c}
  <2>1. CASE held[c] = 0
    BY <1>1, <2>1, AppendRange DEF ToolsTyped
  <2>2. CASE held[c] # 0
    <3>1. c \in Stream!ToSet(order)
      BY <2>2 DEF ToolsTyped
    <3> QED BY <1>1, <2>2, <3>1
  <2> QED BY <2>1, <2>2
<1>3. ToolsTyped'
  <2>1. held[c] + 1 \in 0 .. Whole /\ sent[c] + 1 \in 0 .. Whole
    BY <1>1 DEF ToolsTyped
  <2>2. order' \in Seq(Calls)
    BY <1>1 DEF ToolsTyped
  <2> QED BY <1>1, <2>1, <2>2 DEF ToolsTyped
<1>4. /\ sent'[c] = sent[c] + 1 /\ held'[c] = held[c] + 1
      /\ \A d \in Calls : d # c => sent'[d] = sent[d] /\ held'[d] = held[d]
  BY <1>1 DEF ToolsTyped
<1>5. \A d \in Calls : held'[d] <= sent'[d] /\ (held'[d] > 0 => d \in Stream!ToSet(order'))
  <2> SUFFICES ASSUME NEW d \in Calls
               PROVE  held'[d] <= sent'[d] /\ (held'[d] > 0 => d \in Stream!ToSet(order'))
    OBVIOUS
  <2>1. held[d] \in Nat /\ sent[d] \in Nat /\ held[d] <= sent[d] /\ (held[d] > 0 => d \in Stream!ToSet(order))
    BY DEF ToolsTyped
  <2>2. CASE d = c
    BY <1>2, <1>4, <2>1, <2>2
  <2>3. CASE d # c
    BY <1>2, <1>4, <2>1, <2>3
  <2> QED BY <2>2, <2>3
<1> QED BY <1>1, <1>3, <1>4, <1>5

LEMMA BarrierFrame ==
  ASSUME ToolsTyped, Stream!Barrier, Stream!CallsComplete, end = "open", UNCHANGED <<end, broke>>,
         \/ Stream!NoTool
         \/ \E c \in Calls : Stream!Fragment(c) \/ Stream!BlockStop(c)
         \/ Stream!Finish
  PROVE  ToolsTyped' /\ Stream!Barrier' /\ Stream!CallsComplete'
<1> USE StreamAssumption
<1>1. /\ \A c \in Calls : held[c] <= sent[c] /\ (held[c] > 0 => c \in Stream!ToSet(order))
      /\ pending = <<>>
      /\ ~broke => \A c \in Calls : given[c] + held[c] = sent[c] /\ (c \in stopped => held[c] = 0)
      /\ ~broke => early = {}
  BY DEF Stream!Barrier, Stream!CallsComplete
<1>2. ASSUME pending' = <<>>,
             \A c \in Calls : held'[c] <= sent'[c] /\ (held'[c] > 0 => c \in Stream!ToSet(order')),
             ~broke => \A c \in Calls : given'[c] + held'[c] = sent'[c] /\ (c \in stopped' => held'[c] = 0),
             ~broke => early' = {}
      PROVE  Stream!Barrier' /\ Stream!CallsComplete'
  BY <1>2 DEF Stream!Barrier, Stream!CallsComplete
<1>3. CASE Stream!NoTool
  BY <1>3 DEF Stream!NoTool, Stream!tools, ToolsTyped, Stream!Barrier, Stream!CallsComplete, Stream!Open
<1>4. ASSUME NEW c \in Calls, Stream!Fragment(c) PROVE ToolsTyped' /\ Stream!Barrier' /\ Stream!CallsComplete'
  <2>1. /\ c \notin stopped /\ UNCHANGED <<pending, given, stopped, early>> /\ ToolsTyped'
        /\ sent'[c] = sent[c] + 1 /\ held'[c] = held[c] + 1
        /\ \A d \in Calls : d # c => sent'[d] = sent[d] /\ held'[d] = held[d]
        /\ \A d \in Calls : held'[d] <= sent'[d] /\ (held'[d] > 0 => d \in Stream!ToSet(order'))
    BY <1>1, <1>4, BarrierFragment
  <2>6. ~broke => \A d \in Calls : given'[d] + held'[d] = sent'[d] /\ (d \in stopped' => held'[d] = 0)
    <3>1. \A d \in Calls : given[d] \in Nat /\ held[d] \in Nat /\ sent[d] \in Nat
      BY DEF ToolsTyped
    <3>2. /\ given' = given /\ stopped' = stopped /\ c \notin stopped
          /\ sent'[c] = sent[c] + 1 /\ held'[c] = held[c] + 1
          /\ \A d \in Calls : d # c => sent'[d] = sent[d] /\ held'[d] = held[d]
      BY <2>1
    <3>3. ASSUME ~broke, NEW d \in Calls
          PROVE  given'[d] + held'[d] = sent'[d] /\ (d \in stopped' => held'[d] = 0)
      <4>1. /\ given[d] + held[d] = sent[d] /\ (d \in stopped => held[d] = 0)
            /\ given[d] \in Nat /\ held[d] \in Nat /\ sent[d] \in Nat /\ given'[d] = given[d]
        BY <1>1, <3>1, <3>2, <3>3
      <4>2. CASE d = c
        BY <3>2, <4>1, <4>2
      <4>3. CASE d # c
        BY <3>2, <4>1, <4>3
      <4> QED BY <4>2, <4>3
    <3> QED BY <3>3
  <2> QED BY <1>1, <1>2, <2>1, <2>6
<1>5. ASSUME NEW keys \in Seq(Calls), NEW stops \in SUBSET Calls, Stream!EndOf(keys, stops),
             \A c \in stops : held[c] > 0 => c \in Stream!ToSet(keys),
             {c \in Stream!ToSet(keys) : held[c] > 0} \cap Anthropic = {} \/ Len(keys) < 2
      PROVE  ToolsTyped' /\ Stream!Barrier' /\ Stream!CallsComplete'
  <2> DEFINE K == {c \in Stream!ToSet(keys) : held[c] > 0}
  <2>1. /\ stopped' = stopped \cup stops /\ UNCHANGED <<sent, order>>
        /\ Stream!Release(keys, stops)
    BY <1>5 DEF Stream!EndOf
  <2>a. PICK frame : Lets(frame, keys, stops)
    BY <1>1, <2>1, BarrierReleases
  <2>2. /\ frame \subseteq K /\ K \ Anthropic \subseteq frame
        /\ K \subseteq frame \cup Stream!ToSet(pending')
        /\ Stream!ToSet(pending') \subseteq K \cap Anthropic
        /\ (\A a, b \in K : a = b) => K \subseteq frame
        /\ Len(keys) < 2 => pending' = <<>>
        /\ held' = [c \in Calls |-> IF c \in Stream!ToSet(keys) THEN 0 ELSE held[c]]
        /\ given' = [c \in Calls |-> IF c \in frame THEN sent[c] ELSE given[c]]
        /\ early' = early \cup {c \in stops : given'[c] < sent[c]}
        /\ held' \in [Calls -> 0 .. Whole] /\ given' \in [Calls -> 0 .. Whole]
        /\ pending' \in Seq(Anthropic)
    BY <2>a DEF Lets
  <2>3. Stream!ToSet(<<>>) = {}
    BY DEF Stream!ToSet
  <2>4. pending' = <<>> /\ K \subseteq frame
    <3>1. CASE K \cap Anthropic = {}
      <4>1. Stream!ToSet(pending') = {}
        BY <2>2, <3>1
      <4>2. pending' = <<>>
        <5> SUFFICES ASSUME pending' # <<>> PROVE FALSE
          OBVIOUS
        <5>1. 1 \in DOMAIN pending'
          BY <2>2
        <5> QED BY <4>1, <5>1 DEF Stream!ToSet
      <4> QED BY <2>2, <4>1, <4>2
    <3>2. CASE Len(keys) < 2
      BY <2>2, <2>3, <3>2
    <3> QED BY <1>5, <3>1, <3>2
  <2>5. Stream!ToSet(keys) \subseteq Calls
    BY DEF Stream!ToSet
  <2>6. ToolsTyped'
    BY <2>1, <2>2 DEF ToolsTyped
  <2>7. \A c \in Calls : held'[c] <= sent'[c] /\ (held'[c] > 0 => c \in Stream!ToSet(order'))
    BY <1>1, <2>1, <2>2 DEF ToolsTyped
  <2>8. ASSUME ~broke, NEW c \in Calls
        PROVE  /\ given'[c] + held'[c] = sent'[c]
               /\ c \in stopped' => held'[c] = 0
               /\ c \in stops => given'[c] = sent[c]
    <3>0. held[c] \in Nat /\ given[c] \in Nat /\ sent[c] \in Nat /\ given[c] + held[c] = sent[c]
      BY <1>1, <2>8 DEF ToolsTyped
    <3>1. CASE c \in K
      <4>1. c \in frame /\ c \in Stream!ToSet(keys)
        BY <2>4, <3>1
      <4>2. given'[c] = sent[c] /\ held'[c] = 0
        BY <2>2, <4>1
      <4> QED BY <2>1, <3>0, <4>2
    <3>2. CASE c \notin K /\ c \in Stream!ToSet(keys)
      <4>1. c \notin frame /\ held[c] = 0
        BY <2>2, <3>0, <3>2
      <4>2. given'[c] = given[c] /\ held'[c] = 0
        BY <2>2, <3>2, <4>1
      <4> QED BY <2>1, <3>0, <4>1, <4>2
    <3>3. CASE c \notin Stream!ToSet(keys)
      <4>1. c \notin frame /\ held'[c] = held[c] /\ given'[c] = given[c]
        BY <2>2, <3>3
      <4>2. c \in stops => held[c] = 0
        BY <1>5, <3>0, <3>3
      <4>3. c \in stopped => held[c] = 0
        BY <1>1, <2>8
      <4> QED BY <2>1, <3>0, <4>1, <4>2, <4>3
    <3> QED BY <3>1, <3>2, <3>3
  <2>9. ~broke => early' = {}
    <3> SUFFICES ASSUME ~broke PROVE early' = {}
      OBVIOUS
    <3>1. \A c \in stops : given'[c] = sent[c] /\ sent[c] \in Nat
      BY <2>8 DEF ToolsTyped
    <3>2. {c \in stops : given'[c] < sent[c]} = {}
      BY <3>1
    <3> QED BY <1>1, <2>2, <3>2
  <2> QED BY <1>2, <2>4, <2>6, <2>7, <2>8, <2>9
<1>6. ASSUME NEW c \in Calls, Stream!BlockStop(c)
      PROVE  ToolsTyped' /\ Stream!Barrier' /\ Stream!CallsComplete'
  <2>1. CASE held[c] > 0
    <3>1. Stream!EndOf(<<c>>, {c}) /\ <<c>> \in Seq(Calls) /\ Len(<<c>>) < 2 /\ Stream!ToSet(<<c>>) = {c}
      BY <1>6, <2>1 DEF Stream!BlockStop, Stream!ToSet
    <3> QED BY <1>5, <3>1
  <2>2. CASE ~(held[c] > 0)
    <3>1. Stream!EndOf(<<>>, {c}) /\ <<>> \in Seq(Calls) /\ Len(<<>>) < 2
      BY <1>6, <2>2 DEF Stream!BlockStop
    <3> QED BY <1>5, <2>2, <3>1
  <2> QED BY <2>1, <2>2
<1>7. CASE Stream!Finish
  <2> DEFINE keys == Stream!Only(order, Calls \ Anthropic)
  <2>1. /\ keys \in Seq(Calls)
        /\ Stream!ToSet(keys) = Stream!ToSet(order) \cap (Calls \ Anthropic)
    <3> DEFINE A == Calls \ Anthropic
    <3> HIDE DEF A
    <3>1. /\ Stream!Only(order, A) \in Seq(Calls)
          /\ Stream!ToSet(Stream!Only(order, A)) = Stream!ToSet(order) \cap A
      BY OnlyKeeps DEF ToolsTyped
    <3> QED BY <3>1 DEF A
  <2>2. Stream!EndOf(keys, Calls \ Anthropic)
    BY <1>7 DEF Stream!Finish
  <2> HIDE DEF keys
  <2>3. \A c \in Calls \ Anthropic : held[c] > 0 => c \in Stream!ToSet(keys)
    BY <1>1, <2>1
  <2>4. {c \in Stream!ToSet(keys) : held[c] > 0} \cap Anthropic = {}
    BY <2>1
  <2> QED BY <1>5, <2>1, <2>2, <2>3, <2>4
<1> QED BY <1>3, <1>4, <1>6, <1>7

\* The instance's Cardinality is the one the library's theorems are about.
LEMMA StreamCardinality == \A S : Stream!Cardinality(S) = Cardinality(S)
  BY DEF Stream!Cardinality, Cardinality

LEMMA FewerThanTwo ==
  ASSUME NEW S, IsFiniteSet(S), Stream!Cardinality(S) < 2
  PROVE  \A a, b \in S : a = b
<1> SUFFICES ASSUME NEW a \in S, NEW b \in S, a # b PROVE FALSE
  OBVIOUS
<1>1. Cardinality({a, b}) = 2
  <2>1. Cardinality({a}) = 1 /\ IsFiniteSet({a})
    BY FS_Singleton
  <2>2. Cardinality({a} \cup {b}) = Cardinality({a}) + 1
    BY <2>1, FS_AddElement
  <2>3. {a} \cup {b} = {a, b}
    OBVIOUS
  <2> QED BY <2>1, <2>2, <2>3
<1>2. Cardinality({a, b}) <= Cardinality(S)
  BY FS_Subset
<1>3. Cardinality(S) \in Nat
  BY FS_CardinalityType
<1> QED BY <1>1, <1>2, <1>3, StreamCardinality

LEMMA BarrierFails ==
  ASSUME ToolsTyped, Stream!Barrier, Stream!CallsComplete, end = "open", end' = end, broke',
         \/ Stream!NoTool
         \/ \E c \in Calls : Stream!Fragment(c)
         \/ /\ stopped \subseteq Anthropic /\ stopped' = stopped \cup (Calls \ Anthropic)
            /\ UNCHANGED <<sent, held, order, pending, given>>
  PROVE  ToolsTyped' /\ Stream!Barrier' /\ Stream!CallsComplete'
<1> USE StreamAssumption
<1>1. /\ \A c \in Calls : held[c] <= sent[c] /\ (held[c] > 0 => c \in Stream!ToSet(order))
      /\ pending = <<>>
  BY DEF Stream!Barrier
<1>2. CASE Stream!NoTool
  BY <1>1, <1>2 DEF Stream!NoTool, Stream!tools, ToolsTyped, Stream!Barrier, Stream!CallsComplete
<1>3. ASSUME NEW c \in Calls, Stream!Fragment(c) PROVE ToolsTyped' /\ Stream!Barrier' /\ Stream!CallsComplete'
  <2>1. /\ UNCHANGED pending /\ ToolsTyped'
        /\ \A d \in Calls : held'[d] <= sent'[d] /\ (held'[d] > 0 => d \in Stream!ToSet(order'))
    BY <1>1, <1>3, BarrierFragment
  <2> QED BY <1>1, <2>1 DEF Stream!Barrier, Stream!CallsComplete
<1>4. CASE /\ stopped \subseteq Anthropic /\ stopped' = stopped \cup (Calls \ Anthropic)
           /\ UNCHANGED <<sent, held, order, pending, given>>
  BY <1>1, <1>4 DEF ToolsTyped, Stream!Barrier, Stream!CallsComplete
<1> QED BY <1>2, <1>3, <1>4

\* FlushToolCalls: what is held is in the frame or waits behind it.
LEMMA BarrierDone ==
  ASSUME ToolsTyped, Stream!Barrier, Stream!CallsComplete, end = "open", Stream!Done
  PROVE  ToolsTyped' /\ Stream!Barrier' /\ Stream!CallsComplete'
<1> USE StreamAssumption
<1> DEFINE H == {c \in Calls : held[c] > 0}
           keys == Stream!Only(order, H)
           K == {c \in Stream!ToSet(keys) : held[c] > 0}
<1>1. /\ \A c \in Calls : held[c] <= sent[c] /\ (held[c] > 0 => c \in Stream!ToSet(order))
      /\ pending = <<>>
      /\ ~broke => \A c \in Calls : given[c] + held[c] = sent[c] /\ (c \in stopped => held[c] = 0)
      /\ ~broke => early = {}
  BY DEF Stream!Barrier, Stream!CallsComplete
<1>2. /\ Stream!Release(keys, {}) /\ UNCHANGED <<sent, order, stopped>>
      /\ end' # "open" /\ (~broke' => ~broke)
  BY DEF Stream!Done, Stream!FlushText
<1>3. keys \in Seq(Calls) /\ Stream!ToSet(keys) = Stream!ToSet(order) \cap H
  <2> HIDE DEF H
  <2> QED BY OnlyKeeps DEF ToolsTyped
<1> HIDE DEF keys
<1>4. PICK frame : Lets(frame, keys, {})
  BY <1>1, <1>2, <1>3, BarrierReleases
<1>5. /\ frame \subseteq K /\ K \ Anthropic \subseteq frame
      /\ K \subseteq frame \cup Stream!ToSet(pending')
      /\ (\A a, b \in K : a = b) => K \subseteq frame
      /\ held' = [c \in Calls |-> IF c \in Stream!ToSet(keys) THEN 0 ELSE held[c]]
      /\ given' = [c \in Calls |-> IF c \in frame THEN sent[c] ELSE given[c]]
      /\ early' = early \cup {c \in {} : given'[c] < sent[c]}
      /\ held' \in [Calls -> 0 .. Whole] /\ given' \in [Calls -> 0 .. Whole]
      /\ pending' \in Seq(Anthropic)
  BY <1>4 DEF Lets
<1>6. K = H /\ H \subseteq Calls
  BY <1>1, <1>3
<1>7. ToolsTyped'
  BY <1>2, <1>5 DEF ToolsTyped
<1>8. \A c \in Calls : held'[c] = 0
  BY <1>1, <1>3, <1>5, <1>6 DEF ToolsTyped
<1>9. Stream!Barrier'
  <2>1. \A c \in Calls : sent'[c] \in Nat
    BY <1>7 DEF ToolsTyped
  <2> QED BY <1>2, <1>8, <2>1 DEF Stream!Barrier
<1>10. Stream!CallsComplete'
  <2> SUFFICES ASSUME ~broke' PROVE Stream!CallsComplete'
    BY DEF Stream!CallsComplete
  <2>1. ~broke /\ early' = {}
    BY <1>1, <1>2, <1>5
  <2>2. \A c \in Calls : given[c] \in Nat /\ sent[c] \in Nat /\ given'[c] \in Nat /\ sent' = sent
    BY <1>2, <1>7 DEF ToolsTyped
  <2>3. \A c \in Calls : c \in frame \/ c \notin K => given'[c] = sent[c]
    <3> SUFFICES ASSUME NEW c \in Calls, c \in frame \/ c \notin K PROVE given'[c] = sent[c]
      OBVIOUS
    <3>1. CASE c \in frame
      BY <1>5, <3>1
    <3>2. CASE c \notin frame
      <4>1. ~(held[c] > 0) /\ held[c] \in Nat
        BY <1>6, <3>2 DEF ToolsTyped
      <4> QED BY <1>1, <1>5, <2>1, <2>2, <3>2, <4>1
    <3> QED BY <3>1, <3>2
  <2>4. \A c \in Calls : c \notin Stream!ToSet(pending') => given'[c] + held'[c] = sent'[c]
    BY <1>5, <1>8, <2>2, <2>3
  <2>5. ASSUME Stream!Cardinality(Stream!Open') < 2 \/ Stream!Open' \cap Anthropic = {}
        PROVE  given' = sent'
    <3>1. Stream!Open' = {c \in Calls : sent[c] > 0 /\ c \notin stopped}
      BY <1>2 DEF Stream!Open
    <3>2. K \subseteq Stream!Open'
      BY <1>1, <1>6, <2>1, <3>1 DEF ToolsTyped
    <3>3. IsFiniteSet(Stream!Open')
      BY <3>1, FS_Subset
    <3>4. K \subseteq frame
      <4>1. CASE Stream!Cardinality(Stream!Open') < 2
        <5>1. \A a, b \in Stream!Open' : a = b
          <6>1. PICK S : S = Stream!Open'
            OBVIOUS
          <6>2. IsFiniteSet(S) /\ Stream!Cardinality(S) < 2
            BY <3>3, <4>1, <6>1
          <6> QED BY <6>1, <6>2, FewerThanTwo
        <5> QED BY <1>5, <3>2, <5>1
      <4>2. CASE Stream!Open' \cap Anthropic = {}
        BY <1>5, <3>2, <4>2
      <4> QED BY <2>5, <4>1, <4>2
    <3>5. \A c \in Calls : given'[c] = sent'[c]
      BY <2>2, <2>3, <3>4
    <3> QED BY <1>7, <3>5 DEF ToolsTyped
  <2> QED BY <2>1, <2>4, <2>5 DEF Stream!CallsComplete
<1> QED BY <1>7, <1>9, <1>10

LEMMA BarrierInit ==
  ASSUME Stream!Init
  PROVE  ToolsTyped /\ Stream!Barrier /\ Stream!CallsComplete
<1> USE StreamAssumption DEF Stream!Init
<1>1. ToolsTyped
  BY DEF ToolsTyped
<1>2. \A c \in Calls : sent[c] = 0 /\ held[c] = 0 /\ given[c] = 0 /\ c \notin stopped
  OBVIOUS
<1>3. Stream!Barrier
  BY <1>2 DEF Stream!Barrier
<1>4. Stream!CallsComplete
  BY <1>2 DEF Stream!CallsComplete
<1> QED BY <1>1, <1>3, <1>4

LEMMA BarrierNext ==
  ASSUME ToolsTyped, Stream!Barrier, Stream!CallsComplete, [Stream!Next]_(Stream!vars)
  PROVE  ToolsTyped' /\ Stream!Barrier' /\ Stream!CallsComplete'
<1>1. ASSUME NEW p \in Paths, NEW n \in 0 .. Len(text[p]) - taken[p], Stream!Frame(p, n)
      PROVE  ToolsTyped' /\ Stream!Barrier' /\ Stream!CallsComplete'
  <2>1. /\ end = "open" /\ UNCHANGED <<end, broke>>
        /\ \/ Stream!NoTool
           \/ \E c \in Calls : Stream!Fragment(c) \/ Stream!BlockStop(c)
           \/ Stream!Finish
    BY <1>1 DEF Stream!Frame
  <2> QED BY <2>1, BarrierFrame
<1>2. ASSUME NEW p \in Paths, NEW n \in 0 .. Len(text[p]) - taken[p], Stream!FrameFails(p, n)
      PROVE  ToolsTyped' /\ Stream!Barrier' /\ Stream!CallsComplete'
  <2>1. /\ end = "open" /\ end' = end /\ broke'
        /\ \/ Stream!NoTool
           \/ \E c \in Calls : Stream!Fragment(c)
           \/ /\ stopped \subseteq Anthropic /\ stopped' = stopped \cup (Calls \ Anthropic)
              /\ UNCHANGED <<sent, held, order, pending, given>>
    BY <1>2 DEF Stream!FrameFails
  <2> QED BY <2>1, BarrierFails
<1>3. CASE Stream!Done
  BY <1>3, BarrierDone DEF Stream!Done
<1>4. CASE Stream!Ends
  <2>1. /\ end' # "open" /\ end' # "done"
        /\ UNCHANGED <<sent, held, order, pending, given, stopped, early, broke>>
    BY <1>4 DEF Stream!Ends, Stream!tools
  <2> QED BY <2>1 DEF ToolsTyped, Stream!Barrier, Stream!CallsComplete
<1>5. CASE UNCHANGED Stream!vars
  <2>1. UNCHANGED <<sent, held, order, pending, given, stopped, early, broke, end>>
    BY <1>5 DEF Stream!vars, Stream!tools
  <2> QED BY <2>1 DEF ToolsTyped, Stream!Barrier, Stream!CallsComplete, Stream!Open
<1> QED BY <1>1, <1>2, <1>3, <1>4, <1>5 DEF Stream!Next

\* No call is told to be complete before the client has all of its arguments, every
\* fragment is read once, and the end of the answer brings what the barrier held
\* (restore.go, absorbToolCalls to FlushToolCalls), for any number of calls, fragments
\* and paths, in any order.
THEOREM StreamCallsComplete == Stream!Spec => [](Stream!Barrier /\ Stream!CallsComplete)
<1>1. Stream!Init => ToolsTyped /\ Stream!Barrier /\ Stream!CallsComplete
  BY BarrierInit
<1>2. ToolsTyped /\ Stream!Barrier /\ Stream!CallsComplete /\ [Stream!Next]_(Stream!vars)
        => (ToolsTyped /\ Stream!Barrier /\ Stream!CallsComplete)'
  BY BarrierNext
<1> QED BY <1>1, <1>2, PTL DEF Stream!Spec

(***************************************************************************)
(* The hold-back buffers (StreamRestore).                                  *)
(***************************************************************************)
LEMMA MarkerPieces ==
  /\ Stream!Markers = {"ph", "tok"}
  /\ Stream!Piece("ph", 1) = "ph1" /\ Stream!Piece("ph", 2) = "ph2" /\ Stream!Piece("ph", 3) = "ph3"
  /\ Stream!Piece("tok", 1) = "tok1" /\ Stream!Piece("tok", 2) = "tok2" /\ Stream!Piece("tok", 3) = "tok3"
  BY DEF Stream!Markers, Stream!Piece

\* What Unredact goes over at i, and what it makes of it.
ClosersAt(s, i) == {j \in i .. Len(s) : Stream!Wrapped(s, i, j)}
MarkersAt(s, i) == {m \in Stream!Markers : Stream!WholeAt(s, i, m)}
Goes(s, i) ==
  IF ClosersAt(s, i) # {} THEN (CHOOSE j \in ClosersAt(s, i) : TRUE) - i + 1
  ELSE IF MarkersAt(s, i) # {} THEN 3 ELSE 1
Becomes(s, i) ==
  IF ClosersAt(s, i) # {} THEN Stream!Value("ph")
  ELSE IF MarkersAt(s, i) # {} THEN Stream!Value(CHOOSE m \in MarkersAt(s, i) : TRUE) ELSE s[i]

IsUnredact(f, s) ==
  /\ Stream!Unredact(s) = f[Len(s)]
  /\ f[0] = <<>>
  /\ \A n \in 1 .. Len(s) :
       f[n] = <<Becomes(s, Len(s) - n + 1)>> \o f[n - Goes(s, Len(s) - n + 1)]

LEMMA GoesType ==
  ASSUME NEW s \in Seq(Stream!Atoms), NEW i \in 1 .. Len(s)
  PROVE  Goes(s, i) \in 1 .. Len(s) - i + 1 /\ Becomes(s, i) \in Stream!Readable
<1>0. Len(s) \in Nat /\ i \in Nat /\ i > 0 /\ i <= Len(s)
  OBVIOUS
<1>v. \A m \in Stream!Markers : Stream!Value(m) \in Stream!Readable
  BY DEF Stream!Readable
<1>1. CASE ClosersAt(s, i) # {}
  <2>1. PICK j : j = CHOOSE l \in ClosersAt(s, i) : TRUE
    OBVIOUS
  <2>2. j \in ClosersAt(s, i)
    BY <1>1, <2>1
  <2>3. j \in i .. Len(s)
    BY <2>2 DEF ClosersAt
  <2>4. Goes(s, i) = j - i + 1 /\ Becomes(s, i) = Stream!Value("ph")
    BY <1>1, <2>1 DEF Goes, Becomes
  <2> QED BY <1>0, <1>v, <2>3, <2>4, MarkerPieces
<1>2. CASE ClosersAt(s, i) = {} /\ MarkersAt(s, i) # {}
  <2>1. PICK m : m = CHOOSE l \in MarkersAt(s, i) : TRUE
    OBVIOUS
  <2>2. m \in MarkersAt(s, i)
    BY <1>2, <2>1
  <2>3. m \in Stream!Markers /\ i + 2 <= Len(s)
    BY <2>2 DEF MarkersAt, Stream!WholeAt
  <2>4. Goes(s, i) = 3 /\ Becomes(s, i) = Stream!Value(m)
    BY <1>2, <2>1 DEF Goes, Becomes
  <2> QED BY <1>0, <1>v, <2>3, <2>4
<1>3. CASE ClosersAt(s, i) = {} /\ MarkersAt(s, i) = {}
  <2>1. Goes(s, i) = 1 /\ Becomes(s, i) = s[i]
    BY <1>3 DEF Goes, Becomes
  <2>2. s[i] \in Stream!Readable
    BY DEF Stream!Readable
  <2> QED BY <1>0, <2>1, <2>2
<1> QED BY <1>1, <1>2, <1>3

LEMMA UnredactSteps ==
  ASSUME NEW s \in Seq(Stream!Atoms)
  PROVE  \E f \in [0 .. Len(s) -> Seq(Stream!Readable)] : IsUnredact(f, s)
<1> DEFINE n == Len(s)
           V == Stream!Readable
           F == [0 .. n -> Seq(V)]
           To(i) == Goes(s, n - i + 1)
           Mark(i) == Becomes(s, n - i + 1)
           Step(i, f) == IF i = 0 THEN <<>> ELSE <<Mark(i)>> \o f[i - To(i)]
           Body1(k, f) ==
             LET i == Len(s) - k + 1
                 closers == {j \in i .. Len(s) : Stream!Wrapped(s, i, j)}
                 markers == {m \in Stream!Markers : Stream!WholeAt(s, i, m)}
             IN IF k = 0 THEN <<>>
                ELSE IF closers # {}
                  THEN <<Stream!Value("ph")>> \o f[Len(s) - CHOOSE j \in closers : TRUE]
                ELSE IF markers # {}
                  THEN <<Stream!Value(CHOOSE m \in markers : TRUE)>> \o f[k - 3]
                ELSE <<s[i]>> \o f[k - 1]
           G == [x \in (0 .. n) \X F |-> Step(x[1], x[2])]
           g == CHOOSE f : f = [i \in 0 .. n |-> Body1(i, f)]
<1>1. n \in Nat
  OBVIOUS
<1>a. \A i \in 1 .. n : i - To(i) \in 0 .. n /\ i - To(i) < i /\ Mark(i) \in V
  <2> SUFFICES ASSUME NEW i \in 1 .. n PROVE i - To(i) \in 0 .. n /\ i - To(i) < i /\ Mark(i) \in V
    OBVIOUS
  <2>1. PICK k : k = n - i + 1
    OBVIOUS
  <2>2. k \in 1 .. Len(s) /\ i \in Nat /\ i <= n /\ Len(s) - k + 1 = i
    BY <1>1, <2>1
  <2>3. Goes(s, k) \in 1 .. i /\ Becomes(s, k) \in V
    BY <2>2, GoesType
  <2>4. To(i) \in 1 .. i /\ Mark(i) \in V
    BY <2>1, <2>3
  <2> HIDE DEF To, Mark, V, n
  <2> QED BY <1>1, <2>2, <2>4
<1>b. \A i \in 0 .. n : \A f : Body1(i, f) = Step(i, f)
  <2> SUFFICES ASSUME NEW i \in 0 .. n, NEW f PROVE Body1(i, f) = Step(i, f)
    OBVIOUS
  <2> DEFINE k == n - i + 1
  <2>1. k = n - i + 1
    OBVIOUS
  <2>2. k \in Nat /\ i \in Nat /\ i = n - k + 1
    BY <1>1
  <2>3. Body1(i, f) =
          IF i = 0 THEN <<>>
          ELSE IF ClosersAt(s, k) # {}
            THEN <<Stream!Value("ph")>> \o f[n - CHOOSE j \in ClosersAt(s, k) : TRUE]
          ELSE IF MarkersAt(s, k) # {}
            THEN <<Stream!Value(CHOOSE m \in MarkersAt(s, k) : TRUE)>> \o f[i - 3]
          ELSE <<s[k]>> \o f[i - 1]
    BY DEF ClosersAt, MarkersAt
  <2>4. Step(i, f) = IF i = 0 THEN <<>> ELSE <<Becomes(s, k)>> \o f[i - Goes(s, k)]
    OBVIOUS
  <2> HIDE DEF Body1, Step, k, n
  <2>5. CASE ClosersAt(s, k) # {}
    <3>1. PICK j : j = CHOOSE l \in ClosersAt(s, k) : TRUE
      OBVIOUS
    <3>2. j \in Nat
      <4>1. j \in ClosersAt(s, k)
        BY <2>5, <3>1
      <4>2. j \in k .. Len(s)
        BY <4>1 DEF ClosersAt
      <4> QED BY <2>2, <4>2
    <3>3. i - (j - k + 1) = n - j
      BY <1>1, <2>2, <3>2
    <3>4. Goes(s, k) = j - k + 1 /\ Becomes(s, k) = Stream!Value("ph")
      BY <2>5, <3>1 DEF Goes, Becomes
    <3>5. f[i - Goes(s, k)] = f[n - j]
      BY <3>3, <3>4
    <3> QED BY <2>3, <2>4, <2>5, <3>1, <3>4, <3>5
  <2>6. CASE ~(ClosersAt(s, k) # {})
    BY <2>3, <2>4, <2>6 DEF Goes, Becomes
  <2> QED BY <2>5, <2>6
<1> HIDE DEF To, Mark, V, Body1
<1>2. \A i \in 0 .. n : \A f \in F : Step(i, f) \in Seq(V)
  <2> SUFFICES ASSUME NEW i \in 0 .. n, NEW f \in F PROVE Step(i, f) \in Seq(V)
    OBVIOUS
  <2>1. CASE i = 0
    BY <2>1
  <2>2. CASE i # 0
    <3>1. i \in 1 .. n
      BY <1>1, <2>2
    <3>2. f[i - To(i)] \in Seq(V) /\ Mark(i) \in V
      BY <1>a, <3>1
    <3>3. <<Mark(i)>> \in Seq(V)
      BY <3>2
    <3> QED BY <2>2, <3>2, <3>3
  <2> QED BY <2>1, <2>2
<1>3. \A i \in 0 .. n : \A f, h : (\A j \in 0 .. n : j < i => f[j] = h[j]) => Step(i, f) = Step(i, h)
  <2> SUFFICES ASSUME NEW i \in 0 .. n, NEW f, NEW h, \A j \in 0 .. n : j < i => f[j] = h[j]
               PROVE  Step(i, f) = Step(i, h)
    OBVIOUS
  <2>1. CASE i = 0
    BY <2>1
  <2>2. CASE i # 0
    <3>1. i \in 1 .. n
      BY <1>1, <2>2
    <3>2. f[i - To(i)] = h[i - To(i)]
      BY <1>a, <3>1
    <3> QED BY <2>2, <3>2
  <2> QED BY <2>1, <2>2
<1> HIDE DEF n, Step
<1>4. G \in [(0 .. n) \X F -> Seq(V)]
  BY <1>2
<1>5. \A i \in 0 .. n : \A f \in F : G[<<i, f>>] = Step(i, f)
  OBVIOUS
<1> HIDE DEF G
<1>6. PICK f \in F : \A i \in 0 .. n : f[i] = G[<<i, f>>]
  <2>1. \A i \in 0 .. n : \A e, h \in F :
          (\A j \in 0 .. n : j < i => e[j] = h[j]) => G[<<i, e>>] = G[<<i, h>>]
    <3> SUFFICES ASSUME NEW i \in 0 .. n, NEW e \in F, NEW h \in F,
                        \A j \in 0 .. n : j < i => e[j] = h[j]
                 PROVE  G[<<i, e>>] = G[<<i, h>>]
      OBVIOUS
    <3> HIDE DEF F
    <3>1. Step(i, e) = Step(i, h)
      BY <1>3
    <3>2. G[<<i, e>>] = Step(i, e) /\ G[<<i, h>>] = Step(i, h)
      BY <1>5
    <3> QED BY <3>1, <3>2
  <2>2. Seq(V) # {}
    <3>1. <<>> \in Seq(V)
      OBVIOUS
    <3> QED BY <3>1
  <2>3. n \in Nat
    BY <1>1
  <2>4. IsRecursion(n, Seq(V), G)
    BY <1>4, <2>1, <2>2, <2>3 DEF IsRecursion
  <2> QED BY <2>4, Recursion
<1>7. f = [i \in 0 .. n |-> Body1(i, f)]
  <2>1. f = [i \in 0 .. n |-> Step(i, f)]
    BY <1>5, <1>6
  <2> QED BY <1>b, <2>1
<1>8. g = [i \in 0 .. n |-> Body1(i, g)]
  BY <1>7
<1> HIDE DEF g
<1>9. \A i \in 0 .. n : g[i] = f[i]
  <2>1. \A i \in 0 .. n : f[i] = Step(i, f) /\ g[i] = Step(i, g)
    BY <1>7, <1>8, <1>b
  <2>3. \A i \in 0 .. n : (\A j \in 0 .. n : j < i => g[j] = f[j]) => g[i] = f[i]
    BY <1>3, <2>1
  <2>4. n \in Nat
    BY <1>1
  <2>5. Agree(n, g, f)
    BY <2>3, <2>4 DEF Agree
  <2> QED BY ONLY <2>5, Agreeing, Zenon
<1>10. Stream!Unredact(s) = g[n]
  BY DEF Stream!Unredact, g, Body1, n
<1>11. f[0] = <<>>
  <2>1. 0 \in 0 .. n
    BY <1>1
  <2>2. f[0] = G[<<0, f>>] /\ G[<<0, f>>] = Step(0, f)
    BY <1>5, <1>6, <2>1
  <2> QED BY <2>2 DEF Step
<1>12. \A i \in 1 .. n : f[i] = <<Mark(i)>> \o f[i - To(i)]
  <2> SUFFICES ASSUME NEW i \in 1 .. n PROVE f[i] = <<Mark(i)>> \o f[i - To(i)]
    OBVIOUS
  <2>1. i \in 0 .. n /\ i # 0
    BY <1>1
  <2> QED BY <1>5, <1>6, <2>1 DEF Step
<1>13. Stream!Unredact(s) = f[n]
  BY <1>1, <1>9, <1>10
<1> QED BY <1>6, <1>11, <1>12, <1>13 DEF n, IsUnredact, To, Mark, V

LEMMA UnredactType ==
  ASSUME NEW s \in Seq(Stream!Atoms)
  PROVE  /\ Stream!Unredact(s) \in Seq(Stream!Readable)
         /\ s = <<>> => Stream!Unredact(s) = <<>>
<1>1. PICK f \in [0 .. Len(s) -> Seq(Stream!Readable)] : IsUnredact(f, s)
  BY UnredactSteps
<1>2. Len(s) \in Nat /\ (s = <<>> => Len(s) = 0)
  OBVIOUS
<1> QED BY <1>1, <1>2 DEF IsUnredact

\* What stands in a concatenation after its first sequence.
LEMMA JoinEnd ==
  ASSUME NEW V, NEW r \in Seq(V), NEW s \in Seq(V), NEW j \in 1 .. Len(s)
  PROVE  (r \o s)[Len(r) + j] = s[j]
<1>1. Len(r) + j \in 1 .. Len(r) + Len(s) /\ Len(r) \in Nat
  OBVIOUS
<1>2. Len(r) + j > Len(r) /\ (Len(r) + j) - Len(r) = j
  BY <1>1
<1> QED BY <1>1, <1>2

LEMMA JoinFirst ==
  ASSUME NEW V, NEW r \in Seq(V), NEW s \in Seq(V), NEW j \in 1 .. Len(r)
  PROVE  (r \o s)[j] = r[j]
  OBVIOUS

\* w is u and then v.
LEMMA JoinedUp ==
  ASSUME NEW V, NEW u \in Seq(V), NEW v \in Seq(V), NEW w \in Seq(V), Len(w) = Len(u) + Len(v),
         \A i \in 1 .. Len(u) : w[i] = u[i], \A i \in 1 .. Len(v) : w[Len(u) + i] = v[i]
  PROVE  w = u \o v
<1>1. /\ Len(u) \in Nat /\ Len(v) \in Nat
      /\ u \o v \in Seq(V) /\ Len(u \o v) = Len(u) + Len(v)
      /\ \A i \in 1 .. Len(u) : (u \o v)[i] = u[i]
  OBVIOUS
<1>2. ASSUME NEW i \in 1 .. Len(u) + Len(v) PROVE w[i] = (u \o v)[i]
  <2>1. CASE i <= Len(u)
    <3>1. i \in 1 .. Len(u)
      BY <1>1, <2>1
    <3> QED BY <1>1, <3>1
  <2>2. CASE ~(i <= Len(u))
    <3>1. PICK j : j = i - Len(u)
      OBVIOUS
    <3>2. j \in 1 .. Len(v) /\ i = Len(u) + j
      BY <1>1, <2>2, <3>1
    <3>3. w[Len(u) + j] = v[j] /\ (u \o v)[Len(u) + j] = v[j]
      BY <3>2, JoinEnd
    <3> QED BY <3>2, <3>3
  <2> QED BY <2>1, <2>2
<1>3. \A i \in 1 .. Len(w) : w[i] = (u \o v)[i]
  BY <1>2
<1>4. PICK z : z = u \o v
  OBVIOUS
<1>5. z \in Seq(V) /\ Len(z) = Len(w) /\ \A i \in 1 .. Len(w) : w[i] = z[i]
  BY <1>1, <1>3, <1>4
<1>6. w = z
  BY <1>5
<1> QED BY <1>4, <1>6

\* The part of a sequence between two places.
LEMMA PartOf ==
  ASSUME NEW V, NEW t \in Seq(V), NEW a \in Nat, NEW b \in Nat, a <= b, b <= Len(t)
  PROVE  /\ SubSeq(t, a + 1, b) \in Seq(V) /\ Len(SubSeq(t, a + 1, b)) = b - a
         /\ \A i \in 1 .. b - a : SubSeq(t, a + 1, b)[i] = t[a + i]
<1>1. SubSeq(t, a + 1, b) \in Seq(V) /\ Len(SubSeq(t, a + 1, b)) = b - a
  OBVIOUS
<1>2. \A i \in 1 .. b - a : SubSeq(t, a + 1, b)[i] = t[a + i]
  OBVIOUS
<1> QED BY <1>1, <1>2

LEMMA Associative ==
  ASSUME NEW V, NEW u \in Seq(V), NEW v \in Seq(V), NEW w \in Seq(V)
  PROVE  u \o (v \o w) = (u \o v) \o w
<1>1. PICK x, y, z : x = v \o w /\ y = u \o v /\ z = u \o x
  OBVIOUS
<1>2. /\ x \in Seq(V) /\ Len(x) = Len(v) + Len(w) /\ \A i \in 1 .. Len(v) : x[i] = v[i]
      /\ y \in Seq(V) /\ Len(y) = Len(u) + Len(v) /\ \A i \in 1 .. Len(u) : y[i] = u[i]
      /\ Len(u) \in Nat /\ Len(v) \in Nat /\ Len(w) \in Nat
  BY <1>1
<1>3. z \in Seq(V) /\ Len(z) = Len(u) + Len(x) /\ \A i \in 1 .. Len(u) : z[i] = u[i]
  BY <1>1, <1>2
<1>4. \A i \in 1 .. Len(x) : z[Len(u) + i] = x[i]
  BY <1>1, <1>2, JoinEnd
<1>5. \A i \in 1 .. Len(w) : x[Len(v) + i] = w[i]
  BY <1>1, JoinEnd
<1>6. \A i \in 1 .. Len(v) : y[Len(u) + i] = v[i]
  BY <1>1, JoinEnd
<1>7. ASSUME NEW i \in 1 .. Len(y) PROVE z[i] = y[i]
  <2>1. CASE i <= Len(u)
    <3>1. i \in 1 .. Len(u)
      BY <1>2, <2>1
    <3> QED BY <1>2, <1>3, <3>1
  <2>2. CASE ~(i <= Len(u))
    <3>1. PICK j : j = i - Len(u)
      OBVIOUS
    <3>2. j \in 1 .. Len(v) /\ j \in 1 .. Len(x) /\ i = Len(u) + j
      BY <1>2, <2>2, <3>1
    <3>3. z[Len(u) + j] = x[j] /\ x[j] = v[j] /\ y[Len(u) + j] = v[j]
      BY <1>2, <1>4, <1>6, <3>2
    <3> QED BY <3>2, <3>3
  <2> QED BY <2>1, <2>2
<1>8. ASSUME NEW i \in 1 .. Len(w) PROVE z[Len(y) + i] = w[i]
  <2>1. Len(y) + i = Len(u) + (Len(v) + i) /\ Len(v) + i \in 1 .. Len(x)
    BY <1>2
  <2> QED BY <1>4, <1>5, <2>1
<1>9. Len(z) = Len(y) + Len(w)
  BY <1>2, <1>3
<1>10. z = y \o w
  BY <1>2, <1>3, <1>7, <1>8, <1>9, JoinedUp
<1> QED BY <1>1, <1>10

\* Nothing that is a marker lies across the border of x and y.
Apart(x, y) ==
  \A m \in Stream!Markers :
    /\ ~(Len(x) > 0 /\ Len(y) > 1 /\ x[Len(x)] = Stream!Piece(m, 1)
           /\ y[1] = Stream!Piece(m, 2) /\ y[2] = Stream!Piece(m, 3))
    /\ ~(Len(x) > 1 /\ Len(y) > 0 /\ x[Len(x) - 1] = Stream!Piece(m, 1)
           /\ x[Len(x)] = Stream!Piece(m, 2) /\ y[1] = Stream!Piece(m, 3))

\* z is x and then y, atom by atom.
Joined(x, y, z, a, b) ==
  /\ x \in Seq(Stream!Atoms) /\ y \in Seq(Stream!Atoms) /\ z \in Seq(Stream!Atoms)
  /\ a \in Nat /\ b \in Nat /\ Len(x) = a /\ Len(y) = b /\ Len(z) = a + b
  /\ \A i \in 1 .. a : z[i] = x[i]
  /\ \A i \in 1 .. b : z[a + i] = y[i]

LEMMA Joins ==
  ASSUME NEW x \in Seq(Stream!Atoms), NEW y \in Seq(Stream!Atoms)
  PROVE  Joined(x, y, x \o y, Len(x), Len(y))
<1>1. \A i \in 1 .. Len(x) : (x \o y)[i] = x[i]
  OBVIOUS
<1>2. \A i \in 1 .. Len(y) : (x \o y)[Len(x) + i] = y[i]
  OBVIOUS
<1> QED BY <1>1, <1>2 DEF Joined

\* A whole marker, atom by atom.
LEMMA WholeMarker ==
  ASSUME NEW s \in Seq(Stream!Atoms), NEW i \in Nat, NEW m
  PROVE  Stream!WholeAt(s, i, m) <=>
           /\ i + 2 <= Len(s)
           /\ s[i] = Stream!Piece(m, 1) /\ s[i + 1] = Stream!Piece(m, 2) /\ s[i + 2] = Stream!Piece(m, 3)
<1>1. Len(s) \in Nat /\ (i + 2 <= Len(s) => i < Len(s))
  OBVIOUS
<1> QED BY <1>1 DEF Stream!WholeAt, Stream!MarkerAt

LEMMA WholeRight ==
  ASSUME NEW x, NEW y, NEW z, NEW a, NEW b, Joined(x, y, z, a, b), NEW i \in 1 .. b, NEW m
  PROVE  Stream!WholeAt(z, a + i, m) <=> Stream!WholeAt(y, i, m)
<1>1. /\ y \in Seq(Stream!Atoms) /\ z \in Seq(Stream!Atoms) /\ a \in Nat /\ b \in Nat
      /\ Len(y) = b /\ Len(z) = a + b /\ \A l \in 1 .. b : z[a + l] = y[l]
  BY DEF Joined
<1>2. i \in Nat /\ a + i \in Nat /\ (a + i + 2 <= a + b <=> i + 2 <= b)
  BY <1>1
<1>3. i + 2 <= b => /\ z[a + i] = y[i] /\ z[(a + i) + 1] = y[i + 1] /\ z[(a + i) + 2] = y[i + 2]
  <2> SUFFICES ASSUME i + 2 <= b
               PROVE  z[a + i] = y[i] /\ z[(a + i) + 1] = y[i + 1] /\ z[(a + i) + 2] = y[i + 2]
    OBVIOUS
  <2>1. i + 1 \in 1 .. b /\ i + 2 \in 1 .. b /\ (a + i) + 1 = a + (i + 1) /\ (a + i) + 2 = a + (i + 2)
    BY <1>1, <1>2
  <2>2. z[a + (i + 1)] = y[i + 1]
    BY <1>1, <2>1
  <2>3. z[a + (i + 2)] = y[i + 2]
    BY <1>1, <2>1
  <2>4. z[a + i] = y[i]
    BY <1>1
  <2> QED BY <2>1, <2>2, <2>3, <2>4
<1>4. Stream!WholeAt(y, i, m) <=>
        i + 2 <= b /\ y[i] = Stream!Piece(m, 1) /\ y[i + 1] = Stream!Piece(m, 2) /\ y[i + 2] = Stream!Piece(m, 3)
  <2>1. Stream!WholeAt(y, i, m) <=>
          i + 2 <= Len(y) /\ y[i] = Stream!Piece(m, 1) /\ y[i + 1] = Stream!Piece(m, 2) /\ y[i + 2] = Stream!Piece(m, 3)
    <3>1. y \in Seq(Stream!Atoms) /\ i \in Nat
      BY <1>1, <1>2
    <3> QED BY ONLY <3>1, WholeMarker
  <2> QED BY <1>1, <2>1
<1>5. PICK c : c = a + i
  OBVIOUS
<1>6. Stream!WholeAt(z, c, m) <=>
        c + 2 <= a + b /\ z[c] = Stream!Piece(m, 1) /\ z[c + 1] = Stream!Piece(m, 2) /\ z[c + 2] = Stream!Piece(m, 3)
  <2>1. c \in Nat
    BY <1>2, <1>5
  <2>2. Stream!WholeAt(z, c, m) <=>
          c + 2 <= Len(z) /\ z[c] = Stream!Piece(m, 1) /\ z[c + 1] = Stream!Piece(m, 2) /\ z[c + 2] = Stream!Piece(m, 3)
    BY <1>1, <2>1, WholeMarker
  <2> QED BY <1>1, <2>2
<1> QED BY <1>2, <1>3, <1>4, <1>5, <1>6

\* Inside x, and where no marker is cut.
LEMMA WholeLeft ==
  ASSUME NEW x, NEW y, NEW z, NEW a, NEW b, Joined(x, y, z, a, b), NEW i \in 1 .. a, NEW m \in Stream!Markers,
         i + 2 <= a \/ Apart(x, y)
  PROVE  Stream!WholeAt(z, i, m) <=> Stream!WholeAt(x, i, m)
<1>1. /\ x \in Seq(Stream!Atoms) /\ z \in Seq(Stream!Atoms) /\ a \in Nat /\ b \in Nat
      /\ Len(x) = a /\ Len(y) = b /\ Len(z) = a + b
      /\ \A l \in 1 .. a : z[l] = x[l]
      /\ \A l \in 1 .. b : z[a + l] = y[l]
  BY DEF Joined
<1>2. i \in Nat /\ i <= a
  BY <1>1
<1>4. Stream!WholeAt(x, i, m) <=>
        i + 2 <= a /\ x[i] = Stream!Piece(m, 1) /\ x[i + 1] = Stream!Piece(m, 2) /\ x[i + 2] = Stream!Piece(m, 3)
  BY <1>1, <1>2, WholeMarker
<1>5. Stream!WholeAt(z, i, m) <=>
        i + 2 <= a + b /\ z[i] = Stream!Piece(m, 1) /\ z[i + 1] = Stream!Piece(m, 2) /\ z[i + 2] = Stream!Piece(m, 3)
  <2>0. z \in Seq(Stream!Atoms) /\ i \in Nat
    BY <1>1, <1>2
  <2>1. Stream!WholeAt(z, i, m) <=>
          i + 2 <= Len(z) /\ z[i] = Stream!Piece(m, 1) /\ z[i + 1] = Stream!Piece(m, 2) /\ z[i + 2] = Stream!Piece(m, 3)
    BY <2>0, WholeMarker, Zenon
  <2> QED BY <1>1, <2>1
<1>6. CASE i + 2 <= a
  <2>1. i + 1 \in 1 .. a /\ i + 2 \in 1 .. a /\ i + 2 <= a + b
    BY <1>1, <1>2, <1>6
  <2> QED BY <1>1, <1>4, <1>5, <1>6, <2>1
<1>7. CASE ~(i + 2 <= a)
  <2> SUFFICES ASSUME Stream!WholeAt(z, i, m) PROVE FALSE
    BY <1>4, <1>7
  <2>0. Apart(x, y)
    BY <1>7
  <2>1. i = a \/ i = a - 1
    BY <1>1, <1>2, <1>7
  <2>2. CASE i = a
    <3>1. a > 0 /\ b > 1 /\ a \in 1 .. a /\ 1 \in 1 .. b /\ 2 \in 1 .. b /\ i + 1 = a + 1 /\ i + 2 = a + 2
      BY <1>1, <1>2, <1>5, <2>2
    <3>2. z[a + 1] = y[1] /\ z[a + 2] = y[2] /\ z[a] = x[a]
      BY <1>1, <3>1
    <3> QED BY <1>1, <1>5, <2>0, <2>2, <3>1, <3>2 DEF Apart
  <2>3. CASE i = a - 1
    <3>1. a > 1 /\ b > 0 /\ a \in 1 .. a /\ a - 1 \in 1 .. a /\ 1 \in 1 .. b /\ i + 1 = a /\ i + 2 = a + 1
      BY <1>1, <1>2, <1>5, <2>3
    <3>2. z[a + 1] = y[1] /\ z[a] = x[a] /\ z[a - 1] = x[a - 1]
      BY <1>1, <3>1
    <3> QED BY <1>1, <1>5, <2>0, <2>3, <3>1, <3>2 DEF Apart
  <2> QED BY <2>1, <2>2, <2>3
<1> QED BY <1>6, <1>7

\* The placeholder at k with the wrappers at i and j round it.
Around(s, i, k, j) ==
  /\ s[i] \in Stream!Openers /\ s[j] \in Stream!Closers
  /\ k \in i + 1 .. j - 3 /\ Stream!WholeAt(s, k, "ph")
  /\ \A l \in (i + 1 .. k - 1) \cup (k + 3 .. j - 1) : s[l] = "blank"

LEMMA WrappedAround ==
  ASSUME NEW s, NEW i, NEW j
  PROVE  Stream!Wrapped(s, i, j) <=> \E k \in i + 1 .. j - 3 : Around(s, i, k, j)
  BY DEF Stream!Wrapped, Around

\* The wrapper that opens at i has one that closes it, at most.
LEMMA OneCloser ==
  ASSUME NEW s \in Seq(Stream!Atoms), NEW i \in Nat, NEW j \in ClosersAt(s, i), NEW h \in ClosersAt(s, i)
  PROVE  h = j
<1>1. j \in i .. Len(s) /\ h \in i .. Len(s) /\ Stream!Wrapped(s, i, j) /\ Stream!Wrapped(s, i, h)
  BY DEF ClosersAt
<1>2. PICK k \in i + 1 .. j - 3 : Around(s, i, k, j)
  BY <1>1, WrappedAround
<1>3. PICK l \in i + 1 .. h - 3 : Around(s, i, l, h)
  BY <1>1, WrappedAround
<1>4. Len(s) \in Nat /\ j \in Nat /\ h \in Nat /\ k \in Nat /\ l \in Nat
  BY <1>1, <1>2, <1>3
<1>5. s[k] = "ph1" /\ s[l] = "ph1"
  BY <1>2, <1>3, <1>4, WholeMarker, MarkerPieces DEF Around
<1>6. k = l
  <2>1. k < l => s[k] = "blank"
    <3> SUFFICES ASSUME k < l PROVE s[k] = "blank"
      OBVIOUS
    <3>1. k \in i + 1 .. l - 1
      BY <1>2, <1>3, <1>4
    <3> QED BY <1>3, <3>1 DEF Around
  <2>2. l < k => s[l] = "blank"
    <3> SUFFICES ASSUME l < k PROVE s[l] = "blank"
      OBVIOUS
    <3>1. l \in i + 1 .. k - 1
      BY <1>2, <1>3, <1>4
    <3> QED BY <1>2, <3>1 DEF Around
  <2> QED BY <1>4, <1>5, <2>1, <2>2
<1>7. s[j] # "blank" /\ s[h] # "blank"
  BY <1>2, <1>3 DEF Around, Stream!Closers
<1>8. j < h => s[j] = "blank"
  <2> SUFFICES ASSUME j < h PROVE s[j] = "blank"
    OBVIOUS
  <2>1. j \in l + 3 .. h - 1
    BY <1>2, <1>4, <1>6
  <2> QED BY <1>3, <2>1 DEF Around
<1>9. h < j => s[h] = "blank"
  <2> SUFFICES ASSUME h < j PROVE s[h] = "blank"
    OBVIOUS
  <2>1. h \in k + 3 .. j - 1
    BY <1>3, <1>4, <1>6
  <2> QED BY <1>2, <2>1 DEF Around
<1> QED BY <1>4, <1>7, <1>8, <1>9

LEMMA WrappedLeft ==
  ASSUME NEW x, NEW y, NEW z, NEW a, NEW b, Joined(x, y, z, a, b), NEW i \in 1 .. a, NEW j \in 1 .. a
  PROVE  Stream!Wrapped(z, i, j) <=> Stream!Wrapped(x, i, j)
<1>1. a \in Nat /\ \A l \in 1 .. a : z[l] = x[l]
  BY DEF Joined
<1>2. ASSUME NEW k \in i + 1 .. j - 3 PROVE Around(z, i, k, j) <=> Around(x, i, k, j)
  <2>1. k \in 1 .. a /\ k + 2 <= a
    BY <1>1
  <2>2. Stream!WholeAt(z, k, "ph") <=> Stream!WholeAt(x, k, "ph")
    BY <2>1, WholeLeft, MarkerPieces
  <2>3. \A l \in (i + 1 .. k - 1) \cup (k + 3 .. j - 1) : l \in 1 .. a
    BY <1>1, <2>1
  <2>4. \A l \in (i + 1 .. k - 1) \cup (k + 3 .. j - 1) : z[l] = x[l]
    BY <1>1, <2>3
  <2> QED BY <1>1, <2>2, <2>4 DEF Around
<1> QED BY <1>2, WrappedAround

LEMMA WrappedRight ==
  ASSUME NEW x, NEW y, NEW z, NEW a, NEW b, Joined(x, y, z, a, b), NEW i \in 1 .. b, NEW j \in 1 .. b
  PROVE  Stream!Wrapped(z, a + i, a + j) <=> Stream!Wrapped(y, i, j)
<1>1. a \in Nat /\ b \in Nat /\ \A l \in 1 .. b : z[a + l] = y[l]
  BY DEF Joined
<1>2. ASSUME NEW k \in i + 1 .. j - 3 PROVE Around(z, a + i, a + k, a + j) <=> Around(y, i, k, j)
  <2>1. i \in Nat /\ j \in Nat /\ k \in Nat /\ k \in 1 .. b /\ a + k \in a + i + 1 .. (a + j) - 3
    BY <1>1
  <2>2. Stream!WholeAt(z, a + k, "ph") <=> Stream!WholeAt(y, k, "ph")
    BY <2>1, WholeRight
  <2>3. ASSUME \A l \in (i + 1 .. k - 1) \cup (k + 3 .. j - 1) : y[l] = "blank",
               NEW h \in (a + i + 1 .. a + k - 1) \cup (a + k + 3 .. a + j - 1)
        PROVE  z[h] = "blank"
    <3>1. PICK l : l = h - a
      OBVIOUS
    <3>2. h = a + l /\ l \in 1 .. b /\ l \in (i + 1 .. k - 1) \cup (k + 3 .. j - 1)
      BY <1>1, <2>1, <3>1
    <3> QED BY <1>1, <2>3, <3>2
  <2>4. ASSUME \A h \in (a + i + 1 .. a + k - 1) \cup (a + k + 3 .. a + j - 1) : z[h] = "blank",
               NEW l \in (i + 1 .. k - 1) \cup (k + 3 .. j - 1)
        PROVE  y[l] = "blank"
    <3>1. l \in 1 .. b /\ a + l \in (a + i + 1 .. a + k - 1) \cup (a + k + 3 .. a + j - 1)
      BY <1>1, <2>1
    <3> QED BY <1>1, <2>4, <3>1
  <2> QED BY <1>1, <2>1, <2>2, <2>3, <2>4 DEF Around
<1>3. ASSUME NEW h \in a + i + 1 .. (a + j) - 3 PROVE h - a \in i + 1 .. j - 3 /\ h = a + (h - a)
  BY <1>1
<1>4. \A k \in i + 1 .. j - 3 : a + k \in a + i + 1 .. (a + j) - 3
  BY <1>1
<1>5. ASSUME Stream!Wrapped(z, a + i, a + j) PROVE Stream!Wrapped(y, i, j)
  <2>1. PICK h \in a + i + 1 .. (a + j) - 3 : Around(z, a + i, h, a + j)
    BY <1>5 DEF Stream!Wrapped, Around
  <2>2. PICK k : k = h - a
    OBVIOUS
  <2>3. k \in i + 1 .. j - 3 /\ h = a + k
    BY <1>3, <2>2
  <2>4. Around(y, i, k, j)
    BY <1>2, <2>1, <2>3
  <2> QED BY <2>3, <2>4, WrappedAround
<1>6. ASSUME Stream!Wrapped(y, i, j) PROVE Stream!Wrapped(z, a + i, a + j)
  <2>1. PICK k \in i + 1 .. j - 3 : Around(y, i, k, j)
    BY <1>6 DEF Stream!Wrapped, Around
  <2>2. Around(z, a + i, a + k, a + j) /\ a + k \in a + i + 1 .. (a + j) - 3
    BY <1>2, <1>4, <2>1
  <2>3. PICK d, e, h : d = a + i /\ e = a + k /\ h = a + j
    OBVIOUS
  <2>4. Around(z, d, e, h) /\ e \in d + 1 .. h - 3
    BY <2>2, <2>3
  <2>5. Stream!Wrapped(z, d, h)
    BY <2>4, WrappedAround
  <2> QED BY <2>3, <2>5
<1> QED BY <1>5, <1>6

\* No wrapped placeholder lies across the border either.
LEMMA StepLeft ==
  ASSUME NEW x, NEW y, NEW z, NEW a, NEW b, Joined(x, y, z, a, b), NEW i \in 1 .. a,
         Apart(x, y), ~Stream!Tears(z, a)
  PROVE  Goes(z, i) = Goes(x, i) /\ Becomes(z, i) = Becomes(x, i)
<1>1. /\ a \in Nat /\ b \in Nat /\ Len(x) = a /\ Len(z) = a + b /\ z[i] = x[i]
  BY DEF Joined
<1>2. ClosersAt(z, i) = ClosersAt(x, i)
  <2>1. ASSUME NEW j \in i .. a + b, Stream!Wrapped(z, i, j) PROVE j \in i .. a
    BY <1>1, <2>1 DEF Stream!Tears
  <2>2. \A j \in i .. a : j \in 1 .. a /\ j \in i .. a + b
    BY <1>1
  <2>3. \A j \in i .. a : Stream!Wrapped(z, i, j) <=> Stream!Wrapped(x, i, j)
    BY <2>2, WrappedLeft
  <2> QED BY <1>1, <2>1, <2>2, <2>3 DEF ClosersAt
<1>3. MarkersAt(z, i) = MarkersAt(x, i)
  BY WholeLeft DEF MarkersAt
<1> QED BY <1>1, <1>2, <1>3 DEF Goes, Becomes

LEMMA StepRight ==
  ASSUME NEW x, NEW y, NEW z, NEW a, NEW b, Joined(x, y, z, a, b), NEW i \in 1 .. b
  PROVE  Goes(z, a + i) = Goes(y, i) /\ Becomes(z, a + i) = Becomes(y, i)
<1>1. /\ a \in Nat /\ b \in Nat /\ Len(y) = b /\ Len(z) = a + b /\ z[a + i] = y[i] /\ i \in Nat
  BY DEF Joined
<1>2. MarkersAt(z, a + i) = MarkersAt(y, i)
  BY WholeRight DEF MarkersAt
<1>3. \A j \in i .. b : j \in ClosersAt(y, i) <=> a + j \in ClosersAt(z, a + i)
  <2> SUFFICES ASSUME NEW j \in i .. b
               PROVE  j \in ClosersAt(y, i) <=> a + j \in ClosersAt(z, a + i)
    OBVIOUS
  <2>1. j \in 1 .. b /\ a + j \in a + i .. a + b
    BY <1>1
  <2> QED BY <1>1, <2>1, WrappedRight DEF ClosersAt
<1>4. \A h \in ClosersAt(z, a + i) : h \in Nat /\ h - a \in i .. b /\ h = a + (h - a)
  <2> SUFFICES ASSUME NEW h \in ClosersAt(z, a + i) PROVE h \in Nat /\ h - a \in i .. b /\ h = a + (h - a)
    OBVIOUS
  <2>1. h \in a + i .. a + b
    BY <1>1 DEF ClosersAt
  <2> QED BY <1>1, <2>1
<1>5. CASE ClosersAt(y, i) = {}
  <2>1. ClosersAt(z, a + i) = {}
    BY <1>3, <1>4, <1>5
  <2>2. PICK c : c = a + i
    OBVIOUS
  <2>3. ClosersAt(z, c) = {} /\ MarkersAt(z, c) = MarkersAt(y, i) /\ z[c] = y[i]
    BY <1>1, <1>2, <2>1, <2>2
  <2>4. Goes(z, c) = Goes(y, i) /\ Becomes(z, c) = Becomes(y, i)
    BY <1>5, <2>3 DEF Goes, Becomes
  <2> QED BY <2>2, <2>4
<1>6. CASE ClosersAt(y, i) # {}
  <2>1. PICK j, h : j = (CHOOSE l \in ClosersAt(y, i) : TRUE) /\ h = CHOOSE l \in ClosersAt(z, a + i) : TRUE
    OBVIOUS
  <2>2. j \in ClosersAt(y, i) /\ j \in i .. b
    <3>1. j \in ClosersAt(y, i)
      BY <1>6, <2>1
    <3> QED BY <1>1, <3>1 DEF ClosersAt
  <2>3. ClosersAt(z, a + i) # {} /\ h \in ClosersAt(z, a + i) /\ h - a \in ClosersAt(y, i)
    <3>1. ClosersAt(z, a + i) # {}
      BY <1>3, <2>2
    <3>2. h \in ClosersAt(z, a + i)
      BY <2>1, <3>1
    <3> QED BY <1>3, <1>4, <3>1, <3>2
  <2>4. h - a = j
    <3>1. PICK l : l = h - a
      OBVIOUS
    <3>2. l \in ClosersAt(y, i)
      BY <2>3, <3>1
    <3>3. y \in Seq(Stream!Atoms) /\ i \in Nat
      BY <1>1 DEF Joined
    <3>4. l = j
      BY <2>2, <3>2, <3>3, OneCloser
    <3> QED BY <3>1, <3>4
  <2>5. h - (a + i) + 1 = j - i + 1
    BY <1>1, <1>4, <2>2, <2>3, <2>4
  <2> QED BY <1>6, <2>1, <2>3, <2>5 DEF Goes, Becomes
<1> QED BY <1>5, <1>6

\* Unredact of a text that is cut outside a marker and outside a wrapped placeholder
\* is Unredact of its two parts.
LEMMA UnredactCut ==
  ASSUME NEW x, NEW y, NEW z, NEW a, NEW b, Joined(x, y, z, a, b), Apart(x, y), ~Stream!Tears(z, a)
  PROVE  Stream!Unredact(z) = Stream!Unredact(x) \o Stream!Unredact(y)
<1>1. /\ x \in Seq(Stream!Atoms) /\ y \in Seq(Stream!Atoms) /\ z \in Seq(Stream!Atoms)
      /\ a \in Nat /\ b \in Nat /\ Len(x) = a /\ Len(y) = b /\ Len(z) = a + b
  BY DEF Joined
<1>2. PICK f : f \in [0 .. Len(x) -> Seq(Stream!Readable)] /\ IsUnredact(f, x)
  BY <1>1, UnredactSteps
<1>3. PICK g : g \in [0 .. Len(y) -> Seq(Stream!Readable)] /\ IsUnredact(g, y)
  BY <1>1, UnredactSteps
<1>4. PICK h : h \in [0 .. Len(z) -> Seq(Stream!Readable)] /\ IsUnredact(h, z)
  BY <1>1, UnredactSteps
<1>5. /\ f \in [0 .. a -> Seq(Stream!Readable)] /\ Stream!Unredact(x) = f[a] /\ f[0] = <<>>
      /\ \A n \in 1 .. a : f[n] = <<Becomes(x, a - n + 1)>> \o f[n - Goes(x, a - n + 1)]
  BY <1>1, <1>2 DEF IsUnredact
<1>6. /\ g \in [0 .. b -> Seq(Stream!Readable)] /\ Stream!Unredact(y) = g[b] /\ g[0] = <<>>
      /\ \A n \in 1 .. b : g[n] = <<Becomes(y, b - n + 1)>> \o g[n - Goes(y, b - n + 1)]
  BY <1>1, <1>3 DEF IsUnredact
<1>7. /\ h \in [0 .. a + b -> Seq(Stream!Readable)] /\ Stream!Unredact(z) = h[a + b] /\ h[0] = <<>>
      /\ \A n \in 1 .. a + b : h[n] = <<Becomes(z, (a + b) - n + 1)>> \o h[n - Goes(z, (a + b) - n + 1)]
  BY <1>1, <1>4 DEF IsUnredact
<1>8. \A n \in 0 .. b : h[n] = g[n]
  <2>1. ASSUME NEW n \in 0 .. b, \A j \in 0 .. b : j < n => h[j] = g[j] PROVE h[n] = g[n]
    <3>1. CASE n = 0
      BY <1>6, <1>7, <3>1
    <3>2. CASE n # 0
      <4>1. PICK i : i = b - n + 1
        OBVIOUS
      <4>2. i \in 1 .. b /\ n \in 1 .. b /\ n \in 1 .. a + b /\ (a + b) - n + 1 = a + i /\ n = b - i + 1
        BY <1>1, <3>2, <4>1
      <4>3. Goes(z, a + i) = Goes(y, i) /\ Becomes(z, a + i) = Becomes(y, i)
        BY <4>2, StepRight
      <4>4. Goes(y, i) \in 1 .. n
        BY <1>1, <4>2, GoesType
      <4>5. PICK k : k = n - Goes(y, i)
        OBVIOUS
      <4>6. h[k] = g[k]
        <5>1. k \in 0 .. b /\ k < n
          BY <1>1, <4>2, <4>4, <4>5
        <5> QED BY <2>1, <5>1
      <4>7. h[n] = <<Becomes(y, i)>> \o h[k]
        BY <1>7, <4>2, <4>3, <4>5
      <4>8. g[n] = <<Becomes(y, i)>> \o g[k]
        BY <1>6, <4>1, <4>2, <4>5
      <4> QED BY <4>6, <4>7, <4>8
    <3> QED BY <3>1, <3>2
  <2>2. Agree(b, h, g)
    BY <1>1, <2>1 DEF Agree
  <2> QED BY <2>2, Agreeing
<1> DEFINE h1 == [n \in 0 .. a |-> h[b + n]]
           f1 == [n \in 0 .. a |-> f[n] \o g[b]]
<1>9. ASSUME NEW n \in 0 .. a, \A j \in 0 .. a : j < n => h1[j] = f1[j] PROVE h1[n] = f1[n]
  <2>0. g[b] \in Seq(Stream!Readable) /\ n \in Nat
    BY <1>1, <1>6
  <2>1. CASE n = 0
    <3>1. b + 0 = b /\ b \in 0 .. b /\ <<>> \o g[b] = g[b]
      BY <1>1, <2>0
    <3> QED BY <1>5, <1>8, <2>1, <3>1
  <2>2. CASE n # 0
    <3>1. PICK i : i = a - n + 1
      OBVIOUS
    <3>2. /\ i \in 1 .. a /\ n \in 1 .. a /\ b + n \in 1 .. a + b
          /\ (a + b) - (b + n) + 1 = i /\ n = a - i + 1
      BY <1>1, <2>0, <2>2, <3>1
    <3>3. Goes(z, i) = Goes(x, i) /\ Becomes(z, i) = Becomes(x, i)
      BY <3>2, StepLeft
    <3>4. Goes(x, i) \in 1 .. n /\ Becomes(x, i) \in Stream!Readable
      BY <1>1, <3>2, GoesType
    <3>5. PICK k : k = n - Goes(x, i)
      OBVIOUS
    <3>6. k \in 0 .. a /\ k < n /\ (b + n) - Goes(x, i) = b + k
      BY <1>1, <3>2, <3>4, <3>5
    <3>7. h[b + k] = f[k] \o g[b]
      BY <1>9, <3>6
    <3>8. h[b + n] = <<Becomes(x, i)>> \o h[b + k]
      BY <1>7, <3>2, <3>3, <3>6
    <3>9. f[n] = <<Becomes(x, i)>> \o f[k]
      BY <1>5, <3>1, <3>2, <3>5
    <3>10. <<Becomes(x, i)>> \o (f[k] \o g[b]) = (<<Becomes(x, i)>> \o f[k]) \o g[b]
      <4>1. PICK u, v, w : u = <<Becomes(x, i)>> /\ v = f[k] /\ w = g[b]
        OBVIOUS
      <4>2. u \in Seq(Stream!Readable) /\ v \in Seq(Stream!Readable) /\ w \in Seq(Stream!Readable)
        BY <1>5, <2>0, <3>4, <3>6, <4>1
      <4>3. u \o (v \o w) = (u \o v) \o w
        BY <4>2, Associative
      <4> QED BY <4>1, <4>3
    <3> QED BY <3>7, <3>8, <3>9, <3>10
  <2> QED BY <2>1, <2>2
<1> HIDE DEF h1, f1
<1>10. Agree(a, h1, f1)
  BY <1>1, <1>9 DEF Agree
<1>11. a \in 0 .. a /\ h1[a] = f1[a] /\ b + a = a + b
  BY <1>1, <1>10, Agreeing
<1> QED BY <1>5, <1>6, <1>7, <1>11 DEF h1, f1

\* What of a text is neither wrapper nor blank, with the values of its markers.
Kept == Stream!Readable \ Stream!Wrapping
\* i is behind the beginning of a whole marker.
Inside(s, i) ==
  \E m \in Stream!Markers : (i > 1 /\ Stream!WholeAt(s, i - 1, m)) \/ (i > 2 /\ Stream!WholeAt(s, i - 2, m))
Shows(s, i) ==
  IF MarkersAt(s, i) # {} THEN Stream!Value(CHOOSE m \in MarkersAt(s, i) : TRUE)
  ELSE IF Inside(s, i) THEN "blank" ELSE s[i]
ShownText(s) == [i \in 1 .. Len(s) |-> Shows(s, i)]
PlainText(s) == Stream!Only(ShownText(s), Kept)

LEMMA ShownType ==
  ASSUME NEW s \in Seq(Stream!Atoms)
  PROVE  /\ ShownText(s) \in Seq(Stream!Readable) /\ Len(ShownText(s)) = Len(s)
         /\ \A i \in 1 .. Len(s) : ShownText(s)[i] = Shows(s, i) /\ Shows(s, i) \in Stream!Readable
<1>1. ASSUME NEW i \in 1 .. Len(s) PROVE Shows(s, i) \in Stream!Readable
  <2>1. CASE MarkersAt(s, i) # {}
    <3>1. PICK m : m = CHOOSE l \in MarkersAt(s, i) : TRUE
      OBVIOUS
    <3>2. m \in MarkersAt(s, i)
      BY <2>1, <3>1
    <3>3. m \in Stream!Markers
      BY <3>2 DEF MarkersAt
    <3>4. Shows(s, i) = Stream!Value(m)
      BY <2>1, <3>1 DEF Shows
    <3> QED BY <3>3, <3>4 DEF Stream!Readable
  <2>2. CASE MarkersAt(s, i) = {}
    <3>1. s[i] \in Stream!Readable /\ "blank" \in Stream!Readable
      BY DEF Stream!Readable, Stream!Atoms, Stream!Wrapping
    <3> QED BY <2>2, <3>1 DEF Shows
  <2> QED BY <2>1, <2>2
<1>2. Len(s) \in Nat
  OBVIOUS
<1> HIDE DEF Shows
<1>3. ShownText(s) \in Seq(Stream!Readable) /\ Len(ShownText(s)) = Len(s)
  BY <1>1, <1>2 DEF ShownText
<1> QED BY <1>1, <1>3 DEF ShownText

\* No marker is cut: what the text shows is what its parts show.
LEMMA ShownCut ==
  ASSUME NEW x, NEW y, NEW z, NEW a, NEW b, Joined(x, y, z, a, b), Apart(x, y)
  PROVE  ShownText(z) = ShownText(x) \o ShownText(y)
<1>1. /\ x \in Seq(Stream!Atoms) /\ y \in Seq(Stream!Atoms) /\ z \in Seq(Stream!Atoms)
      /\ a \in Nat /\ b \in Nat /\ Len(x) = a /\ Len(y) = b /\ Len(z) = a + b
      /\ \A i \in 1 .. a : z[i] = x[i]
      /\ \A i \in 1 .. b : z[a + i] = y[i]
  BY DEF Joined
<1>2. ASSUME NEW i \in 1 .. a PROVE Shows(z, i) = Shows(x, i)
  <2>1. MarkersAt(z, i) = MarkersAt(x, i)
    BY WholeLeft DEF MarkersAt
  <2>2. \A j \in 1 .. a : \A m \in Stream!Markers : Stream!WholeAt(z, j, m) <=> Stream!WholeAt(x, j, m)
    BY WholeLeft
  <2>3. (i > 1 => i - 1 \in 1 .. a) /\ (i > 2 => i - 2 \in 1 .. a)
    BY <1>1
  <2>4. Inside(z, i) <=> Inside(x, i)
    BY <2>2, <2>3 DEF Inside
  <2> QED BY <1>1, <2>1, <2>4 DEF Shows
<1>3. ASSUME NEW i \in 1 .. b PROVE Shows(z, a + i) = Shows(y, i)
  <2>1. MarkersAt(z, a + i) = MarkersAt(y, i)
    BY WholeRight DEF MarkersAt
  <2>2. \A j \in 1 .. b : \A m \in Stream!Markers : Stream!WholeAt(z, a + j, m) <=> Stream!WholeAt(y, j, m)
    BY WholeRight
  <2>3. \A j \in 1 .. a : \A m \in Stream!Markers : Stream!WholeAt(z, j, m) => j + 2 <= a
    <3> SUFFICES ASSUME NEW j \in 1 .. a, NEW m \in Stream!Markers, Stream!WholeAt(z, j, m)
                 PROVE  j + 2 <= a
      OBVIOUS
    <3>1. Stream!WholeAt(x, j, m)
      BY WholeLeft
    <3> QED BY <1>1, <3>1 DEF Stream!WholeAt
  <2>4. i \in Nat /\ i > 0 /\ i <= b /\ a \in Nat /\ b \in Nat
    BY <1>1
  <2>c. PICK c : c = a + i
    OBVIOUS
  <2>5. ASSUME NEW m \in Stream!Markers
        PROVE  ((c > 1 /\ Stream!WholeAt(z, c - 1, m)) \/ (c > 2 /\ Stream!WholeAt(z, c - 2, m)))
                 <=> ((i > 1 /\ Stream!WholeAt(y, i - 1, m)) \/ (i > 2 /\ Stream!WholeAt(y, i - 2, m)))
    <3>1. CASE i = 1
      <4>1. c - 1 = a /\ c - 2 = a - 1 /\ (c > 1 => a \in 1 .. a) /\ (c > 2 => a - 1 \in 1 .. a)
        BY <1>1, <2>c, <3>1
      <4>2. ~(a + 2 <= a) /\ ~(a - 1 + 2 <= a)
        BY <1>1
      <4>3. (c > 1 => ~Stream!WholeAt(z, c - 1, m)) /\ (c > 2 => ~Stream!WholeAt(z, c - 2, m))
        BY <2>3, <4>1, <4>2
      <4> QED BY <3>1, <4>3
    <3>2. CASE i = 2
      <4>1. c - 1 = a + 1 /\ c - 2 = a /\ (c > 2 => a \in 1 .. a) /\ 1 \in 1 .. b /\ c > 1 /\ ~(a + 2 <= a)
        BY <1>1, <2>c, <3>2
      <4>2. c > 2 => ~Stream!WholeAt(z, c - 2, m)
        BY <2>3, <4>1
      <4>3. Stream!WholeAt(z, c - 1, m) <=> Stream!WholeAt(y, 1, m)
        BY <2>2, <4>1
      <4>4. 2 - 1 = 1 /\ ~(2 > 2) /\ 2 > 1
        OBVIOUS
      <4> QED BY <3>2, <4>1, <4>2, <4>3, <4>4
    <3>3. CASE i > 2
      <4>1. /\ c - 1 = a + (i - 1) /\ c - 2 = a + (i - 2) /\ i - 1 \in 1 .. b /\ i - 2 \in 1 .. b
            /\ c > 1 /\ c > 2 /\ i > 1
        BY <2>4, <2>c, <3>3
      <4>2. /\ Stream!WholeAt(z, c - 1, m) <=> Stream!WholeAt(y, i - 1, m)
            /\ Stream!WholeAt(z, c - 2, m) <=> Stream!WholeAt(y, i - 2, m)
        BY <2>2, <4>1
      <4> QED BY <3>3, <4>1, <4>2
    <3> QED BY <2>4, <3>1, <3>2, <3>3
  <2>6. Inside(z, c) <=> Inside(y, i)
    BY <2>5 DEF Inside
  <2>7. z[c] = y[i] /\ MarkersAt(z, c) = MarkersAt(y, i)
    BY <1>1, <2>1, <2>c
  <2>8. Shows(z, c) = Shows(y, i)
    BY <2>6, <2>7 DEF Shows
  <2> QED BY <2>c, <2>8
<1>4. PICK u, v, w : u = ShownText(x) /\ v = ShownText(y) /\ w = ShownText(z)
  OBVIOUS
<1>5. /\ u \in Seq(Stream!Readable) /\ Len(u) = a /\ \A i \in 1 .. a : u[i] = Shows(x, i)
      /\ v \in Seq(Stream!Readable) /\ Len(v) = b /\ \A i \in 1 .. b : v[i] = Shows(y, i)
      /\ w \in Seq(Stream!Readable) /\ Len(w) = a + b /\ \A i \in 1 .. a + b : w[i] = Shows(z, i)
  BY <1>1, <1>4, ShownType
<1>6. \A i \in 1 .. a : w[i] = u[i]
  <2>1. \A i \in 1 .. a : i \in 1 .. a + b
    BY <1>1
  <2> QED BY <1>2, <1>5, <2>1
<1>7. \A i \in 1 .. b : w[a + i] = v[i]
  <2>1. \A i \in 1 .. b : a + i \in 1 .. a + b
    BY <1>1
  <2> QED BY <1>3, <1>5, <2>1
<1>8. w = u \o v
  <2>1. Len(w) = Len(u) + Len(v) /\ (\A i \in 1 .. Len(u) : w[i] = u[i])
        /\ \A i \in 1 .. Len(v) : w[Len(u) + i] = v[i]
    BY <1>5, <1>6, <1>7
  <2> QED BY <1>5, <2>1, JoinedUp
<1> QED BY <1>4, <1>8

\* Only of a text is Only of its two parts.
LEMMA OnlyJoin ==
  ASSUME NEW V, NEW A, NEW u \in Seq(V), NEW v \in Seq(V)
  PROVE  Stream!Only(u \o v, A) = Stream!Only(u, A) \o Stream!Only(v, A)
<1>1. PICK w, a, b : w = u \o v /\ a = Len(u) /\ b = Len(v)
  OBVIOUS
<1>2. /\ w \in Seq(V) /\ a \in Nat /\ b \in Nat /\ Len(w) = a + b
      /\ \A i \in 1 .. a : w[i] = u[i]
      /\ \A i \in 1 .. b : w[a + i] = v[i]
  <2>1. w \in Seq(V) /\ a \in Nat /\ b \in Nat /\ Len(w) = a + b /\ \A i \in 1 .. a : w[i] = u[i]
    BY <1>1
  <2>2. \A i \in 1 .. b : w[a + i] = v[i]
    BY <1>1, JoinEnd
  <2> QED BY <2>1, <2>2
<1>3. PICK f : f \in [0 .. Len(u) -> Seq(V)] /\ IsOnly(f, u, A)
  BY OnlySteps
<1>4. PICK g : g \in [0 .. Len(v) -> Seq(V)] /\ IsOnly(g, v, A)
  BY OnlySteps
<1>5. PICK h : h \in [0 .. Len(w) -> Seq(V)] /\ IsOnly(h, w, A)
  BY <1>2, OnlySteps
<1>6. /\ f \in [0 .. a -> Seq(V)] /\ Stream!Only(u, A) = f[a] /\ f[0] = <<>>
      /\ \A i \in 1 .. a : f[i] = IF u[i] \in A THEN Append(f[i - 1], u[i]) ELSE f[i - 1]
  BY <1>1, <1>3 DEF IsOnly
<1>7. /\ g \in [0 .. b -> Seq(V)] /\ Stream!Only(v, A) = g[b] /\ g[0] = <<>>
      /\ \A i \in 1 .. b : g[i] = IF v[i] \in A THEN Append(g[i - 1], v[i]) ELSE g[i - 1]
  BY <1>1, <1>4 DEF IsOnly
<1>8. /\ h \in [0 .. a + b -> Seq(V)] /\ Stream!Only(w, A) = h[a + b] /\ h[0] = <<>>
      /\ \A i \in 1 .. a + b : h[i] = IF w[i] \in A THEN Append(h[i - 1], w[i]) ELSE h[i - 1]
  BY <1>2, <1>5 DEF IsOnly
<1>9. \A i \in 0 .. a : h[i] = f[i]
  <2>1. ASSUME NEW i \in 0 .. a, \A j \in 0 .. a : j < i => h[j] = f[j] PROVE h[i] = f[i]
    <3>1. CASE i = 0
      BY <1>6, <1>8, <3>1
    <3>2. CASE i # 0
      <4>1. i \in 1 .. a /\ i \in 1 .. a + b /\ i - 1 \in 0 .. a /\ i - 1 < i
        BY <1>2, <3>2
      <4>2. h[i - 1] = f[i - 1] /\ w[i] = u[i]
        BY <1>2, <2>1, <4>1
      <4> QED BY <1>6, <1>8, <4>1, <4>2, Zenon
    <3> QED BY <3>1, <3>2
  <2>2. Agree(a, h, f)
    BY <1>2, <2>1 DEF Agree
  <2> QED BY <2>2, Agreeing
<1> DEFINE h1 == [i \in 0 .. b |-> h[a + i]]
           g1 == [i \in 0 .. b |-> f[a] \o g[i]]
<1>10. ASSUME NEW i \in 0 .. b, \A j \in 0 .. b : j < i => h1[j] = g1[j] PROVE h1[i] = g1[i]
  <2>0. i \in Nat /\ f[a] \in Seq(V)
    BY <1>2, <1>6
  <2>1. CASE i = 0
    <3>1. a + 0 = a /\ a \in 0 .. a /\ f[a] \o <<>> = f[a]
      BY <1>2, <2>0
    <3> QED BY <1>7, <1>9, <2>1, <3>1
  <2>2. CASE i # 0
    <3>1. PICK k, c : k = i - 1 /\ c = a + i
      OBVIOUS
    <3>2. i \in 1 .. b /\ k \in 0 .. b /\ k < i /\ c \in 1 .. a + b /\ c - 1 = a + k
      BY <1>2, <2>0, <2>2, <3>1
    <3>3. h[c - 1] = f[a] \o g[k] /\ w[c] = v[i]
      BY <1>2, <1>10, <3>1, <3>2
    <3>4. h[c] = IF v[i] \in A THEN Append(f[a] \o g[k], v[i]) ELSE f[a] \o g[k]
      BY <1>8, <3>2, <3>3
    <3>5. g[i] = IF v[i] \in A THEN Append(g[k], v[i]) ELSE g[k]
      BY <1>7, <3>1, <3>2
    <3>6. g[k] \in Seq(V) /\ v[i] \in V
      BY <1>1, <1>7, <3>2
    <3>7. Append(f[a] \o g[k], v[i]) = f[a] \o Append(g[k], v[i])
      <4>1. PICK p, q, e : p = f[a] /\ q = g[k] /\ e = v[i]
        OBVIOUS
      <4>2. p \in Seq(V) /\ q \in Seq(V) /\ <<e>> \in Seq(V) /\ e \in V
        BY <2>0, <3>6, <4>1
      <4>3. p \o (q \o <<e>>) = (p \o q) \o <<e>>
        BY <4>2, Associative
      <4>4. p \o q \in Seq(V)
        BY <4>2
      <4>5. Append(q, e) = q \o <<e>>
        BY <4>2
      <4>6. Append(p \o q, e) = (p \o q) \o <<e>>
        BY <4>2, <4>4
      <4> QED BY <4>1, <4>3, <4>5, <4>6
    <3>8. h1[i] = h[c] /\ g1[i] = f[a] \o g[i]
      BY <3>1
    <3> HIDE DEF h1, g1
    <3> QED BY <3>4, <3>5, <3>7, <3>8
  <2> QED BY <2>1, <2>2
<1> HIDE DEF h1, g1
<1>11. Agree(b, h1, g1)
  BY <1>2, <1>10 DEF Agree
<1>12. b \in 0 .. b /\ h1[b] = g1[b]
  BY <1>2, <1>11, Agreeing
<1>13. h[a + b] = f[a] \o g[b]
  BY <1>12 DEF h1, g1
<1> QED BY <1>1, <1>6, <1>7, <1>8, <1>13

\* Only keeps nothing of a text that has nothing of the set.
LEMMA OnlyNone ==
  ASSUME NEW V, NEW A, NEW u \in Seq(V), \A i \in 1 .. Len(u) : u[i] \notin A
  PROVE  Stream!Only(u, A) = <<>>
<1>1. PICK o : o = Stream!Only(u, A)
  OBVIOUS
<1>2. o \in Seq(V) /\ Stream!ToSet(o) = Stream!ToSet(u) \cap A
  BY <1>1, OnlyKeeps
<1>3. Stream!ToSet(u) \cap A = {}
  BY DEF Stream!ToSet
<1>4. Len(o) = 0
  <2>1. Len(o) \in Nat
    BY <1>2
  <2>2. Len(o) > 0 => o[1] \in Stream!ToSet(o)
    BY <2>1 DEF Stream!ToSet
  <2> QED BY <1>2, <1>3, <2>1, <2>2
<1>5. o = <<>>
  BY <1>2, <1>4
<1> QED BY <1>1, <1>5

\* Only one place of a text has something of the set, at most.
LEMMA OnlyPoint ==
  ASSUME NEW V, NEW A, NEW u \in Seq(V), NEW k \in 1 .. Len(u),
         \A i \in 1 .. Len(u) : i # k => u[i] \notin A
  PROVE  Stream!Only(u, A) = Stream!Only(<<u[k]>>, A)
<1>1. PICK a, b, x, y, e : /\ a = k - 1 /\ b = Len(u) /\ x = SubSeq(u, 1, a) /\ y = SubSeq(u, k + 1, b)
                           /\ e = <<u[k]>>
  OBVIOUS
<1>2. /\ a \in Nat /\ b \in Nat /\ k \in Nat /\ k = a + 1 /\ k <= b
      /\ e \in Seq(V) /\ Len(e) = 1 /\ e[1] = u[k]
  BY <1>1
<1>3. x \in Seq(V) /\ Len(x) = a /\ \A i \in 1 .. a : x[i] = u[i]
  BY <1>1, <1>2
<1>4. y \in Seq(V) /\ Len(y) = b - k /\ \A i \in 1 .. b - k : y[i] = u[k + i]
  BY <1>1, <1>2, PartOf
<1>5. PICK w : w = x \o e
  OBVIOUS
<1>6. w \in Seq(V) /\ Len(w) = k /\ (\A i \in 1 .. a : w[i] = u[i]) /\ w[k] = u[k]
  <2>1. w \in Seq(V) /\ Len(w) = k /\ \A i \in 1 .. a : w[i] = x[i]
    <3>1. w \in Seq(V) /\ Len(w) = Len(x) + Len(e)
      <4>1. x \in Seq(V)
        BY <1>3
      <4>2. e \in Seq(V)
        BY <1>2
      <4> QED BY <4>1, <4>2, <1>5
    <3>2. \A i \in 1 .. Len(x) : w[i] = x[i]
      <4>1. x \in Seq(V)
        BY <1>3
      <4>2. e \in Seq(V)
        BY <1>2
      <4>3. \A i \in 1 .. Len(x) : (x \o e)[i] = x[i]
        BY <4>1, <4>2, JoinFirst, Zenon
      <4> QED BY <1>5, <4>3
    <3> QED BY <1>2, <1>3, <3>1, <3>2
  <2>2. 1 \in 1 .. Len(e)
    BY <1>2
  <2>3. w[a + 1] = e[1]
    <3>1. x \in Seq(V) /\ e \in Seq(V)
      BY <1>2, <1>3
    <3>2. (x \o e)[Len(x) + 1] = e[1]
      BY ONLY <2>2, <3>1, JoinEnd
    <3> QED BY <1>3, <1>5, <3>2
  <2> QED BY <1>2, <1>3, <2>1, <2>3
<1>7. u = w \o y
  <2>1. \A i \in 1 .. k : u[i] = w[i]
    <3>1. \A i \in 1 .. k : i \in 1 .. a \/ i = k
      BY <1>2
    <3> QED BY <1>6, <3>1
  <2>2. Len(u) = Len(w) + Len(y) /\ (\A i \in 1 .. Len(w) : u[i] = w[i])
        /\ \A i \in 1 .. Len(y) : u[Len(w) + i] = y[i]
    BY <1>1, <1>2, <1>4, <1>6, <2>1
  <2> QED BY <1>4, <1>6, <2>2, JoinedUp
<1>8. Stream!Only(x, A) = <<>>
  <2>1. \A i \in 1 .. Len(x) : x[i] \notin A
    <3>1. \A i \in 1 .. a : i \in 1 .. Len(u) /\ i # k
      BY <1>1, <1>2
    <3> QED BY <1>3, <3>1
  <2> QED BY <1>3, <2>1, OnlyNone
<1>9. Stream!Only(y, A) = <<>>
  <2>1. \A i \in 1 .. Len(y) : y[i] \notin A
    <3>1. \A i \in 1 .. b - k : k + i \in 1 .. Len(u) /\ k + i # k
      BY <1>1, <1>2
    <3> QED BY <1>4, <3>1
  <2> QED BY <1>4, <2>1, OnlyNone
<1>10. Stream!Only(w, A) = Stream!Only(x, A) \o Stream!Only(e, A)
  BY <1>2, <1>3, <1>5, OnlyJoin
<1>11. Stream!Only(u, A) = Stream!Only(w, A) \o Stream!Only(y, A)
  BY <1>4, <1>6, <1>7, OnlyJoin
<1>12. PICK o : o = Stream!Only(e, A)
  OBVIOUS
<1>13. o \in Seq(V)
  BY <1>2, <1>12, OnlyKeeps
<1>14. <<>> \o o = o /\ o \o <<>> = o
  BY <1>13
<1> QED BY <1>1, <1>8, <1>9, <1>10, <1>11, <1>12, <1>14

\* r is what lies in t between a and b.
IsPart(r, t, a, b) ==
  /\ a \in Nat /\ b \in Nat /\ a <= b /\ b <= Len(t) /\ r = SubSeq(t, a + 1, b)

\* Two parts that meet are one part.
LEMMA PartsJoin ==
  ASSUME NEW V, NEW t \in Seq(V), NEW a, NEW b, NEW c, NEW r, NEW s, IsPart(r, t, a, b), IsPart(s, t, b, c)
  PROVE  IsPart(r \o s, t, a, c)
<1>1. a \in Nat /\ b \in Nat /\ c \in Nat /\ a <= b /\ b <= c /\ c <= Len(t)
      /\ r = SubSeq(t, a + 1, b) /\ s = SubSeq(t, b + 1, c)
  BY DEF IsPart
<1>2. /\ r \in Seq(V) /\ Len(r) = b - a /\ \A i \in 1 .. b - a : r[i] = t[a + i]
      /\ s \in Seq(V) /\ Len(s) = c - b /\ \A i \in 1 .. c - b : s[i] = t[b + i]
  BY <1>1, PartOf
<1> DEFINE u == SubSeq(t, a + 1, c)
<1>3. u \in Seq(V) /\ Len(u) = c - a /\ \A i \in 1 .. c - a : u[i] = t[a + i]
  <2>1. a \in Nat /\ c \in Nat /\ a <= c /\ c <= Len(t)
    BY <1>1
  <2> QED BY <2>1, PartOf
<1> HIDE DEF u
<1>4. r \o s \in Seq(V) /\ Len(r \o s) = c - a
  BY <1>1, <1>2
<1>5. ASSUME NEW i \in 1 .. c - a PROVE (r \o s)[i] = u[i]
  <2>1. CASE i <= b - a
    BY <1>1, <1>2, <1>3, <2>1
  <2>2. CASE ~(i <= b - a)
    <3>0. i - (b - a) \in 1 .. c - b
      BY <1>1, <2>2
    <3>a. Len(r) + (i - (b - a)) = i /\ Len(s) = c - b
      BY <1>1, <1>2
    <3>1. (r \o s)[i] = s[i - (b - a)] /\ i - (b - a) \in 1 .. c - b
      BY <1>2, <3>0, <3>a, JoinEnd
    <3>2. b + (i - (b - a)) = a + i
      BY <1>1
    <3> QED BY <1>2, <1>3, <3>1, <3>2
  <2> QED BY <2>1, <2>2
<1>6. r \o s = u
  BY <1>3, <1>4, <1>5
<1> QED BY <1>1, <1>6 DEF IsPart, u

LEMMA PartsSplit ==
  ASSUME NEW V, NEW t \in Seq(V), NEW a, NEW b, NEW r, IsPart(r, t, a, b), NEW q \in 0 .. Len(r)
  PROVE  IsPart(SubSeq(r, 1, q), t, a, a + q) /\ IsPart(SubSeq(r, q + 1, Len(r)), t, a + q, b)
<1>1. a \in Nat /\ b \in Nat /\ a <= b /\ b <= Len(t) /\ r = SubSeq(t, a + 1, b)
  BY DEF IsPart
<1>2. /\ r \in Seq(V) /\ Len(r) = b - a /\ \A i \in 1 .. b - a : r[i] = t[a + i]
  BY <1>1, PartOf
<1>3. q \in Nat /\ a + q \in Nat /\ a + q <= b /\ a <= a + q
  BY <1>1, <1>2
<1>4. SubSeq(r, 1, q) = SubSeq(t, a + 1, a + q)
  <2> DEFINE u == SubSeq(t, a + 1, a + q)
             v == SubSeq(r, 1, q)
  <2>1. u \in Seq(V) /\ Len(u) = q /\ \A i \in 1 .. q : u[i] = t[a + i]
    <3>1. (a + q) - a = q
      BY <1>1, <1>3
    <3> QED BY <1>1, <1>3, <3>1, PartOf
  <2>2. v \in Seq(V) /\ Len(v) = q /\ \A i \in 1 .. q : v[i] = r[i]
    BY <1>2, <1>3
  <2> HIDE DEF u, v
  <2>3. \A i \in 1 .. q : v[i] = u[i]
    BY <1>2, <1>3, <1>1, <2>1, <2>2
  <2>4. v = u
    BY <2>1, <2>2, <2>3
  <2> QED BY <2>4 DEF u, v
<1>5. SubSeq(r, q + 1, Len(r)) = SubSeq(t, a + q + 1, b)
  <2> DEFINE u == SubSeq(t, a + q + 1, b)
             v == SubSeq(r, q + 1, Len(r))
  <2>1. u \in Seq(V) /\ Len(u) = b - (a + q) /\ \A i \in 1 .. b - (a + q) : u[i] = t[a + q + i]
    BY <1>1, <1>3, PartOf
  <2>2. v \in Seq(V) /\ Len(v) = Len(r) - q /\ \A i \in 1 .. Len(r) - q : v[i] = r[q + i]
    <3>1. q <= Len(r) /\ Len(r) \in Nat
      BY <1>2
    <3> QED BY <1>2, <1>3, <3>1, PartOf
  <2> HIDE DEF u, v
  <2>3. \A i \in 1 .. b - (a + q) : v[i] = u[i]
    <3> SUFFICES ASSUME NEW i \in 1 .. b - (a + q) PROVE v[i] = u[i]
      OBVIOUS
    <3>1. q + i \in 1 .. b - a /\ a + (q + i) = a + q + i /\ i \in 1 .. Len(r) - q
      BY <1>1, <1>2, <1>3
    <3>2. v[i] = r[q + i] /\ r[q + i] = t[a + (q + i)] /\ u[i] = t[a + q + i]
      BY <1>2, <2>1, <2>2, <3>1
    <3> QED BY <3>1, <3>2
  <2>4. Len(v) = Len(u)
    BY <1>1, <1>2, <1>3, <2>1, <2>2
  <2>5. v = u
    BY <2>1, <2>2, <2>3, <2>4
  <2> QED BY <2>5 DEF u, v
<1> QED BY <1>1, <1>3, <1>4, <1>5 DEF IsPart

\* The pieces of the markers are no wrappers, and only their first ones begin one.
LEMMA PiecesApart ==
  /\ \A m, l \in Stream!Markers :
       /\ Stream!Piece(m, 2) # Stream!Piece(l, 1) /\ Stream!Piece(m, 3) # Stream!Piece(l, 1)
       /\ Stream!Piece(m, 1) \notin Stream!Wrapping /\ Stream!Piece(m, 2) \notin Stream!Wrapping
       /\ m # l => Stream!Piece(m, 1) # Stream!Piece(l, 1)
  /\ Stream!Openers \subseteq Stream!Wrapping /\ Stream!Closers \subseteq Stream!Wrapping
  /\ "blank" \in Stream!Wrapping /\ "blank" \notin Kept
  BY MarkerPieces DEF Stream!Wrapping, Stream!Openers, Stream!Closers, Kept

LEMMA NoMarker ==
  ASSUME NEW s \in Seq(Stream!Atoms), NEW l \in Nat, \A m \in Stream!Markers : s[l] # Stream!Piece(m, 1)
  PROVE  MarkersAt(s, l) = {}
  BY WholeMarker DEF MarkersAt

LEMMA ShowsNothing ==
  ASSUME NEW s \in Seq(Stream!Atoms), NEW l \in 1 .. Len(s),
         s[l] \in Stream!Wrapping \/ (Inside(s, l) /\ \A m \in Stream!Markers : s[l] # Stream!Piece(m, 1))
  PROVE  Shows(s, l) \notin Kept
<1>1. l \in Nat
  OBVIOUS
<1>2. \A m \in Stream!Markers : s[l] # Stream!Piece(m, 1)
  BY PiecesApart
<1>3. MarkersAt(s, l) = {}
  BY <1>1, <1>2, NoMarker
<1>4. Shows(s, l) = "blank" \/ (Shows(s, l) = s[l] /\ s[l] \in Stream!Wrapping)
  BY <1>3 DEF Shows
<1> QED BY <1>4, PiecesApart DEF Kept

\* The atoms that Unredact goes over at i show what it makes of them, and nothing else.
GoneOver(s, i, c) ==
  /\ ~Inside(s, c)
  /\ \E k \in i .. c - 1 :
       Shows(s, k) = Becomes(s, i) /\ \A l \in i .. c - 1 : l # k => Shows(s, l) \notin Kept

LEMMA GoesOver ==
  ASSUME NEW s \in Seq(Stream!Atoms), NEW i \in 1 .. Len(s), ~Inside(s, i), NEW c, c = i + Goes(s, i)
  PROVE  GoneOver(s, i, c)
<1>0. Len(s) \in Nat /\ i \in Nat /\ i > 0 /\ i <= Len(s)
  OBVIOUS
<1>1. CASE ClosersAt(s, i) # {}
  <2>1. PICK j : j = CHOOSE l \in ClosersAt(s, i) : TRUE
    OBVIOUS
  <2>2. j \in ClosersAt(s, i)
    BY <1>1, <2>1
  <2>3. j \in i .. Len(s) /\ Stream!Wrapped(s, i, j)
    BY <2>2 DEF ClosersAt
  <2>4. PICK k \in i + 1 .. j - 3 : Around(s, i, k, j)
    BY <2>3, WrappedAround
  <2>5. /\ j \in Nat /\ k \in Nat /\ k > i /\ k + 3 <= j /\ j <= Len(s)
        /\ s[i] \in Stream!Openers /\ s[j] \in Stream!Closers /\ Stream!WholeAt(s, k, "ph")
        /\ \A l \in (i + 1 .. k - 1) \cup (k + 3 .. j - 1) : s[l] = "blank"
    BY <1>0, <2>3, <2>4 DEF Around
  <2>6. c = j + 1
    <3>1. Goes(s, i) = j - i + 1
      BY <1>1, <2>1 DEF Goes
    <3> QED BY <1>0, <2>5, <3>1
  <2>7. s[k] = Stream!Piece("ph", 1) /\ s[k + 1] = Stream!Piece("ph", 2) /\ s[k + 2] = Stream!Piece("ph", 3)
    BY <2>5, WholeMarker
  <2>8. "ph" \in Stream!Markers
    BY MarkerPieces
  <2>9. ~Inside(s, c)
    <3> SUFFICES ASSUME NEW m \in Stream!Markers
                 PROVE  ~Stream!WholeAt(s, j, m) /\ ~Stream!WholeAt(s, j - 1, m)
      <4>1. c - 1 = j /\ c - 2 = j - 1
        BY <2>5, <2>6
      <4> QED BY <4>1 DEF Inside
    <3>1. j - 1 \in Nat /\ (j - 1) + 1 = j
      BY <1>0, <2>5
    <3>2. s[j] # Stream!Piece(m, 1) /\ s[j] # Stream!Piece(m, 2)
      BY <2>5, PiecesApart
    <3>3. ~Stream!WholeAt(s, j, m)
      BY <2>5, <3>2, WholeMarker
    <3>4. PICK d : d = j - 1
      OBVIOUS
    <3>5. ~Stream!WholeAt(s, d, m)
      BY <3>1, <3>2, <3>4, WholeMarker
    <3> QED BY <3>3, <3>4, <3>5
  <2>10. Shows(s, k) = Becomes(s, i)
    <3>1. MarkersAt(s, k) = {"ph"}
      <4>1. \A m \in Stream!Markers : Stream!WholeAt(s, k, m) => m = "ph"
        BY <2>5, <2>7, <2>8, WholeMarker, PiecesApart
      <4> QED BY <2>5, <2>8, <4>1 DEF MarkersAt
    <3>2. (CHOOSE m \in {"ph"} : TRUE) = "ph"
      OBVIOUS
    <3>3. Shows(s, k) = Stream!Value("ph")
      BY <3>1, <3>2 DEF Shows
    <3> QED BY <1>1, <3>3 DEF Becomes
  <2>11. ASSUME NEW l \in i .. c - 1, l # k PROVE Shows(s, l) \notin Kept
    <3>1. l \in 1 .. Len(s)
      BY <1>0, <2>5, <2>6
    <3>2. l = i \/ l = j \/ l \in (i + 1 .. k - 1) \cup (k + 3 .. j - 1) \/ l = k + 1 \/ l = k + 2
      BY <1>0, <2>5, <2>6, <2>11
    <3>3. CASE l = k + 1 \/ l = k + 2
      <4>1. Inside(s, l)
        <5>1. l = k + 1 => l - 1 = k /\ l > 1
          BY <1>0, <2>5
        <5>2. l = k + 2 => l - 2 = k /\ l > 2
          BY <1>0, <2>5
        <5> QED BY <2>5, <2>8, <3>3, <5>1, <5>2 DEF Inside
      <4>2. \A m \in Stream!Markers : s[l] # Stream!Piece(m, 1)
        BY <2>7, <2>8, <3>3, PiecesApart
      <4> QED BY <3>1, <4>1, <4>2, ShowsNothing
    <3>4. CASE ~(l = k + 1 \/ l = k + 2)
      <4>1. s[l] \in Stream!Wrapping
        BY <2>5, <3>2, <3>4, PiecesApart
      <4> QED BY <3>1, <4>1, ShowsNothing
    <3> QED BY <3>3, <3>4
  <2>12. k \in i .. c - 1
    BY <1>0, <2>5, <2>6
  <2> QED BY <2>9, <2>10, <2>11, <2>12 DEF GoneOver
<1>2. CASE ClosersAt(s, i) = {} /\ MarkersAt(s, i) # {}
  <2>1. PICK m : m = CHOOSE l \in MarkersAt(s, i) : TRUE
    OBVIOUS
  <2>2. m \in MarkersAt(s, i)
    BY <1>2, <2>1
  <2>3. m \in Stream!Markers /\ Stream!WholeAt(s, i, m)
    BY <2>2 DEF MarkersAt
  <2>4. /\ i + 2 <= Len(s) /\ s[i + 1] = Stream!Piece(m, 2) /\ s[i + 2] = Stream!Piece(m, 3)
    BY <1>0, <2>3, WholeMarker
  <2>5. c = i + 3 /\ c - 1 = i + 2 /\ c - 2 = i + 1
    BY <1>0, <1>2 DEF Goes
  <2>6. ~Inside(s, c)
    <3> SUFFICES ASSUME NEW l \in Stream!Markers
                 PROVE  ~Stream!WholeAt(s, i + 2, l) /\ ~Stream!WholeAt(s, i + 1, l)
      BY <2>5 DEF Inside
    <3>1. PICK d, e : d = i + 2 /\ e = i + 1
      OBVIOUS
    <3>2. d \in Nat /\ e \in Nat /\ s[d] # Stream!Piece(l, 1) /\ s[e] # Stream!Piece(l, 1)
      BY <1>0, <2>3, <2>4, <3>1, PiecesApart
    <3>3. ~Stream!WholeAt(s, d, l) /\ ~Stream!WholeAt(s, e, l)
      BY <3>2, WholeMarker
    <3> QED BY <3>1, <3>3
  <2>7. Shows(s, i) = Becomes(s, i)
    BY <1>2 DEF Shows, Becomes
  <2>8. ASSUME NEW l \in i .. c - 1, l # i PROVE Shows(s, l) \notin Kept
    <3>1. (l = i + 1 \/ l = i + 2) /\ l \in 1 .. Len(s)
      BY <1>0, <2>4, <2>5, <2>8
    <3>2. Inside(s, l)
      <4>1. (l = i + 1 => l - 1 = i /\ l > 1) /\ (l = i + 2 => l - 2 = i /\ l > 2)
        BY <1>0
      <4> QED BY <2>3, <3>1, <4>1 DEF Inside
    <3>3. \A o \in Stream!Markers : s[l] # Stream!Piece(o, 1)
      BY <2>3, <2>4, <3>1, PiecesApart
    <3> QED BY <3>1, <3>2, <3>3, ShowsNothing
  <2>9. i \in i .. c - 1
    BY <1>0, <2>5
  <2> QED BY <2>6, <2>7, <2>8, <2>9 DEF GoneOver
<1>3. CASE ClosersAt(s, i) = {} /\ MarkersAt(s, i) = {}
  <2>1. c = i + 1 /\ c - 1 = i /\ c - 2 = i - 1 /\ (c > 2 <=> i > 1)
    BY <1>0, <1>3 DEF Goes
  <2>2. ~Inside(s, c)
    <3> SUFFICES ASSUME NEW m \in Stream!Markers
                 PROVE  ~Stream!WholeAt(s, i, m) /\ ~(i > 1 /\ Stream!WholeAt(s, i - 1, m))
      BY <2>1 DEF Inside
    <3> QED BY <1>3 DEF MarkersAt, Inside
  <2>3. Shows(s, i) = Becomes(s, i)
    BY <1>3 DEF Shows, Becomes
  <2>4. \A l \in i .. c - 1 : l = i
    BY <1>0, <2>1
  <2>5. i \in i .. c - 1
    BY <1>0, <2>1
  <2> QED BY <2>2, <2>3, <2>4, <2>5 DEF GoneOver
<1> QED BY <1>1, <1>2, <1>3

\* Without wrappers and blanks, Unredact of a text is what the text shows.
LEMMA PlainIs ==
  ASSUME NEW s \in Seq(Stream!Atoms)
  PROVE  Stream!Only(Stream!Unredact(s), Kept) = PlainText(s)
<1>1. PICK w, n : w = ShownText(s) /\ n = Len(s)
  OBVIOUS
<1>2. /\ n \in Nat /\ w \in Seq(Stream!Readable) /\ Len(w) = n
      /\ \A i \in 1 .. n : w[i] = Shows(s, i)
  BY <1>1, ShownType
<1>3. PICK f : f \in [0 .. Len(s) -> Seq(Stream!Readable)] /\ IsUnredact(f, s)
  BY UnredactSteps
<1>4. /\ f \in [0 .. n -> Seq(Stream!Readable)] /\ Stream!Unredact(s) = f[n] /\ f[0] = <<>>
      /\ \A k \in 1 .. n : f[k] = <<Becomes(s, n - k + 1)>> \o f[k - Goes(s, n - k + 1)]
  BY <1>1, <1>3 DEF IsUnredact
<1> DEFINE Rest(k) == SubSeq(w, (n - k) + 1, n)
           Good(k) == ~Inside(s, (n - k) + 1) => Stream!Only(f[k], Kept) = Stream!Only(Rest(k), Kept)
           S == {k \in 0 .. n : ~Good(k)}
<1>5. Good(0)
  <2>1. Rest(0) = <<>>
    BY <1>2
  <2> QED BY <1>4, <2>1
<1>6. ASSUME NEW k \in 1 .. n, \A l \in 0 .. n : l < k => Good(l) PROVE Good(k)
  <2>1. PICK i, c, q : i = (n - k) + 1 /\ c = i + Goes(s, i) /\ q = k - Goes(s, i)
    OBVIOUS
  <2> SUFFICES ASSUME ~Inside(s, i) PROVE Stream!Only(f[k], Kept) = Stream!Only(Rest(k), Kept)
    BY <2>1
  <2>2. i \in 1 .. Len(s) /\ n - i + 1 = k /\ i \in Nat /\ k \in Nat
    BY <1>1, <1>2, <2>1
  <2>3. Goes(s, i) \in 1 .. k /\ Becomes(s, i) \in Stream!Readable
    BY <1>1, <2>2, GoesType
  <2>4. q \in 0 .. n /\ q < k /\ c = (n - q) + 1 /\ i < c /\ c <= n + 1 /\ c \in Nat
    <3>1. PICK g : g = Goes(s, i)
      OBVIOUS
    <3>2. g \in Nat /\ g > 0 /\ g <= k /\ k <= n /\ i = (n - k) + 1 /\ c = i + g /\ q = k - g
      BY <1>2, <2>1, <2>3, <3>1
    <3>3. q \in Nat /\ q < k /\ q <= n
      BY <1>2, <2>2, <3>2
    <3>4. c = (n - q) + 1 /\ i < c /\ c <= n + 1 /\ c \in Nat
      BY <1>2, <2>2, <3>2
    <3> QED BY <1>2, <3>3, <3>4
  <2>5. GoneOver(s, i, c)
    BY <2>1, <2>2, GoesOver
  <2>6. ~Inside(s, c) /\ \E h \in i .. c - 1 :
          Shows(s, h) = Becomes(s, i) /\ \A l \in i .. c - 1 : l # h => Shows(s, l) \notin Kept
    BY <2>5 DEF GoneOver
  <2>7. PICK h \in i .. c - 1 :
          Shows(s, h) = Becomes(s, i) /\ \A l \in i .. c - 1 : l # h => Shows(s, l) \notin Kept
    BY <2>6
  <2>8. PICK a, b, u, v : a = i - 1 /\ b = c - 1 /\ u = SubSeq(w, a + 1, b) /\ v = SubSeq(w, b + 1, n)
    OBVIOUS
  <2>9. a \in Nat /\ b \in Nat /\ a <= b /\ b <= n /\ a + 1 = i /\ b + 1 = c /\ b - a = c - i
    BY <1>2, <2>2, <2>4, <2>8
  <2>10. IsPart(u, w, a, b) /\ IsPart(v, w, b, n)
    BY <1>2, <2>8, <2>9 DEF IsPart
  <2>11. /\ u \in Seq(Stream!Readable) /\ Len(u) = b - a /\ \A l \in 1 .. b - a : u[l] = w[a + l]
         /\ v \in Seq(Stream!Readable)
    <3>1. w \in Seq(Stream!Readable) /\ a \in Nat /\ b \in Nat /\ n \in Nat /\ a <= b /\ b <= n /\ n <= Len(w)
      BY <1>2, <2>9
    <3>2. u \in Seq(Stream!Readable) /\ Len(u) = b - a /\ \A l \in 1 .. b - a : u[l] = w[a + l]
      <4>1. b <= Len(w)
        BY <1>2, <2>9
      <4>2. LET d == SubSeq(w, a + 1, b)
            IN  d \in Seq(Stream!Readable) /\ Len(d) = b - a /\ \A l \in 1 .. b - a : d[l] = w[a + l]
        BY <3>1, <4>1, PartOf
      <4> QED BY <2>8, <4>2
    <3>3. v \in Seq(Stream!Readable)
      <4>1. SubSeq(w, b + 1, n) \in Seq(Stream!Readable)
        BY <3>1, PartOf
      <4> QED BY <2>8, <4>1
    <3> QED BY <3>2, <3>3
  <2>12. u \o v = Rest(k)
    <3>1. IsPart(u \o v, w, a, n)
      BY <1>2, <2>10, PartsJoin
    <3> QED BY <2>1, <2>9, <3>1 DEF IsPart
  <2>13. v = Rest(q)
    BY <2>4, <2>8, <2>9
  <2>14. Stream!Only(u, Kept) = Stream!Only(<<Becomes(s, i)>>, Kept)
    <3>1. PICK e : e = h - a
      OBVIOUS
    <3>2. e \in 1 .. Len(u) /\ a + e = h
      BY <2>2, <2>4, <2>7, <2>9, <2>11, <3>1
    <3>3. ASSUME NEW l \in 1 .. Len(u)
          PROVE  a + l \in i .. c - 1 /\ a + l \in 1 .. n /\ (l # e => a + l # h)
      <4>0. Len(u) = b - a /\ a \in Nat /\ b \in Nat /\ a <= b
        BY <2>9, <2>11
      <4>9. b - a \in Nat /\ l \in 1 .. b - a
        BY <4>0
      <4>1. l \in Nat /\ l > 0 /\ l <= b - a
        BY ONLY <4>9
      <4>2. e \in Nat /\ a + e = h
        BY <2>11, <3>2
      <4>3. a + 1 = i /\ b + 1 = c /\ a \in Nat /\ b \in Nat /\ b <= n /\ n \in Nat
        BY <1>2, <2>9
      <4>4. a + l >= i /\ a + l <= b /\ a + l \in Nat /\ c - 1 = b /\ i \in Nat /\ i > 0
        BY <4>1, <4>3
      <4>5. l # e => a + l # a + e
        BY <4>1, <4>2, <4>3
      <4> QED BY <4>2, <4>3, <4>4, <4>5
    <3>4. \A l \in 1 .. Len(u) : u[l] = Shows(s, a + l)
      BY <1>2, <2>11, <3>3
    <3>5. u[e] = Becomes(s, i)
      BY <2>7, <3>2, <3>4
    <3>6. \A l \in 1 .. Len(u) : l # e => u[l] \notin Kept
      BY <2>7, <3>3, <3>4
    <3>7. Stream!Only(u, Kept) = Stream!Only(<<u[e]>>, Kept)
      BY <2>11, <3>2, <3>6, OnlyPoint
    <3> QED BY <3>5, <3>7
  <2>15. Stream!Only(f[q], Kept) = Stream!Only(v, Kept)
    <3>1. Good(q)
      BY <1>6, <2>4
    <3> QED BY <2>4, <2>6, <2>13, <3>1
  <2>16. PICK e, r : e = <<Becomes(s, i)>> /\ r = f[q]
    OBVIOUS
  <2>17. e \in Seq(Stream!Readable) /\ r \in Seq(Stream!Readable) /\ f[k] = e \o r
    <3>1. r \in Seq(Stream!Readable)
      BY <1>4, <2>4, <2>16
    <3>2. e \in Seq(Stream!Readable)
      BY <2>3, <2>16
    <3>3. f[k] = <<Becomes(s, n - k + 1)>> \o f[k - Goes(s, n - k + 1)]
      BY <1>4
    <3>4. f[k] = e \o r
      BY <2>1, <2>16, <3>3
    <3> QED BY <3>1, <3>2, <3>4
  <2>18. Stream!Only(e \o r, Kept) = Stream!Only(e, Kept) \o Stream!Only(r, Kept)
    BY <2>17, OnlyJoin
  <2>19. Stream!Only(u \o v, Kept) = Stream!Only(u, Kept) \o Stream!Only(v, Kept)
    BY <2>11, OnlyJoin
  <2> HIDE DEF Rest
  <2> QED BY <2>12, <2>14, <2>15, <2>16, <2>17, <2>18, <2>19
<1>7. S = {}
  <2> SUFFICES ASSUME S # {} PROVE FALSE
    OBVIOUS
  <2>1. S \subseteq Nat /\ S \subseteq 0 .. n
    BY <1>2
  <2> HIDE DEF Good
  <2>2. PICK k \in S : \A l \in S : k <= l
    <3> HIDE DEF S
    <3> QED BY <2>1, LeastNatural
  <2>3. k \in 1 .. n
    BY <1>2, <1>5, <2>1, <2>2
  <2>4. \A l \in 0 .. n : l < k => Good(l)
    BY <1>2, <2>2, <2>3
  <2> QED BY <1>6, <2>2, <2>3, <2>4
<1>8. Good(n)
  BY <1>2, <1>7
<1>9. ~Inside(s, (n - n) + 1) /\ Rest(n) = w
  <2>1. (n - n) + 1 = 1
    BY <1>2
  <2>2. ~Inside(s, 1)
    BY DEF Inside
  <2>3. SubSeq(w, 1, n) = w
    BY <1>2
  <2> QED BY <2>1, <2>2, <2>3
<1> QED BY <1>1, <1>4, <1>8, <1>9 DEF PlainText

\* Where no marker is cut, only wrappers and blanks tell the parts from the whole.
LEMMA PlainJoin ==
  ASSUME NEW x \in Seq(Stream!Atoms), NEW y \in Seq(Stream!Atoms), Apart(x, y)
  PROVE  Stream!Only(Stream!Unredact(x \o y), Kept)
           = Stream!Only(Stream!Unredact(x), Kept) \o Stream!Only(Stream!Unredact(y), Kept)
<1>1. PICK z, a, b : z = x \o y /\ a = Len(x) /\ b = Len(y)
  OBVIOUS
<1>2. Joined(x, y, z, a, b) /\ z \in Seq(Stream!Atoms)
  BY <1>1, Joins
<1>3. ShownText(z) = ShownText(x) \o ShownText(y)
  BY <1>2, ShownCut
<1>4. ShownText(x) \in Seq(Stream!Readable) /\ ShownText(y) \in Seq(Stream!Readable)
  BY ShownType
<1>5. PICK u, v : u = ShownText(x) /\ v = ShownText(y)
  OBVIOUS
<1>6. Stream!Only(u \o v, Kept) = Stream!Only(u, Kept) \o Stream!Only(v, Kept)
  BY <1>4, <1>5, OnlyJoin
<1>7. PlainText(z) = PlainText(x) \o PlainText(y)
  BY <1>3, <1>5, <1>6 DEF PlainText
<1>8. /\ Stream!Only(Stream!Unredact(x), Kept) = PlainText(x) /\ Stream!Only(Stream!Unredact(y), Kept) = PlainText(y)
      /\ Stream!Only(Stream!Unredact(z), Kept) = PlainText(z)
  BY <1>2, PlainIs
<1> QED BY <1>1, <1>7, <1>8

\* A nonempty set of numbers up to n has a greatest one.
LEMMA GreatestNatural ==
  ASSUME NEW n \in Nat, NEW S, S \subseteq 1 .. n, S # {}
  PROVE  \E k \in S : \A l \in S : l <= k
<1> DEFINE T == {n - i : i \in S}
<1>1. T \subseteq Nat /\ T # {}
  <2>1. ASSUME NEW i \in S PROVE n - i \in Nat
    <3>1. i \in 1 .. n
      OBVIOUS
    <3> QED BY <3>1
  <2> QED BY <2>1
<1>2. PICK k \in T : \A l \in T : k <= l
  <2> HIDE DEF T
  <2> QED BY <1>1, LeastNatural
<1>3. PICK i \in S : k = n - i
  BY <1>2
<1>4. ASSUME NEW l \in S PROVE l <= i
  <2>1. n - l \in T
    OBVIOUS
  <2>2. n - i <= n - l
    BY <1>2, <1>3, <2>1
  <2>3. l \in Nat /\ i \in Nat
    BY <1>3
  <2> QED BY <2>2, <2>3
<1> QED BY <1>4

\* The first pieces of the markers, and what a buffer that was held back begins with.
First == {"ph1", "tok1"}
Heads == {"ph1", "tok1", "["}

\* The safe prefix of one marker: what it leaves begins with the marker, or with what
\* its literal begins with, or it is behind the marker's first half; where it leaves
\* nothing, and the text does not end in that half, the marker does not lie across the end.
Holds(s, m, k) ==
  /\ k \in 0 .. Len(s)
  /\ k < Len(s) => s[k + 1] \in Heads \/ (k > 0 /\ s[k] \in First)
  /\ k = Len(s) /\ Len(s) > 1 => ~Stream!MarkerAt(s, Len(s) - 1, m)

LEMMA BeginsHeads ==
  ASSUME NEW m \in Stream!Markers
  PROVE  Stream!Begins(m) \subseteq Heads /\ Stream!Piece(m, 1) \in Heads /\ Stream!Piece(m, 1) \in First
<1>1. m = "ph" \/ m = "tok"
  BY DEF Stream!Markers
<1>2. Stream!Begins(m) \subseteq Heads
  BY DEF Stream!Begins, Heads
<1> QED BY <1>1, <1>2, MarkerPieces DEF Heads, First

LEMMA HoldPointHolds ==
  ASSUME NEW s \in Seq(Stream!Atoms), NEW m \in Stream!Markers, NEW shift \in {0, 1},
         NEW k, k = Stream!HoldPoint(s, m, shift)
  PROVE  Holds(s, m, k)
<1> DEFINE places == {i \in Stream!Searched(s) : Stream!MarkerAt(s, i, m)}
           last == CHOOSE i \in places : \A j \in places : j <= i
<1>0. Len(s) \in Nat /\ (s # <<>> => Len(s) > 0) /\ shift \in Nat
  OBVIOUS
<1>p. Stream!Piece(m, 1) # Stream!Piece(m, 3) /\ Stream!Piece(m, 2) # Stream!Piece(m, 3)
  BY MarkerPieces
<1>1. k = IF places # {}
          THEN IF shift = 0 /\ Stream!CompleteFrom(s, last, m) THEN Len(s) ELSE last - 1 + shift
          ELSE IF s # <<>> /\ Stream!Last(s) \in Stream!Begins(m) THEN Len(s) - 1 ELSE Len(s)
  BY DEF Stream!HoldPoint
<1>2. Len(s) > 1 => Len(s) - 1 \in Stream!Searched(s)
  <2>1. Window \in Nat /\ Window >= 4
    BY StreamAssumption
  <2>2. Len(s) > 1 => Len(s) - 1 \in 1 .. Len(s) /\ Len(s) - 1 > Len(s) - Window
    BY <1>0, <2>1
  <2> QED BY <2>2 DEF Stream!Searched
<1>3. CASE places = {}
  <2>1. CASE s # <<>> /\ Stream!Last(s) \in Stream!Begins(m)
    <3>1. k = Len(s) - 1 /\ s[Len(s)] \in Heads
      BY <1>1, <1>3, <2>1, BeginsHeads DEF Stream!Last
    <3>2. k \in 0 .. Len(s) /\ k < Len(s) /\ k + 1 = Len(s)
      BY <1>0, <2>1, <3>1
    <3>3. s[k + 1] \in Heads /\ k # Len(s)
      BY <1>0, <3>1, <3>2
    <3> QED BY <3>2, <3>3 DEF Holds
  <2>2. CASE ~(s # <<>> /\ Stream!Last(s) \in Stream!Begins(m))
    <3>1. k = Len(s)
      BY <1>1, <1>3, <2>2
    <3>2. Len(s) > 1 => ~Stream!MarkerAt(s, Len(s) - 1, m)
      BY <1>2, <1>3
    <3> QED BY <1>0, <3>1, <3>2 DEF Holds
  <2> QED BY <2>1, <2>2
<1>4. CASE places # {}
  <2>1. last \in places /\ \A j \in places : j <= last
    <3>1. \E i \in places : \A j \in places : j <= i
      <4>1. places \subseteq 1 .. Len(s)
        BY DEF Stream!Searched
      <4> HIDE DEF places
      <4> QED BY <1>0, <1>4, <4>1, GreatestNatural
    <3> HIDE DEF places
    <3> QED BY <3>1
  <2>2. last \in 1 .. Len(s) /\ last < Len(s) /\ s[last] = Stream!Piece(m, 1)
    BY <2>1 DEF Stream!MarkerAt, Stream!Searched
  <2>3. CASE ~(shift = 0 /\ Stream!CompleteFrom(s, last, m))
    <3>1. k = last - 1 + shift
      BY <1>1, <1>4, <2>3
    <3> HIDE DEF last, places
    <3>2. k \in 0 .. Len(s) /\ k < Len(s) /\ (shift = 0 => k + 1 = last) /\ (shift = 1 => k = last /\ k > 0)
      BY <1>0, <2>2, <3>1
    <3>3. s[k + 1] \in Heads \/ (k > 0 /\ s[k] \in First)
      BY <2>2, <3>2, BeginsHeads
    <3> QED BY <1>0, <3>2, <3>3 DEF Holds
  <2>4. CASE shift = 0 /\ Stream!CompleteFrom(s, last, m)
    <3>1. k = Len(s)
      BY <1>1, <1>4, <2>4
    <3>2. ASSUME Len(s) > 1, Stream!MarkerAt(s, Len(s) - 1, m) PROVE FALSE
      <4>1. Len(s) - 1 \in places
        BY <1>2, <3>2
      <4>2. Len(s) - 1 <= last
        BY <2>1, <4>1
      <4>3. PICK j \in last .. Len(s) : s[j] = Stream!Piece(m, 3)
        BY <2>4 DEF Stream!CompleteFrom
      <4> HIDE DEF last, places
      <4>4. j = Len(s) - 1 \/ j = Len(s)
        BY <1>0, <2>2, <4>2, <4>3
      <4>5. s[Len(s) - 1] = Stream!Piece(m, 1) /\ s[Len(s)] = Stream!Piece(m, 2)
        <5>1. Len(s) - 1 + 1 = Len(s)
          BY <1>0
        <5> QED BY <3>2, <5>1 DEF Stream!MarkerAt
      <4> QED BY <1>p, <4>3, <4>4, <4>5
    <3> QED BY <1>0, <3>1, <3>2 DEF Holds
  <2> QED BY <2>3, <2>4
<1> QED BY <1>3, <1>4

\* The safe prefix: what is kept begins with a marker or with "[", or what is emitted ends
\* in the first half of one; where nothing is kept, no marker lies across the end.
LEMMA SafePrefixHolds ==
  ASSUME NEW s \in Seq(Stream!Atoms), NEW shift \in {0, 1}, NEW k, k = Stream!SafePrefix(s, shift)
  PROVE  /\ k \in 0 .. Len(s)
         /\ k < Len(s) => s[k + 1] \in Heads \/ (k > 0 /\ s[k] \in First)
         /\ k = Len(s) /\ Len(s) > 1 => \A m \in Stream!Markers : ~Stream!MarkerAt(s, Len(s) - 1, m)
<1>1. PICK p, t : p = Stream!HoldPoint(s, "ph", shift) /\ t = Stream!HoldPoint(s, "tok", shift)
  OBVIOUS
<1>2. Holds(s, "ph", p) /\ Holds(s, "tok", t)
  <2>1. "ph" \in Stream!Markers /\ "tok" \in Stream!Markers
    BY MarkerPieces
  <2> QED BY <1>1, <2>1, HoldPointHolds
<1>3. k = IF p < t THEN p ELSE t
  BY <1>1 DEF Stream!SafePrefix
<1>4. /\ p \in 0 .. Len(s) /\ t \in 0 .. Len(s) /\ Len(s) \in Nat
      /\ p < Len(s) => s[p + 1] \in Heads \/ (p > 0 /\ s[p] \in First)
      /\ t < Len(s) => s[t + 1] \in Heads \/ (t > 0 /\ s[t] \in First)
      /\ p = Len(s) /\ Len(s) > 1 => ~Stream!MarkerAt(s, Len(s) - 1, "ph")
      /\ t = Len(s) /\ Len(s) > 1 => ~Stream!MarkerAt(s, Len(s) - 1, "tok")
  BY <1>2 DEF Holds
<1>5. k = p \/ k = t
  BY <1>3
<1>6. k = Len(s) => p = Len(s) /\ t = Len(s)
  BY <1>3, <1>4
<1>7. k \in 0 .. Len(s) /\ (k < Len(s) => s[k + 1] \in Heads \/ (k > 0 /\ s[k] \in First))
  BY <1>4, <1>5
<1>8. k = Len(s) /\ Len(s) > 1 => \A m \in Stream!Markers : ~Stream!MarkerAt(s, Len(s) - 1, m)
  BY <1>4, <1>6 DEF Stream!Markers
<1> QED BY <1>7, <1>8

LEMMA ShiftsTwo ==
  ASSUME NEW s, NEW shift \in Stream!Shifts(s)
  PROVE  shift \in {0, 1}
  BY DEF Stream!Shifts

\* Between a text in which no marker is open and any other, and before one that begins
\* with what is held back, no marker is cut.
LEMMA ApartThere ==
  ASSUME NEW x \in Seq(Stream!Atoms), NEW y \in Seq(Stream!Atoms),
         Stream!Closed(x) \/ (Len(y) > 0 => y[1] \in Heads)
  PROVE  Apart(x, y)
<1>1. CASE Stream!Closed(x)
  <2>1. \A m \in Stream!Markers :
          /\ Len(x) > 0 => x[Len(x)] # Stream!Piece(m, 1)
          /\ Len(x) > 1 => ~(x[Len(x) - 1] = Stream!Piece(m, 1) /\ x[Len(x)] = Stream!Piece(m, 2))
    <3> SUFFICES ASSUME NEW m \in Stream!Markers
                 PROVE  /\ Len(x) > 0 => x[Len(x)] # Stream!Piece(m, 1)
                        /\ Len(x) > 1 =>
                             ~(x[Len(x) - 1] = Stream!Piece(m, 1) /\ x[Len(x)] = Stream!Piece(m, 2))
      OBVIOUS
    <3>1. /\ x # <<>> => x[Len(x)] # Stream!Piece(m, 1)
          /\ Len(x) > 1 => ~Stream!MarkerAt(x, Len(x) - 1, m)
      BY <1>1 DEF Stream!Closed
    <3>2. Len(x) \in Nat /\ Len(x) - 1 < Len(x) /\ Len(x) - 1 + 1 = Len(x) /\ (Len(x) > 0 => x # <<>>)
      OBVIOUS
    <3> QED BY <3>1, <3>2 DEF Stream!MarkerAt
  <2> QED BY <2>1 DEF Apart
<1>2. CASE Len(y) > 0 => y[1] \in Heads
  <2>1. \A m \in Stream!Markers : Len(y) > 0 => y[1] # Stream!Piece(m, 2) /\ y[1] # Stream!Piece(m, 3)
    BY <1>2, MarkerPieces DEF Heads, Stream!Markers
  <2>2. Len(y) > 1 => Len(y) > 0
    OBVIOUS
  <2> QED BY <2>1, <2>2 DEF Apart
<1> QED BY <1>1, <1>2

\* What was emitted and what is emitted now, where nothing is kept.
LEMMA ClosedAgain ==
  ASSUME NEW x \in Seq(Stream!Atoms), NEW s \in Seq(Stream!Atoms), NEW shift \in {0, 1},
         Stream!Closed(x) \/ (Len(s) > 0 /\ s[1] \in Heads),
         Len(s) > 0 => s[Len(s)] \notin First,
         Stream!SafePrefix(s, shift) = Len(s)
  PROVE  Stream!Closed(x \o s)
<1>1. /\ Len(x) \in Nat /\ Len(s) \in Nat /\ Len(x \o s) = Len(x) + Len(s)
      /\ \A i \in 1 .. Len(x) : (x \o s)[i] = x[i]
      /\ \A i \in 1 .. Len(s) : (x \o s)[Len(x) + i] = s[i]
  <2>1. \A i \in 1 .. Len(s) : (x \o s)[Len(x) + i] = s[i]
    BY JoinEnd
  <2> QED BY <2>1
<1>2. CASE Len(s) = 0
  <2>1. x \o s = x /\ Stream!Closed(x)
    BY <1>2
  <2> QED BY <2>1
<1>3. CASE Len(s) > 0
  <2>1. \A m \in Stream!Markers : (x \o s)[Len(x) + Len(s)] # Stream!Piece(m, 1)
    BY <1>1, <1>3, BeginsHeads
  <2>2. ASSUME NEW m \in Stream!Markers, Len(x) + Len(s) > 1
        PROVE  ~Stream!MarkerAt(x \o s, Len(x) + Len(s) - 1, m)
    <3>1. CASE Len(s) > 1
      <4>1. ~Stream!MarkerAt(s, Len(s) - 1, m)
        <5>1. PICK k : k = Stream!SafePrefix(s, shift)
          OBVIOUS
        <5>2. k = Len(s)
          BY <5>1
        <5> QED BY <3>1, <5>1, <5>2, SafePrefixHolds
      <4>2. Len(x) + Len(s) - 1 = Len(x) + (Len(s) - 1) /\ Len(s) - 1 \in 1 .. Len(s)
            /\ Len(x) + Len(s) - 1 + 1 = Len(x) + Len(s) /\ Len(s) - 1 + 1 = Len(s) /\ Len(s) \in 1 .. Len(s)
            /\ Len(s) - 1 < Len(s)
        BY <1>1, <3>1
      <4>3. (x \o s)[Len(x) + Len(s) - 1] = s[Len(s) - 1] /\ (x \o s)[Len(x) + Len(s)] = s[Len(s)]
        BY <1>1, <4>2
      <4> QED BY <4>1, <4>2, <4>3 DEF Stream!MarkerAt
    <3>2. CASE Len(s) = 1
      <4>1. Len(x) \in 1 .. Len(x) /\ x # <<>> /\ Len(x) + Len(s) - 1 = Len(x) /\ 1 \in 1 .. Len(s)
        BY <1>1, <2>2, <3>2
      <4>2. (x \o s)[Len(x)] = x[Len(x)] /\ (x \o s)[Len(x) + 1] = s[1]
        BY <1>1, <4>1
      <4>3. CASE Stream!Closed(x)
        <5>1. x[Len(x)] # Stream!Piece(m, 1)
          BY <4>1, <4>3 DEF Stream!Closed
        <5> QED BY <4>1, <4>2, <5>1 DEF Stream!MarkerAt
      <4>4. CASE s[1] \in Heads
        <5>1. s[1] # Stream!Piece(m, 2)
          BY <4>4, MarkerPieces DEF Heads, Stream!Markers
        <5> QED BY <4>1, <4>2, <5>1 DEF Stream!MarkerAt
      <4> QED BY <4>3, <4>4
    <3> QED BY <1>1, <1>3, <3>1, <3>2
  <2>4. ASSUME NEW m \in Stream!Markers
        PROVE  /\ (x \o s)[Len(x \o s)] # Stream!Piece(m, 1)
               /\ Len(x \o s) > 1 => ~Stream!MarkerAt(x \o s, Len(x \o s) - 1, m)
    <3>1. (x \o s)[Len(x \o s)] # Stream!Piece(m, 1)
      BY <1>1, <2>1
    <3>2. Len(x \o s) > 1 => ~Stream!MarkerAt(x \o s, Len(x \o s) - 1, m)
      BY <1>1, <2>2
    <3> QED BY <3>1, <3>2
  <2> QED BY <2>4 DEF Stream!Closed
<1> QED BY <1>1, <1>2, <1>3

\* A path between two frames: its text t, k atoms of which have arrived, its buffer b
\* and what was emitted of it, x.
Path(t, k, b, x) ==
  /\ t \in Seq(Stream!Atoms) /\ b \in Seq(Stream!Atoms) /\ k \in Nat /\ k <= Len(t) /\ Len(b) <= k
  /\ b = SubSeq(t, k - Len(b) + 1, k) /\ x = SubSeq(t, 1, k - Len(b))

LEMMA PathMade ==
  ASSUME NEW t \in Seq(Stream!Atoms), NEW b \in Seq(Stream!Atoms), NEW k \in Nat, NEW x,
         k <= Len(t), Len(b) <= k,
         b = SubSeq(t, k - Len(b) + 1, k), x = SubSeq(t, 1, k - Len(b))
  PROVE  Path(t, k, b, x)
  BY DEF Path

\* No marker lies across what was emitted and what is held back: the buffer is
\* empty behind a closed text, or it begins with a marker's first piece or a "[".
Unbroken(x, b) == IF b = <<>> THEN Stream!Closed(x) ELSE Head(b) \in Heads

LEMMA PathParts ==
  ASSUME NEW t, NEW k, NEW b, NEW x, Path(t, k, b, x)
  PROVE  /\ IsPart(x, t, 0, k - Len(b)) /\ IsPart(b, t, k - Len(b), k)
         /\ x \in Seq(Stream!Atoms) /\ x \o b = SubSeq(t, 1, k)
<1> USE DEF Path
<1>1. Len(b) \in Nat /\ k - Len(b) \in Nat /\ k - Len(b) <= k /\ k - Len(b) <= Len(t)
  OBVIOUS
<1>2. IsPart(x, t, 0, k - Len(b)) /\ IsPart(b, t, k - Len(b), k)
  BY <1>1 DEF IsPart
<1>3. PICK a : a = k - Len(b)
  OBVIOUS
<1>4. IsPart(x, t, 0, a) /\ IsPart(b, t, a, k) /\ t \in Seq(Stream!Atoms)
  BY <1>2, <1>3
<1>5. IsPart(x \o b, t, 0, k)
  BY <1>4, PartsJoin
<1>6. x \in Seq(Stream!Atoms)
  <2>1. a \in Nat /\ a <= Len(t) /\ x = SubSeq(t, 0 + 1, a) /\ 0 \in Nat /\ 0 <= a
    BY <1>4 DEF IsPart
  <2> QED BY <1>4, <2>1, PartOf
<1>7. x \o b = SubSeq(t, 1, k)
  <2>1. 0 + 1 = 1
    OBVIOUS
  <2> QED BY <1>5, <2>1 DEF IsPart
<1> QED BY <1>2, <1>6, <1>7

LEMMA PartTyped ==
  ASSUME NEW V, NEW t \in Seq(V), NEW a, NEW b, NEW r, IsPart(r, t, a, b)
  PROVE  r \in Seq(V) /\ Len(r) = b - a
<1>1. a \in Nat /\ b \in Nat /\ a <= b /\ b <= Len(t) /\ r = SubSeq(t, a + 1, b)
  BY DEF IsPart
<1> QED BY <1>1, PartOf

LEMMA HeadOf ==
  ASSUME NEW V, NEW r \in Seq(V), Len(r) > 0
  PROVE  r # <<>> /\ Head(r) = r[1]
  OBVIOUS

LEMMA FirstOf ==
  ASSUME NEW V, NEW x \in Seq(V), NEW y \in Seq(V), Len(x) > 0
  PROVE  (x \o y)[1] = x[1]
  OBVIOUS

\* A text in two, at q.
Split(s, q, e, r) == q \in 0 .. Len(s) /\ e = SubSeq(s, 1, q) /\ r = SubSeq(s, q + 1, Len(s))
\* What the two are, atom by atom.
Halves(s, q, e, r) ==
  /\ e \in Seq(Stream!Atoms) /\ Len(e) = q /\ (q > 0 => e[1] = s[1])
  /\ r \in Seq(Stream!Atoms) /\ Len(r) = Len(s) - q
  /\ q < Len(s) => r # <<>> /\ Head(r) = s[q + 1]
  /\ ~(q < Len(s)) => q = Len(s) /\ e = s /\ r = <<>>

LEMMA SplitHalves ==
  ASSUME NEW s \in Seq(Stream!Atoms), NEW q, NEW e, NEW r, Split(s, q, e, r)
  PROVE  Halves(s, q, e, r)
<1>0. q \in 0 .. Len(s) /\ e = SubSeq(s, 1, q) /\ r = SubSeq(s, q + 1, Len(s))
  BY DEF Split
<1>1. q \in Nat /\ Len(s) \in Nat /\ q <= Len(s)
  BY <1>0
<1>2. e \in Seq(Stream!Atoms) /\ Len(e) = q /\ \A i \in 1 .. q : e[i] = s[i]
  BY <1>0, <1>1
<1>3. r \in Seq(Stream!Atoms) /\ Len(r) = Len(s) - q
  BY <1>0, <1>1, PartOf
<1>4. \A i \in 1 .. Len(s) - q : r[i] = s[q + i]
  BY <1>0, <1>1, PartOf
<1>5. q > 0 => e[1] = s[1]
  BY <1>1, <1>2
<1>6. q < Len(s) => r # <<>> /\ Head(r) = s[q + 1]
  <2> SUFFICES ASSUME q < Len(s) PROVE r # <<>> /\ Head(r) = s[q + 1]
    OBVIOUS
  <2>1. Len(r) > 0 /\ 1 \in 1 .. Len(s) - q
    BY <1>1, <1>3
  <2>2. r[1] = s[q + 1]
    BY <1>4, <2>1
  <2>3. r # <<>> /\ Head(r) = r[1]
    BY <1>3, <2>1, HeadOf
  <2> QED BY <2>2, <2>3
<1>7. ~(q < Len(s)) => q = Len(s) /\ e = s /\ r = <<>>
  <2> SUFFICES ASSUME ~(q < Len(s)) PROVE q = Len(s) /\ e = s /\ r = <<>>
    OBVIOUS
  <2>1. q = Len(s)
    BY <1>1
  <2>2. e = s
    BY <1>2, <2>1
  <2>3. r = <<>>
    BY <1>1, <1>3, <2>1
  <2> QED BY <2>1, <2>2, <2>3
<1> QED BY <1>2, <1>3, <1>5, <1>6, <1>7 DEF Halves

\* The last atom of the first of the two.
LEMMA SplitLast ==
  ASSUME NEW s \in Seq(Stream!Atoms), NEW q, NEW e, NEW r, Split(s, q, e, r), q > 0
  PROVE  e # <<>> /\ e[Len(e)] = s[q]
<1>1. q \in 0 .. Len(s) /\ e = SubSeq(s, 1, q) /\ Len(s) \in Nat
  BY DEF Split
<1>2. e \in Seq(Stream!Atoms) /\ Len(e) = q /\ \A i \in 1 .. q : e[i] = s[i]
  BY <1>1
<1>3. q \in 1 .. q
  BY <1>1
<1> QED BY <1>2, <1>3

\* The atoms from k to c arrive: with the buffer they are s, of which e is emitted
\* and r is held back.
Arrives(t, k, b, c, s, shift, e, r) ==
  s = b \o SubSeq(t, k + 1, c) /\ e = Stream!Emit(s, shift) /\ r = Stream!Keep(s, shift)

LEMMA PathGrows ==
  ASSUME NEW t, NEW k, NEW b, NEW x, Path(t, k, b, x),
         NEW c \in Nat, k <= c, c <= Len(t), NEW s, NEW shift \in {0, 1},
         NEW e, NEW r, Arrives(t, k, b, c, s, shift, e, r)
  PROVE  /\ Path(t, c, r, x \o e) /\ e \in Seq(Stream!Atoms) /\ x \in Seq(Stream!Atoms)
         /\ Unbroken(x, b) => Apart(x, e)
         /\ Unbroken(x, b) /\ ~(e # <<>> /\ Stream!Last(e) \in First) => Unbroken(x \o e, r)
<1>a. /\ t \in Seq(Stream!Atoms) /\ b \in Seq(Stream!Atoms) /\ k \in Nat /\ Len(b) \in Nat
      /\ k <= Len(t) /\ Len(b) <= k
  BY DEF Path
<1>1. IsPart(x, t, 0, k - Len(b)) /\ IsPart(b, t, k - Len(b), k) /\ x \in Seq(Stream!Atoms)
  <2>1. /\ IsPart(x, t, 0, k - Len(b)) /\ IsPart(b, t, k - Len(b), k)
        /\ x \in Seq(Stream!Atoms) /\ x \o b = SubSeq(t, 1, k)
    BY PathParts
  <2> QED BY <2>1
<1>2. PICK a : a = k - Len(b)
  OBVIOUS
<1>3. a \in Nat /\ a <= k /\ t \in Seq(Stream!Atoms) /\ k \in Nat /\ b \in Seq(Stream!Atoms) /\ Len(b) = k - a
  BY <1>a, <1>2
<1>4. IsPart(SubSeq(t, k + 1, c), t, k, c) /\ c \in Nat /\ a <= c
  BY <1>3 DEF IsPart
<1>5. IsPart(s, t, a, c)
  <2>1. IsPart(b, t, a, k)
    BY <1>1, <1>2
  <2>2. PICK d : d = SubSeq(t, k + 1, c)
    OBVIOUS
  <2>3. IsPart(d, t, k, c)
    BY <1>4, <2>2
  <2>4. IsPart(b \o d, t, a, c)
    BY <1>3, <2>1, <2>3, PartsJoin
  <2> QED BY <2>2, <2>4 DEF Arrives
<1>6. s \in Seq(Stream!Atoms) /\ Len(s) = c - a
  BY <1>3, <1>5, PartTyped
<1>7. PICK q : q = Stream!SafePrefix(s, shift)
  OBVIOUS
<1>8. /\ q \in 0 .. Len(s) /\ (q < Len(s) => s[q + 1] \in Heads \/ (q > 0 /\ s[q] \in First))
      /\ Split(s, q, e, r)
  <2>1. q \in 0 .. Len(s) /\ (q < Len(s) => s[q + 1] \in Heads \/ (q > 0 /\ s[q] \in First))
    BY <1>6, <1>7, SafePrefixHolds
  <2> QED BY <1>7, <2>1 DEF Stream!Emit, Stream!Keep, Arrives, Split
<1>9. IsPart(e, t, a, a + q) /\ IsPart(r, t, a + q, c)
  <2>1. IsPart(SubSeq(s, 1, q), t, a, a + q) /\ IsPart(SubSeq(s, q + 1, Len(s)), t, a + q, c)
    BY <1>3, <1>5, <1>8, PartsSplit
  <2> QED BY <1>8, <2>1 DEF Split
<1>10. IsPart(x \o e, t, 0, a + q)
  <2>1. IsPart(x, t, 0, a)
    BY <1>1, <1>2
  <2> QED BY <1>3, <1>9, <2>1, PartsJoin
<1>11. /\ e \in Seq(Stream!Atoms) /\ Len(e) = q /\ (q > 0 => e[1] = s[1])
       /\ r \in Seq(Stream!Atoms) /\ Len(r) = Len(s) - q
       /\ q < Len(s) => r # <<>> /\ Head(r) = s[q + 1]
       /\ ~(q < Len(s)) => q = Len(s) /\ e = s /\ r = <<>>
  BY <1>6, <1>8, SplitHalves DEF Halves
<1>12. Path(t, c, r, x \o e)
  <2>0. q \in Nat /\ q <= c - a /\ Len(r) = c - a - q
    BY <1>3, <1>4, <1>6, <1>8, <1>11
  <2>1. a + q \in Nat /\ Len(r) <= c /\ c - Len(r) = a + q
    BY <1>3, <1>4, <2>0
  <2>2. /\ r = SubSeq(t, a + q + 1, c) /\ x \o e = SubSeq(t, 0 + 1, a + q)
    BY <1>9, <1>10 DEF IsPart
  <2>3. r = SubSeq(t, c - Len(r) + 1, c) /\ x \o e = SubSeq(t, 1, c - Len(r))
    <3>1. 0 + 1 = 1
      OBVIOUS
    <3> QED BY <2>1, <2>2, <3>1
  <2>4. PICK y : y = x \o e
    OBVIOUS
  <2>5. /\ c \in Nat /\ c <= Len(t) /\ Len(r) <= c
        /\ r = SubSeq(t, c - Len(r) + 1, c) /\ y = SubSeq(t, 1, c - Len(r))
    BY <1>4, <2>1, <2>3, <2>4
  <2>6. Path(t, c, r, y)
    BY <1>3, <1>11, <2>5, PathMade
  <2> QED BY <2>4, <2>6
<1>13. Unbroken(x, b) => Stream!Closed(x) \/ (Len(s) > 0 /\ s[1] \in Heads)
  <2> SUFFICES ASSUME b # <<>>, Head(b) \in Heads PROVE Len(s) > 0 /\ s[1] \in Heads
    BY DEF Unbroken
  <2>1. Len(b) > 0 /\ Head(b) = b[1]
    BY <1>3
  <2>2. Len(s) > 0
    BY <1>3, <1>6, <2>1
  <2>3. SubSeq(t, k + 1, c) \in Seq(Stream!Atoms)
    BY <1>3, PartOf
  <2>4. s[1] = b[1]
    BY <1>3, <2>1, <2>3, FirstOf DEF Arrives
  <2> QED BY <2>1, <2>2, <2>4
<1>14. Unbroken(x, b) => Apart(x, e)
  <2>1. Unbroken(x, b) => Stream!Closed(x) \/ (Len(e) > 0 => e[1] \in Heads)
    <3>1. Len(e) > 0 => e[1] = s[1]
      BY <1>11
    <3> QED BY <1>13, <3>1
  <2> QED BY <1>1, <1>11, <2>1, ApartThere
<1>15. Unbroken(x, b) /\ ~(e # <<>> /\ Stream!Last(e) \in First) => Unbroken(x \o e, r)
  <2> SUFFICES ASSUME Unbroken(x, b), e # <<>> => e[Len(e)] \notin First PROVE Unbroken(x \o e, r)
    BY DEF Stream!Last
  <2>1. CASE q < Len(s)
    <3>1. q > 0 => e # <<>> /\ e[Len(e)] = s[q]
      BY <1>6, <1>8, <1>11, SplitLast
    <3>2. r # <<>> /\ Head(r) \in Heads
      BY <1>8, <1>11, <2>1, <3>1
    <3> QED BY <3>2 DEF Unbroken
  <2>2. CASE ~(q < Len(s))
    <3>1. q = Len(s) /\ r = <<>> /\ e = s
      BY <1>11, <2>2
    <3>2. Len(s) > 0 => s[Len(s)] \notin First
      <4>1. Len(s) > 0 => s # <<>>
        BY <1>6, HeadOf
      <4> QED BY <3>1, <4>1
    <3>3. Stream!Closed(x) \/ (Len(s) > 0 /\ s[1] \in Heads)
      BY <1>13
    <3>4. Stream!SafePrefix(s, shift) = Len(s)
      BY <1>7, <3>1
    <3>5. Stream!Closed(x \o s)
      BY <1>1, <1>6, <3>2, <3>3, <3>4, ClosedAgain
    <3> QED BY <3>1, <3>5 DEF Unbroken
  <2> QED BY <2>1, <2>2
<1> QED BY <1>1, <1>11, <1>12, <1>14, <1>15


\* What does not go over a place of a text does not in its beginning either.
LEMMA PrefixTears ==
  ASSUME NEW t \in Seq(Stream!Atoms), NEW u, NEW d, IsPart(u, t, 0, d), NEW n \in Nat, ~Stream!Tears(t, n)
  PROVE  ~Stream!Tears(u, n)
<1>1. d \in Nat /\ d <= Len(t) /\ u = SubSeq(t, 1, d) /\ Len(t) \in Nat
  <2>1. 0 + 1 = 1
    OBVIOUS
  <2> QED BY <2>1 DEF IsPart
<1>2. u \in Seq(Stream!Atoms) /\ Len(u) = d /\ \A i \in 1 .. d : t[i] = u[i]
  BY <1>1
<1>3. PICK v, b : v = SubSeq(t, d + 1, Len(t)) /\ b = Len(t) - d
  OBVIOUS
<1>4. v \in Seq(Stream!Atoms) /\ Len(v) = b /\ \A i \in 1 .. b : t[d + i] = v[i]
  BY <1>1, <1>3, PartOf
<1>5. b \in Nat /\ Len(t) = d + b
  BY <1>1, <1>3
<1>6. Joined(u, v, t, d, b)
  BY <1>1, <1>2, <1>4, <1>5 DEF Joined
<1> SUFFICES ASSUME NEW i \in 1 .. n, NEW j \in n + 1 .. Len(u), Stream!Wrapped(u, i, j) PROVE FALSE
  BY DEF Stream!Tears
<1>7. i \in 1 .. d /\ j \in 1 .. d /\ j \in n + 1 .. Len(t)
  BY <1>1, <1>2
<1>8. Stream!Wrapped(t, i, j)
  BY <1>6, <1>7, WrappedLeft
<1> QED BY <1>7, <1>8 DEF Stream!Tears

LEMMA UnredactJoin ==
  ASSUME NEW x \in Seq(Stream!Atoms), NEW y \in Seq(Stream!Atoms), Apart(x, y),
         ~Stream!Tears(x \o y, Len(x))
  PROVE  Stream!Unredact(x \o y) = Stream!Unredact(x) \o Stream!Unredact(y)
<1>1. PICK z, a, b : z = x \o y /\ a = Len(x) /\ b = Len(y)
  OBVIOUS
<1>2. Joined(x, y, z, a, b)
  BY <1>1, Joins
<1>3. Stream!Unredact(z) = Stream!Unredact(x) \o Stream!Unredact(y)
  BY <1>1, <1>2, UnredactCut
<1> QED BY <1>1, <1>3

\* Two texts read the same, or but for wrappers and blanks.
Alike(exact, u, v) == IF exact THEN u = v ELSE Stream!Only(u, Kept) = Stream!Only(v, Kept)

LEMMA AlikeJoin ==
  ASSUME NEW x \in Seq(Stream!Atoms), NEW y \in Seq(Stream!Atoms), Apart(x, y), NEW exact \in BOOLEAN,
         exact => ~Stream!Tears(x \o y, Len(x)),
         NEW g \in Seq(Stream!Readable), Alike(exact, g, Stream!Unredact(x))
  PROVE  Alike(exact, g \o Stream!Unredact(y), Stream!Unredact(x \o y))
<1>1. CASE exact
  BY <1>1, UnredactJoin DEF Alike
<1>2. CASE ~exact
  <2>1. PICK u, v : u = Stream!Unredact(y) /\ v = Stream!Unredact(x)
    OBVIOUS
  <2>2. u \in Seq(Stream!Readable)
    BY <2>1, UnredactType
  <2>3. Stream!Only(g \o u, Kept) = Stream!Only(g, Kept) \o Stream!Only(u, Kept)
    BY <2>2, OnlyJoin
  <2>4. Stream!Only(g, Kept) = Stream!Only(v, Kept)
    BY <1>2, <2>1 DEF Alike
  <2>5. Stream!Only(Stream!Unredact(x \o y), Kept) = Stream!Only(v, Kept) \o Stream!Only(u, Kept)
    BY <2>1, PlainJoin
  <2> QED BY <1>2, <2>1, <2>3, <2>4, <2>5 DEF Alike
<1> QED BY <1>1, <1>2

\* A path, and what the client has of it; sound is that no frame has failed it and exact
\* that no wrapped placeholder was sent in two pieces.
OnPath(t, k, b, g, x, sound, exact) ==
  /\ Path(t, k, b, x)
  /\ exact => ~Stream!Tears(t, Len(x))
  /\ sound => Alike(exact, g, Stream!Unredact(x)) /\ Unbroken(x, b)

LEMMA PathRestored ==
  ASSUME NEW t, NEW k, NEW b, NEW x, NEW exact \in BOOLEAN, NEW g \in Seq(Stream!Readable),
         OnPath(t, k, b, g, x, TRUE, exact)
  PROVE  Alike(exact, g \o Stream!Unredact(b), Stream!Unredact(SubSeq(t, 1, k)))
<1>1. Path(t, k, b, x) /\ Unbroken(x, b) /\ Alike(exact, g, Stream!Unredact(x))
      /\ (exact => ~Stream!Tears(t, Len(x)))
  BY DEF OnPath
<1>2. x \in Seq(Stream!Atoms) /\ x \o b = SubSeq(t, 1, k)
  BY <1>1, PathParts
<1>3. b \in Seq(Stream!Atoms) /\ t \in Seq(Stream!Atoms) /\ k \in Nat /\ k <= Len(t)
  BY <1>1 DEF Path
<1>4. Stream!Closed(x) \/ (Len(b) > 0 => b[1] \in Heads)
  <2>1. CASE b = <<>>
    BY <1>1, <2>1 DEF Unbroken
  <2>2. CASE b # <<>>
    <3>1. Head(b) = b[1]
      BY <1>3, <2>2
    <3> QED BY <1>1, <2>2, <3>1 DEF Unbroken
  <2> QED BY <2>1, <2>2
<1>5. Apart(x, b)
  BY <1>2, <1>3, <1>4, ApartThere
<1>6. exact => ~Stream!Tears(x \o b, Len(x))
  <2>1. 0 + 1 = 1 /\ 0 <= k /\ 0 \in Nat
    BY <1>3
  <2>2. IsPart(x \o b, t, 0, k)
    BY <1>2, <1>3, <2>1 DEF IsPart
  <2>3. Len(x) \in Nat
    BY <1>2
  <2> QED BY <1>1, <1>3, <2>2, <2>3, PrefixTears
<1>7. Alike(exact, g \o Stream!Unredact(b), Stream!Unredact(x \o b))
  BY <1>1, <1>2, <1>3, <1>5, <1>6, AlikeJoin
<1> QED BY <1>2, <1>7

\* The types of what the buffers keep: TypeOK, without the calls.
TextsTyped ==
  /\ text \in [Paths -> Seq(Stream!Atoms)] /\ taken \in [Paths -> Nat]
  /\ buf \in [Paths -> Seq(Stream!Atoms)] /\ got \in [Paths -> Seq(Stream!Readable)]
  /\ half \subseteq Paths /\ torn \subseteq Paths /\ broke \in BOOLEAN
  /\ end \in {"open", "done", "eof", "gone", "failed"}

\* Every path of a stream that goes on (Buffers, path by path).
PathAlike(p) ==
  OnPath(text[p], taken[p], buf[p], got[p], Stream!Emitted(p), ~broke /\ p \notin half, ~broke /\ p \notin torn)
EveryPath == end = "open" => \A p \in Paths : PathAlike(p)

LEMMA SameIs ==
  ASSUME NEW p, NEW u, NEW v
  PROVE  /\ ~broke => (Stream!Same(p, u, v) <=> Alike(~broke /\ p \notin torn, u, v))
         /\ p \notin torn => (Stream!Same(p, u, v) <=> u = v)
<1>1. Stream!Same(p, u, v) = IF p \in torn THEN Stream!Only(u, Kept) = Stream!Only(v, Kept) ELSE u = v
  BY DEF Stream!Same, Kept
<1> QED BY <1>1 DEF Alike

LEMMA BuffersPaths == TextsTyped => (Stream!Buffers <=> EveryPath)
<1> SUFFICES ASSUME TextsTyped, NEW p \in Paths
             PROVE  (/\ Len(buf[p]) <= taken[p] /\ taken[p] <= Len(text[p])
                     /\ buf[p] = SubSeq(text[p], taken[p] - Len(buf[p]) + 1, taken[p])
                     /\ ~broke /\ p \notin torn => ~Stream!Tears(text[p], taken[p] - Len(buf[p]))
                     /\ ~broke /\ p \notin half =>
                          /\ Stream!Same(p, got[p], Stream!Unredact(Stream!Emitted(p)))
                          /\ IF buf[p] = <<>> THEN Stream!Closed(Stream!Emitted(p))
                                              ELSE Head(buf[p]) \in {"ph1", "tok1", "["})
                    <=> PathAlike(p)
  BY DEF Stream!Buffers, EveryPath
<1>1. text[p] \in Seq(Stream!Atoms) /\ buf[p] \in Seq(Stream!Atoms) /\ taken[p] \in Nat
  BY DEF TextsTyped
<1>2. Path(text[p], taken[p], buf[p], Stream!Emitted(p)) <=>
        /\ Len(buf[p]) <= taken[p] /\ taken[p] <= Len(text[p])
        /\ buf[p] = SubSeq(text[p], taken[p] - Len(buf[p]) + 1, taken[p])
  BY <1>1 DEF Path, Stream!Emitted
<1>3. Path(text[p], taken[p], buf[p], Stream!Emitted(p)) => Len(Stream!Emitted(p)) = taken[p] - Len(buf[p])
  <2>1. Len(buf[p]) \in Nat
    BY <1>1
  <2>2. Len(buf[p]) <= taken[p] /\ taken[p] <= Len(text[p]) =>
          taken[p] - Len(buf[p]) \in 0 .. Len(text[p])
    BY <1>1, <2>1
  <2>3. \A d \in 0 .. Len(text[p]) : Len(SubSeq(text[p], 1, d)) = d
    BY <1>1
  <2> QED BY <1>2, <2>2, <2>3 DEF Stream!Emitted
<1>4. ~broke => (Stream!Same(p, got[p], Stream!Unredact(Stream!Emitted(p)))
                   <=> Alike(~broke /\ p \notin torn, got[p], Stream!Unredact(Stream!Emitted(p))))
  BY SameIs
<1>5. Unbroken(Stream!Emitted(p), buf[p]) <=>
        IF buf[p] = <<>> THEN Stream!Closed(Stream!Emitted(p)) ELSE Head(buf[p]) \in {"ph1", "tok1", "["}
  BY DEF Unbroken, Heads
<1>6. PathAlike(p) <=>
        /\ Path(text[p], taken[p], buf[p], Stream!Emitted(p))
        /\ ~broke /\ p \notin torn => ~Stream!Tears(text[p], Len(Stream!Emitted(p)))
        /\ ~broke /\ p \notin half =>
             /\ Alike(~broke /\ p \notin torn, got[p], Stream!Unredact(Stream!Emitted(p)))
             /\ Unbroken(Stream!Emitted(p), buf[p])
  BY DEF PathAlike, OnPath
<1> QED BY <1>2, <1>3, <1>4, <1>5, <1>6, Zenon

\* What the buffers are, between two frames, says what has been read.
LEMMA SoonRestored == TextsTyped /\ Stream!Buffers /\ end = "open" => Stream!RestoredSoFar
<1> SUFFICES ASSUME TextsTyped, Stream!Buffers, end = "open", ~broke, NEW p \in Paths \ half
             PROVE  Stream!Same(p, got[p] \o Stream!Unredact(buf[p]), Stream!Unredact(Stream!Arrived(p)))
  BY DEF Stream!RestoredSoFar
<1>1. PathAlike(p)
  BY BuffersPaths DEF EveryPath
<1>2. PICK exact, x : exact = (~broke /\ p \notin torn) /\ x = Stream!Emitted(p)
  OBVIOUS
<1>3. OnPath(text[p], taken[p], buf[p], got[p], x, TRUE, exact) /\ exact \in BOOLEAN
  <2>1. (~broke /\ p \notin half) = TRUE
    OBVIOUS
  <2> QED BY <1>1, <1>2, <2>1 DEF PathAlike
<1>4. got[p] \in Seq(Stream!Readable)
  BY DEF TextsTyped
<1>5. Alike(exact, got[p] \o Stream!Unredact(buf[p]), Stream!Unredact(SubSeq(text[p], 1, taken[p])))
  BY <1>3, <1>4, PathRestored
<1> QED BY <1>2, <1>5, SameIs DEF Stream!Arrived

\* One path, in a frame or in one that fails.
Reads(g, e, h, sound, later) ==
  later => sound /\ h = g \o Stream!Unredact(e) /\ ~(e # <<>> /\ Stream!Last(e) \in First)
\* y is what is emitted of the text once r is held back at c.
Leaves(t, c, r, y) == y = SubSeq(t, 1, c - Len(r))

Turns(t, k, b, g, x, sound, exact, c, s, shift, e, r, h, y, later, right) ==
  /\ OnPath(t, k, b, g, x, sound, exact) /\ g \in Seq(Stream!Readable)
  /\ c \in Nat /\ k <= c /\ c <= Len(t) /\ shift \in {0, 1} /\ Arrives(t, k, b, c, s, shift, e, r)
  /\ Reads(g, e, h, sound, later) /\ Leaves(t, c, r, y)
  /\ right => exact /\ ~Stream!Tears(t, c - Len(r))
  /\ sound \in BOOLEAN /\ exact \in BOOLEAN /\ later \in BOOLEAN /\ right \in BOOLEAN

LEMMA PathFrame ==
  ASSUME NEW t, NEW k, NEW b, NEW g, NEW x, NEW sound, NEW exact, NEW c, NEW s, NEW shift, NEW e, NEW r,
         NEW h, NEW y, NEW later, NEW right,
         Turns(t, k, b, g, x, sound, exact, c, s, shift, e, r, h, y, later, right)
  PROVE  OnPath(t, c, r, h, y, later, right) /\ e \in Seq(Stream!Atoms) /\ r \in Seq(Stream!Atoms)
<1>a. /\ OnPath(t, k, b, g, x, sound, exact) /\ g \in Seq(Stream!Readable)
      /\ c \in Nat /\ k <= c /\ c <= Len(t) /\ shift \in {0, 1} /\ Arrives(t, k, b, c, s, shift, e, r)
      /\ Reads(g, e, h, sound, later) /\ Leaves(t, c, r, y)
      /\ right => exact /\ ~Stream!Tears(t, c - Len(r))
      /\ sound \in BOOLEAN /\ exact \in BOOLEAN /\ later \in BOOLEAN /\ right \in BOOLEAN
  BY DEF Turns
<1>0. Path(t, k, b, x)
  BY <1>a DEF OnPath
<1>1. /\ Path(t, c, r, x \o e) /\ e \in Seq(Stream!Atoms) /\ x \in Seq(Stream!Atoms)
      /\ Unbroken(x, b) => Apart(x, e)
      /\ Unbroken(x, b) /\ ~(e # <<>> /\ Stream!Last(e) \in First) => Unbroken(x \o e, r)
  BY <1>a, <1>0, PathGrows
<1>2. x \o e = y /\ r \in Seq(Stream!Atoms) /\ t \in Seq(Stream!Atoms) /\ Len(r) <= c
  BY <1>a, <1>1 DEF Path, Leaves
<1>3. Path(t, c, r, y)
  BY <1>1, <1>2
<1>4. IsPart(y, t, 0, c - Len(r)) /\ y \in Seq(Stream!Atoms)
  BY <1>3, PathParts
<1>5. Len(y) = c - Len(r)
  <2>1. PICK d : d = c - Len(r)
    OBVIOUS
  <2>2. IsPart(y, t, 0, d)
    BY <1>4, <2>1
  <2>3. d \in Nat /\ d - 0 = d
    BY <2>2 DEF IsPart
  <2>4. Len(y) = d - 0
    BY <1>2, <2>2, PartTyped
  <2> QED BY <2>1, <2>3, <2>4
<1>6. right => ~Stream!Tears(t, Len(y))
  BY <1>a, <1>5
<1>7. ASSUME later PROVE Alike(right, h, Stream!Unredact(y)) /\ Unbroken(y, r)
  <2>1. sound /\ h = g \o Stream!Unredact(e) /\ ~(e # <<>> /\ Stream!Last(e) \in First)
    BY <1>a, <1>7 DEF Reads
  <2>2. Unbroken(x, b) /\ Alike(exact, g, Stream!Unredact(x)) /\ (exact => ~Stream!Tears(t, Len(x)))
    BY <1>a, <2>1 DEF OnPath
  <2>3. right => ~Stream!Tears(x \o e, Len(x))
    <3>1. Len(x) \in Nat
      BY <1>1
    <3>2. exact => ~Stream!Tears(y, Len(x))
      BY <1>2, <1>4, <2>2, <3>1, PrefixTears
    <3> QED BY <1>a, <1>2, <3>2
  <2>4. Alike(right, g, Stream!Unredact(x))
    BY <1>a, <2>2 DEF Alike
  <2>5. Alike(right, g \o Stream!Unredact(e), Stream!Unredact(x \o e))
    BY <1>a, <1>1, <2>2, <2>3, <2>4, AlikeJoin
  <2> QED BY <1>1, <1>2, <2>1, <2>2, <2>5
<1> QED BY <1>1, <1>2, <1>3, <1>6, <1>7 DEF OnPath

\* A frame with text for one path.
TextMoves(p, c, s, shift, e, r, h) ==
  /\ end = "open" /\ UNCHANGED <<text, end>> /\ broke' \in BOOLEAN
  /\ p \in Paths /\ c \in Nat /\ taken[p] <= c /\ c <= Len(text[p])
  /\ shift \in {0, 1} /\ Arrives(text[p], taken[p], buf[p], c, s, shift, e, r) /\ h \in Seq(Stream!Readable)
  /\ taken' = [taken EXCEPT ![p] = c] /\ buf' = [buf EXCEPT ![p] = r] /\ got' = [got EXCEPT ![p] = h]
  /\ half' \subseteq Paths /\ half \subseteq half' /\ torn' \subseteq Paths /\ torn \subseteq torn'
  /\ ~broke' => /\ ~broke /\ h = got[p] \o Stream!Unredact(e)
                /\ p \notin torn' => ~Stream!Tears(text[p], c - Len(r))
                /\ p \notin half' => ~(e # <<>> /\ Stream!Last(e) \in First)

LEMMA TextKeeps ==
  ASSUME TextsTyped, Stream!Buffers, NEW p, NEW c, NEW s, NEW shift, NEW e, NEW r, NEW h,
         TextMoves(p, c, s, shift, e, r, h)
  PROVE  TextsTyped' /\ Stream!Buffers' /\ Stream!RestoredSoFar'
<1>a. /\ end = "open" /\ UNCHANGED <<text, end>> /\ broke' \in BOOLEAN
      /\ p \in Paths /\ c \in Nat /\ taken[p] <= c /\ c <= Len(text[p])
      /\ shift \in {0, 1} /\ Arrives(text[p], taken[p], buf[p], c, s, shift, e, r) /\ h \in Seq(Stream!Readable)
      /\ taken' = [taken EXCEPT ![p] = c] /\ buf' = [buf EXCEPT ![p] = r] /\ got' = [got EXCEPT ![p] = h]
      /\ half' \subseteq Paths /\ half \subseteq half' /\ torn' \subseteq Paths /\ torn \subseteq torn'
      /\ ~broke' => /\ ~broke /\ h = got[p] \o Stream!Unredact(e)
                    /\ p \notin torn' => ~Stream!Tears(text[p], c - Len(r))
                    /\ p \notin half' => ~(e # <<>> /\ Stream!Last(e) \in First)
  BY DEF TextMoves
<1>0. /\ text \in [Paths -> Seq(Stream!Atoms)] /\ taken \in [Paths -> Nat]
      /\ buf \in [Paths -> Seq(Stream!Atoms)] /\ got \in [Paths -> Seq(Stream!Readable)] /\ broke \in BOOLEAN
  BY DEF TextsTyped
<1>1. \A q \in Paths : PathAlike(q)
  BY <1>a, BuffersPaths DEF EveryPath
<1>2. /\ taken'[p] = c /\ buf'[p] = r /\ got'[p] = h /\ text'[p] = text[p]
      /\ \A q \in Paths : q # p => /\ taken'[q] = taken[q] /\ buf'[q] = buf[q]
                                 /\ got'[q] = got[q] /\ text'[q] = text[q]
  BY <1>a, <1>0
<1>3. PICK y, later, right : /\ y = SubSeq(text[p], 1, c - Len(r))
                             /\ later = (~broke' /\ p \notin half') /\ right = (~broke' /\ p \notin torn')
  OBVIOUS
<1>4. PICK t, k, b, g, x, sound, exact :
        /\ t = text[p] /\ k = taken[p] /\ b = buf[p] /\ g = got[p] /\ x = Stream!Emitted(p)
        /\ sound = (~broke /\ p \notin half) /\ exact = (~broke /\ p \notin torn)
  OBVIOUS
<1>5. OnPath(t, c, r, h, y, later, right) /\ e \in Seq(Stream!Atoms) /\ r \in Seq(Stream!Atoms)
  <2>1. OnPath(t, k, b, g, x, sound, exact)
    <3>1. PathAlike(p)
      BY <1>a, <1>1
    <3> QED BY <1>4, <3>1 DEF PathAlike
  <2>2. k <= c /\ c <= Len(t) /\ Arrives(t, k, b, c, s, shift, e, r) /\ Leaves(t, c, r, y)
    BY <1>a, <1>3, <1>4 DEF Leaves
  <2>3. Reads(g, e, h, sound, later)
    BY <1>a, <1>3, <1>4 DEF Reads
  <2>4. sound \in BOOLEAN /\ later \in BOOLEAN /\ exact \in BOOLEAN /\ right \in BOOLEAN
    BY <1>3, <1>4
  <2>5. right => exact /\ ~Stream!Tears(t, c - Len(r))
    BY <1>a, <1>3, <1>4
  <2>6. g \in Seq(Stream!Readable)
    BY <1>a, <1>0, <1>4
  <2>7. c \in Nat /\ shift \in {0, 1}
    BY <1>a
  <2>8. Turns(t, k, b, g, x, sound, exact, c, s, shift, e, r, h, y, later, right)
    BY <2>1, <2>2, <2>3, <2>4, <2>5, <2>6, <2>7 DEF Turns
  <2> QED BY <2>8, PathFrame
<1>6. TextsTyped'
  <2>1. taken' \in [Paths -> Nat]
    BY <1>a, <1>0
  <2>2. buf' \in [Paths -> Seq(Stream!Atoms)]
    BY <1>a, <1>0, <1>5
  <2>3. got' \in [Paths -> Seq(Stream!Readable)]
    BY <1>a, <1>0
  <2>4. end' = end /\ text' = text /\ half' \subseteq Paths /\ torn' \subseteq Paths /\ broke' \in BOOLEAN
    BY <1>a
  <2>5. end \in {"open", "done", "eof", "gone", "failed"}
    BY DEF TextsTyped
  <2> QED BY <1>0, <2>1, <2>2, <2>3, <2>4, <2>5 DEF TextsTyped
<1>7. ASSUME NEW q \in Paths PROVE PathAlike(q)'
  <2>1. Stream!Emitted(q)' = SubSeq(text'[q], 1, taken'[q] - Len(buf'[q]))
    BY DEF Stream!Emitted
  <2>2. SUFFICES OnPath(text'[q], taken'[q], buf'[q], got'[q], Stream!Emitted(q)',
                        ~broke' /\ q \notin half', ~broke' /\ q \notin torn')
    BY DEF PathAlike
  <2>3. CASE q = p
    <3>1. Stream!Emitted(q)' = y /\ text'[q] = t
      BY <1>2, <1>3, <1>4, <2>1, <2>3
    <3> QED BY <1>2, <1>3, <1>5, <2>3, <3>1
  <2>4. CASE q # p
    <3>1. Stream!Emitted(q)' = Stream!Emitted(q)
      BY <1>2, <2>1, <2>4 DEF Stream!Emitted
    <3>2. OnPath(text'[q], taken'[q], buf'[q], got'[q], Stream!Emitted(q)', ~broke /\ q \notin half,
                 ~broke /\ q \notin torn)
      <4>1. PathAlike(q)
        BY <1>1
      <4> QED BY <1>2, <2>4, <3>1, <4>1 DEF PathAlike
    <3>3. /\ ~broke' /\ q \notin half' => ~broke /\ q \notin half
          /\ ~broke' /\ q \notin torn' => ~broke /\ q \notin torn
      BY <1>a
    <3> QED BY <3>2, <3>3 DEF OnPath, Alike
  <2> QED BY <2>3, <2>4
<1>8. Stream!Buffers'
  <2>1. (TextsTyped => (Stream!Buffers <=> EveryPath))'
    BY BuffersPaths, PTL
  <2>2. EveryPath'
    BY <1>7 DEF EveryPath
  <2> QED BY <1>6, <2>1, <2>2
<1>9. Stream!RestoredSoFar'
  <2>1. (TextsTyped /\ Stream!Buffers /\ end = "open" => Stream!RestoredSoFar)'
    BY SoonRestored, PTL
  <2>2. end' = "open"
    BY <1>a
  <2> QED BY <1>6, <1>8, <2>1, <2>2
<1> QED BY <1>6, <1>8, <1>9

LEMMA PartReadable ==
  ASSUME NEW t \in Seq(Stream!Atoms), NEW k \in Nat, NEW c \in Nat, k <= c, c <= Len(t)
  PROVE  SubSeq(t, k + 1, c) \in Seq(Stream!Readable)
<1>1. SubSeq(t, k + 1, c) \in Seq(Stream!Atoms)
  BY PartOf
<1>2. \A s \in Seq(Stream!Atoms) : s \in Seq(Stream!Readable)
  BY DEF Stream!Readable
<1> QED BY <1>1, <1>2

LEMMA TextFrame ==
  ASSUME TextsTyped, Stream!Buffers, NEW p \in Paths, NEW n \in 0 .. Len(text[p]) - taken[p],
         Stream!Frame(p, n) \/ Stream!FrameFails(p, n)
  PROVE  TextsTyped' /\ Stream!Buffers' /\ Stream!RestoredSoFar'
<1>0. /\ text \in [Paths -> Seq(Stream!Atoms)] /\ taken \in [Paths -> Nat]
      /\ buf \in [Paths -> Seq(Stream!Atoms)] /\ got \in [Paths -> Seq(Stream!Readable)]
      /\ half \subseteq Paths /\ torn \subseteq Paths /\ broke \in BOOLEAN
  BY DEF TextsTyped
<1>1. PICK c : c = taken[p] + n
  OBVIOUS
<1>2. PICK s : s = buf[p] \o SubSeq(text[p], taken[p] + 1, c)
  OBVIOUS
<1>3. PICK shift \in Stream!Shifts(s) :
        buf' = [buf EXCEPT ![p] = Stream!Keep(s, shift)]
        /\ \/ /\ UNCHANGED broke
              /\ got' = [got EXCEPT ![p] = @ \o Stream!Unredact(Stream!Emit(s, shift))]
              /\ half' = IF /\ Stream!Emit(s, shift) # <<>>
                           /\ Stream!Last(Stream!Emit(s, shift)) \in {"ph1", "tok1"}
                        THEN half \cup {p} ELSE half
              /\ torn' = IF Stream!Tears(text[p], taken'[p] - Len(buf'[p])) THEN torn \cup {p} ELSE torn
           \/ /\ broke' = TRUE /\ half' = half /\ torn' = torn
              /\ got' = [got EXCEPT ![p] = @ \o SubSeq(text[p], taken[p] + 1, c)]
  BY <1>1, <1>2 DEF Stream!Frame, Stream!FrameFails, Stream!Chunk
<1>10. PICK e, r : e = Stream!Emit(s, shift) /\ r = Stream!Keep(s, shift)
  OBVIOUS
<1>11. shift \in {0, 1}
  BY ShiftsTwo
<1>4. /\ end = "open" /\ UNCHANGED <<text, end>> /\ taken' = [taken EXCEPT ![p] = c] /\ buf' = [buf EXCEPT ![p] = r]
  BY <1>1, <1>3, <1>10 DEF Stream!Frame, Stream!FrameFails
<1>12. c <= Len(text[p])
  <2>1. n \in Nat /\ taken[p] \in Nat /\ Len(text[p]) \in Nat /\ n <= Len(text[p]) - taken[p]
    BY <1>0
  <2> QED BY <1>1, <2>1
<1>5. /\ c \in Nat /\ taken[p] <= c /\ text[p] \in Seq(Stream!Atoms)
      /\ taken[p] \in Nat /\ got[p] \in Seq(Stream!Readable)
  <2>1. n \in Nat
    BY <1>0
  <2> QED BY <1>0, <1>1, <2>1
<1>6. Arrives(text[p], taken[p], buf[p], c, s, shift, e, r)
  BY <1>2, <1>10 DEF Arrives
<1>7. e \in Seq(Stream!Atoms)
  <2>1. PathAlike(p)
    BY <1>4, BuffersPaths DEF EveryPath
  <2>2. Path(text[p], taken[p], buf[p], Stream!Emitted(p))
    BY <2>1 DEF PathAlike, OnPath
  <2>3. PICK t, k, b, x : t = text[p] /\ k = taken[p] /\ b = buf[p] /\ x = Stream!Emitted(p)
    OBVIOUS
  <2>4. Path(t, k, b, x) /\ k <= c /\ c <= Len(t) /\ Arrives(t, k, b, c, s, shift, e, r)
    BY <1>5, <1>6, <1>12, <2>2, <2>3
  <2> QED BY <1>5, <1>11, <2>4, PathGrows
<1>13. c - Len(r) = taken'[p] - Len(buf'[p])
  BY <1>0, <1>4
<1>8. CASE /\ broke' = broke
           /\ got' = [got EXCEPT ![p] = @ \o Stream!Unredact(Stream!Emit(s, shift))]
           /\ half' = IF Stream!Emit(s, shift) # <<>> /\ Stream!Last(Stream!Emit(s, shift)) \in {"ph1", "tok1"}
                      THEN half \cup {p} ELSE half
           /\ torn' = IF Stream!Tears(text[p], taken'[p] - Len(buf'[p])) THEN torn \cup {p} ELSE torn
  <2>1. PICK h : h = got[p] \o Stream!Unredact(e)
    OBVIOUS
  <2>2. h \in Seq(Stream!Readable)
    <3>1. Stream!Unredact(e) \in Seq(Stream!Readable)
      BY <1>7, UnredactType
    <3> QED BY <1>5, <2>1, <3>1
  <2>3. /\ got' = [got EXCEPT ![p] = h]
        /\ half' = IF e # <<>> /\ Stream!Last(e) \in {"ph1", "tok1"} THEN half \cup {p} ELSE half
        /\ torn' = IF Stream!Tears(text[p], c - Len(r)) THEN torn \cup {p} ELSE torn
    <3>2. got' = [got EXCEPT ![p] = @ \o Stream!Unredact(Stream!Emit(s, shift))]
      BY <1>8
    <3>3. half' = IF e # <<>> /\ Stream!Last(e) \in {"ph1", "tok1"} THEN half \cup {p} ELSE half
      BY <1>8, <1>10
    <3>4. torn' = IF Stream!Tears(text[p], c - Len(r)) THEN torn \cup {p} ELSE torn
      BY <1>8, <1>13
    <3> QED BY <1>10, <2>1, <3>2, <3>3, <3>4
  <2>4. half' \subseteq Paths /\ half \subseteq half' /\ broke' \in BOOLEAN
        /\ (p \notin half' => ~(e # <<>> /\ Stream!Last(e) \in First))
    BY <1>0, <1>8, <2>3 DEF First
  <2>5. torn' \subseteq Paths /\ torn \subseteq torn' /\ (p \notin torn' => ~Stream!Tears(text[p], c - Len(r)))
    BY <1>0, <2>3
  <2>6. TextMoves(p, c, s, shift, e, r, h)
    BY <1>4, <1>5, <1>6, <1>8, <1>11, <1>12, <2>1, <2>2, <2>3, <2>4, <2>5 DEF TextMoves
  <2> QED BY <2>6, TextKeeps
<1>9. CASE broke' = TRUE /\ half' = half /\ torn' = torn
           /\ got' = [got EXCEPT ![p] = @ \o SubSeq(text[p], taken[p] + 1, c)]
  <2>1. PICK h : h = got[p] \o SubSeq(text[p], taken[p] + 1, c)
    OBVIOUS
  <2>2. got' = [got EXCEPT ![p] = h]
    BY <1>9, <2>1
  <2>3. h \in Seq(Stream!Readable)
    <3>1. PICK d : d = SubSeq(text[p], taken[p] + 1, c)
      OBVIOUS
    <3>2. d \in Seq(Stream!Readable)
      BY <1>5, <1>12, <3>1, PartReadable
    <3> QED BY <1>5, <2>1, <3>1, <3>2
  <2>4. TextMoves(p, c, s, shift, e, r, h)
    BY <1>0, <1>4, <1>5, <1>6, <1>9, <1>11, <1>12, <2>2, <2>3 DEF TextMoves
  <2> QED BY <2>4, TextKeeps
<1> QED BY <1>3, <1>8, <1>9

\* Of several texts of which one is not empty, that one is what they are together.
OneText(V, n, q, k) ==
  /\ n \in Nat /\ q \in [1 .. n -> Seq(V)] /\ k \in 1 .. n
  /\ \A i \in 1 .. n : i # k => q[i] = <<>>

LEMMA FlattenOne ==
  ASSUME NEW V, NEW n, NEW q, NEW k, OneText(V, n, q, k)
  PROVE  Stream!FlattenSeq(q) = q[k]
<1>0. /\ n \in Nat /\ q \in [1 .. n -> Seq(V)] /\ k \in 1 .. n
      /\ \A i \in 1 .. n : i # k => q[i] = <<>>
  BY DEF OneText
<1> USE <1>0
<1> DEFINE Next1(f, i) == IF i = 1 THEN q[i] ELSE f[i - 1] \o q[i]
           f1 == [i \in 1 .. n |-> IF i < k THEN <<>> ELSE q[k]]
           g1 == CHOOSE f : f = [i \in 1 .. n |-> Next1(f, i)]
<1>1. Len(q) = n /\ Len(q) # 0 /\ n > 0
  BY <1>0
<1>2. Stream!FlattenSeq(q) = g1[n]
  BY <1>1 DEF Stream!FlattenSeq
<1>3. f1 = [i \in 1 .. n |-> Next1(f1, i)]
  <2> SUFFICES ASSUME NEW i \in 1 .. n PROVE f1[i] = Next1(f1, i)
    OBVIOUS
  <2>0. q[k] \in Seq(V) /\ i \in Nat /\ k \in Nat
    BY <1>0
  <2>1. CASE i = 1
    BY <2>0, <2>1
  <2>2. CASE i # 1
    <3>1. i - 1 \in 1 .. n
      BY <2>0, <2>2
    <3>2. f1[i - 1] = IF i - 1 < k THEN <<>> ELSE q[k]
      BY <3>1
    <3>3. CASE i < k
      <4>1. i - 1 < k /\ q[i] = <<>> /\ <<>> \o <<>> = <<>>
        BY <2>0, <3>3
      <4> QED BY <2>2, <3>2, <3>3, <4>1
    <3>4. CASE i = k
      <4>1. i - 1 < k /\ <<>> \o q[k] = q[k] /\ ~(i < k) /\ q[i] = q[k]
        BY <2>0, <3>4
      <4> QED BY <2>2, <3>2, <3>4, <4>1
    <3>5. CASE i > k
      <4>1. ~(i - 1 < k) /\ ~(i < k) /\ q[i] = <<>> /\ q[k] \o <<>> = q[k]
        BY <2>0, <3>5
      <4> QED BY <2>2, <3>2, <4>1
    <3> QED BY <2>0, <3>3, <3>4, <3>5
  <2> QED BY <2>1, <2>2
<1>4. g1 = [i \in 1 .. n |-> Next1(g1, i)]
  <2> HIDE DEF f1
  <2> QED BY <1>3, Zenon
<1>5. \A i \in 1 .. n : g1[i] = Next1(g1, i) /\ f1[i] = Next1(f1, i)
  <2> HIDE DEF f1, g1
  <2> QED BY <1>3, <1>4
<1>6. f1[n] = q[k]
  BY <1>1
<1> HIDE DEF f1, g1
<1> DEFINE f2 == [i \in 0 .. n |-> IF i = 0 THEN <<>> ELSE f1[i]]
           g2 == [i \in 0 .. n |-> IF i = 0 THEN <<>> ELSE g1[i]]
<1>7. ASSUME NEW i \in 0 .. n, \A j \in 0 .. n : j < i => g2[j] = f2[j] PROVE g2[i] = f2[i]
  <2>1. CASE i = 0
    BY <2>1
  <2>2. CASE i = 1
    <3>1. 1 \in 1 .. n
      BY <1>1
    <3>2. g1[1] = q[1] /\ f1[1] = q[1]
      BY <1>5, <3>1
    <3> QED BY <2>2, <3>2
  <2>3. CASE i # 0 /\ i # 1
    <3>1. i \in 1 .. n /\ i - 1 \in 0 .. n /\ i - 1 < i /\ i - 1 # 0
      BY <2>3
    <3>2. g2[i - 1] = f2[i - 1]
      BY <1>7, <3>1
    <3>3. g1[i - 1] = f1[i - 1]
      BY <3>1, <3>2
    <3>4. g1[i] = g1[i - 1] \o q[i] /\ f1[i] = f1[i - 1] \o q[i]
      BY <1>5, <2>3, <3>1
    <3> QED BY <2>3, <3>3, <3>4
  <2> QED BY <2>1, <2>2, <2>3
<1> HIDE DEF f2, g2
<1>8. Agree(n, g2, f2)
  BY <1>7 DEF Agree
<1>9. n \in 0 .. n /\ g2[n] = f2[n]
  BY <1>8, Agreeing
<1>10. g1[n] = f1[n]
  BY <1>1, <1>9 DEF f2, g2
<1> QED BY <1>2, <1>6, <1>10

\* Flush writes every path once.
LEMMA OrderOnce ==
  ASSUME NEW o \in Stream!Orders
  PROVE  /\ o \in [1 .. Cardinality(Paths) -> Paths] /\ Cardinality(Paths) \in Nat
         /\ \A p \in Paths : \E i \in 1 .. Cardinality(Paths) : o[i] = p
         /\ \A i, j \in 1 .. Cardinality(Paths) : o[i] = o[j] => i = j
<1> DEFINE n == Cardinality(Paths)
<1>1. n \in Nat /\ IsFiniteSet(Paths)
  BY StreamAssumption, FS_CardinalityType
<1>2. o \in [1 .. n -> Paths] /\ \A p \in Paths : \E i \in 1 .. n : o[i] = p
  BY StreamCardinality DEF Stream!Orders
<1>3. IsFiniteSet(1 .. n) /\ Cardinality(1 .. n) = n
  BY <1>1, FS_Interval
<1> HIDE DEF n
<1>4. o \in Surjection(1 .. n, Paths)
  BY <1>2 DEF Surjection
<1>5. o \in Injection(1 .. n, Paths)
  BY <1>1, <1>3, <1>4, FS_Surjection DEF n
<1>6. \A i, j \in 1 .. n : o[i] = o[j] => i = j
  BY <1>5 DEF Injection, IsInjective
<1> QED BY <1>1, <1>2, <1>6 DEF n


LEMMA NothingAdded ==
  ASSUME NEW V, NEW g \in Seq(V), NEW u \in Seq(V), g \o u = g
  PROVE  u = <<>>
<1>1. Len(g \o u) = Len(g) + Len(u) /\ Len(u) \in Nat /\ Len(g) \in Nat
  OBVIOUS
<1>2. Len(u) = 0
  BY <1>1
<1> QED BY <1>2

\* [DONE]: the last frame has what every buffer still holds.
LEMMA TextDone ==
  ASSUME TextsTyped, Stream!Buffers, Stream!Done
  PROVE  TextsTyped' /\ Stream!Buffers' /\ Stream!RestoredSoFar'
<1>0. /\ text \in [Paths -> Seq(Stream!Atoms)] /\ taken \in [Paths -> Nat]
      /\ buf \in [Paths -> Seq(Stream!Atoms)] /\ got \in [Paths -> Seq(Stream!Readable)]
      /\ half \subseteq Paths /\ torn \subseteq Paths /\ broke \in BOOLEAN
  BY DEF TextsTyped
<1>1. /\ end = "open" /\ Stream!FlushText /\ buf' = [p \in Paths |-> <<>>]
      /\ UNCHANGED <<text, taken, got, half, torn>>
  BY DEF Stream!Done
<1>2. end' \in {"done", "failed"} /\ (broke' = broke \/ broke' = TRUE)
  BY <1>1 DEF Stream!FlushText
<1>3. TextsTyped' /\ Stream!Buffers'
  <2>1. buf' \in [Paths -> Seq(Stream!Atoms)]
    BY <1>1
  <2> QED BY <1>0, <1>1, <1>2, <2>1 DEF TextsTyped, Stream!Buffers
<1>4. ASSUME ~broke', end' = "done", half = {},
             \A p \in Paths \ {Body} : p \notin torn /\ got[p] = Stream!Unredact(Stream!Arrived(p))
      PROVE  Stream!Same(Body, got[Body] \o tail', Stream!Unredact(Stream!Arrived(Body)))
  <2>1. PICK o \in Stream!Orders : tail' = Stream!FlattenSeq([i \in DOMAIN o |-> Stream!Unredact(buf[o[i]])])
    BY <1>1, <1>4 DEF Stream!FlushText
  <2>2. ~broke
    BY <1>2, <1>4
  <2>3. \A p \in Paths : Stream!Same(p, got[p] \o Stream!Unredact(buf[p]), Stream!Unredact(Stream!Arrived(p)))
    <3>1. Stream!RestoredSoFar
      BY <1>1, SoonRestored
    <3> QED BY <1>1, <1>4, <2>2, <3>1 DEF Stream!RestoredSoFar
  <2>4. ASSUME NEW p \in Paths PROVE Stream!Unredact(buf[p]) \in Seq(Stream!Readable)
    BY <1>0, UnredactType
  <2>5. ASSUME NEW p \in Paths, p # Body PROVE Stream!Unredact(buf[p]) = <<>>
    <3>1. PICK g, u : g = got[p] /\ u = Stream!Unredact(buf[p])
      OBVIOUS
    <3>3. p \notin torn /\ g = Stream!Unredact(Stream!Arrived(p))
      BY <1>4, <2>5, <3>1
    <3>4. g \o u = Stream!Unredact(Stream!Arrived(p))
      BY <2>3, <3>1, <3>3, SameIs
    <3>2. g \in Seq(Stream!Readable) /\ u \in Seq(Stream!Readable) /\ g \o u = g
      BY <1>0, <2>4, <3>1, <3>3, <3>4
    <3> QED BY <3>1, <3>2, NothingAdded
  <2>6. PICK n : n = Cardinality(Paths)
    OBVIOUS
  <2>7. /\ o \in [1 .. n -> Paths] /\ n \in Nat /\ \A p \in Paths : \E i \in 1 .. n : o[i] = p
        /\ \A i, j \in 1 .. n : o[i] = o[j] => i = j
    BY <2>6, OrderOnce
  <2>8. PICK k \in 1 .. n : o[k] = Body
    BY <2>7, StreamAssumption
  <2>9. PICK q : q = [i \in 1 .. n |-> Stream!Unredact(buf[o[i]])]
    OBVIOUS
  <2>10. q \in [1 .. n -> Seq(Stream!Readable)] /\ q[k] = Stream!Unredact(buf[Body])
    BY <2>4, <2>7, <2>8, <2>9
  <2>11. \A i \in 1 .. n : i # k => q[i] = <<>>
    <3> SUFFICES ASSUME NEW i \in 1 .. n, i # k PROVE q[i] = <<>>
      OBVIOUS
    <3>1. o[i] \in Paths /\ o[i] # Body
      BY <2>7, <2>8
    <3> QED BY <2>5, <2>9, <3>1
  <2>12. Stream!FlattenSeq(q) = q[k]
    <3>1. OneText(Stream!Readable, n, q, k)
      BY <2>7, <2>10, <2>11 DEF OneText
    <3> QED BY <3>1, FlattenOne
  <2>13. DOMAIN o = 1 .. n
    BY <2>7
  <2>14. tail' = Stream!Unredact(buf[Body])
    BY <2>1, <2>9, <2>10, <2>12, <2>13
  <2> QED BY <2>3, <2>14, StreamAssumption
<1>5. Stream!RestoredSoFar'
  <2>1. \A p \in Paths : Stream!Arrived(p)' = Stream!Arrived(p)
    BY <1>1 DEF Stream!Arrived
  <2>2. ASSUME ~broke', end' = "done", half' = {},
               \A p \in Paths \ {Body} : p \notin torn' /\ got'[p] = Stream!Unredact(Stream!Arrived(p)')
        PROVE  Stream!Same(Body, got[Body] \o tail, Stream!Unredact(Stream!Arrived(Body)))'
    <3>1. \A p \in Paths \ {Body} : p \notin torn /\ got[p] = Stream!Unredact(Stream!Arrived(p))
      BY <1>1, <2>1, <2>2
    <3>2. Stream!Same(Body, got[Body] \o tail', Stream!Unredact(Stream!Arrived(Body)))
      BY <1>1, <1>4, <2>2, <3>1
    <3> QED BY <1>1, <2>1, <3>2, StreamAssumption DEF Stream!Same
  <2> QED BY <1>2, <2>2 DEF Stream!RestoredSoFar
<1> QED BY <1>3, <1>5

LEMMA TextInit ==
  ASSUME Stream!Init
  PROVE  TextsTyped /\ Stream!Buffers /\ Stream!RestoredSoFar
<1> USE StreamAssumption DEF Stream!Init
<1>1. text \in [Paths -> Seq(Stream!Atoms)]
  OBVIOUS
<1>2. TextsTyped
  <2>1. taken \in [Paths -> Nat]
    OBVIOUS
  <2>2. buf \in [Paths -> Seq(Stream!Atoms)] /\ got \in [Paths -> Seq(Stream!Readable)]
    OBVIOUS
  <2> QED BY <1>1, <2>1, <2>2 DEF TextsTyped
<1>3. ASSUME NEW p \in Paths
      PROVE  PathAlike(p)
  <2>1. /\ text[p] \in Seq(Stream!Atoms) /\ Len(text[p]) \in Nat
        /\ taken[p] = 0 /\ buf[p] = <<>> /\ got[p] = <<>>
    BY <1>1
  <2>2. Stream!Emitted(p) = <<>> /\ SubSeq(text[p], 1, 0) = <<>>
    BY <2>1 DEF Stream!Emitted
  <2>3. Path(text[p], taken[p], buf[p], Stream!Emitted(p))
    BY <2>1, <2>2 DEF Path
  <2>4. Stream!Unredact(<<>>) = <<>>
    <3>1. <<>> \in Seq(Stream!Atoms)
      OBVIOUS
    <3> QED BY <3>1, UnredactType
  <2>5. Stream!Closed(<<>>)
    BY DEF Stream!Closed
  <2>6. ~Stream!Tears(text[p], Len(Stream!Emitted(p)))
    <3>1. Len(Stream!Emitted(p)) = 0
      BY <2>2
    <3> QED BY <3>1 DEF Stream!Tears
  <2> QED BY <2>1, <2>2, <2>3, <2>4, <2>5, <2>6 DEF PathAlike, OnPath, Unbroken, Alike
<1>4. Stream!Buffers
  BY <1>2, <1>3, BuffersPaths DEF EveryPath
<1>5. Stream!RestoredSoFar
  BY <1>2, <1>4, SoonRestored
<1> QED BY <1>2, <1>4, <1>5

LEMMA TextNext ==
  ASSUME TextsTyped, Stream!Buffers, Stream!RestoredSoFar, [Stream!Next]_(Stream!vars)
  PROVE  TextsTyped' /\ Stream!Buffers' /\ Stream!RestoredSoFar'
<1>1. CASE Stream!Ends
  <2>1. end' \in {"eof", "gone"} /\ UNCHANGED <<text, taken, buf, got, half, torn, broke>>
    BY <1>1 DEF Stream!Ends, Stream!texts
  <2> QED BY <2>1 DEF TextsTyped, Stream!Buffers, Stream!RestoredSoFar
<1>2. CASE UNCHANGED Stream!vars
  <2>1. UNCHANGED <<text, taken, buf, got, tail, half, torn, end, broke>>
    BY <1>2 DEF Stream!vars, Stream!texts
  <2>2. \A p \in Paths : Stream!Emitted(p)' = Stream!Emitted(p) /\ Stream!Arrived(p)' = Stream!Arrived(p)
    BY <2>1 DEF Stream!Emitted, Stream!Arrived
  <2>3. TextsTyped'
    BY <2>1 DEF TextsTyped
  <2>4. Stream!Buffers'
    BY <2>1, <2>2 DEF Stream!Buffers, Stream!Same
  <2>5. Stream!RestoredSoFar'
    BY <2>1, <2>2, StreamAssumption DEF Stream!RestoredSoFar, Stream!Same
  <2> QED BY <2>3, <2>4, <2>5
<1> QED BY <1>1, <1>2, TextFrame, TextDone DEF Stream!Next

\* The client has read the restored beginning of what was streamed along a path and the
\* buffer is the rest, whatever the frames, and the last frame brings what is held
\* (redactor.go, StreamUnredactor; restore.go, Flush), for any texts and any paths.
THEOREM StreamRestoredSoFar == Stream!Spec => [](Stream!TypeOK /\ Stream!Buffers /\ Stream!RestoredSoFar)
<1>1. Stream!Init => TextsTyped /\ Stream!Buffers /\ Stream!RestoredSoFar
  BY TextInit
<1>2. TextsTyped /\ Stream!Buffers /\ Stream!RestoredSoFar /\ [Stream!Next]_(Stream!vars)
        => (TextsTyped /\ Stream!Buffers /\ Stream!RestoredSoFar)'
  BY TextNext
<1>3. Stream!Spec => []ToolsTyped
  <2>1. Stream!Init => ToolsTyped /\ Stream!Barrier /\ Stream!CallsComplete
    BY BarrierInit
  <2>2. ToolsTyped /\ Stream!Barrier /\ Stream!CallsComplete /\ [Stream!Next]_(Stream!vars)
          => (ToolsTyped /\ Stream!Barrier /\ Stream!CallsComplete)'
    BY BarrierNext
  <2> QED BY <2>1, <2>2, PTL DEF Stream!Spec
<1>4. ToolsTyped /\ TextsTyped => Stream!TypeOK
  BY DEF ToolsTyped, TextsTyped, Stream!TypeOK
<1> QED BY <1>1, <1>2, <1>3, <1>4, PTL DEF Stream!Spec

=============================================================================
