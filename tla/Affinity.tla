------------------------------ MODULE Affinity ------------------------------
(***************************************************************************)
(* internal/affinity with the use Handler makes of it: requests with one   *)
(* prefix go to one replica, unless it has more than its share in flight.  *)
(* Pick, Acquire and Release of different requests interleave.             *)
(***************************************************************************)
EXTENDS Integers, Sequences, FiniteSets, FiniteSetsExt

CONSTANTS Members, Reqs,
          Nodes,       \* the members of the virtual nodes, in the ring's order
          Num, Den,    \* loadFactor is Num / Den
          NoMember

VARIABLES
  loads, total,  \* Ring.loads, Ring.total
  picked,        \* the replica of each request
  at,            \* "idle", "looking" (in Pick), "picked", "loaded" (in Acquire), "in",
                 \* "half" (in Release)
  look,          \* of a request in Pick: the eligible replicas, those in the order of the
                 \* walk, the capacity read at the start, the place of the next one, and
                 \* (history) the eligible ones below that capacity ever since
  squeezed       \* history: requests sent to a replica that was full although
                 \* another had room during the whole Pick and all were eligible

vars == <<loads, total, picked, at, look, squeezed>>

Init ==
  /\ loads = [m \in Members |-> 0] /\ total = 0
  /\ picked = [r \in Reqs |-> NoMember] /\ at = [r \in Reqs |-> "idle"]
  /\ look = [r \in Reqs |-> NoMember] /\ squeezed = {}

-----------------------------------------------------------------------------
\* 1.25 times the average in flight, cut to an integer, and one.
Capacity(eligible) == (total * Num) \div (Den * Cardinality(eligible)) + 1

\* The members in the order of the ring from a node on, each once.
From(start) ==
  LET at0(i) == Nodes[((start + i - 2) % Len(Nodes)) + 1]
      first(m) == CHOOSE i \in 1 .. Len(Nodes) : at0(i) = m /\ \A j \in 1 .. i - 1 : at0(j) # m
  IN [k \in 1 .. Cardinality(Members) |->
        CHOOSE m \in Members : Cardinality({n \in Members : first(n) <= first(m)}) = k]

\* Pick reads the total once and then one load at a time; RLock keeps out no
\* Acquire and no Release, so the counters may move between any two of the reads.
Begin(r) ==
  /\ at[r] = "idle" /\ at' = [at EXCEPT ![r] = "looking"]
  /\ \E eligible \in (SUBSET Members) \ {{}}, start \in 1 .. Len(Nodes) :
       LET capacity == Capacity(eligible) IN
       look' = [look EXCEPT ![r] =
         [eligible |-> eligible, walk |-> From(start), capacity |-> capacity, next |-> 1,
          free |-> {m \in eligible : loads[m] < capacity}]]
  /\ UNCHANGED <<loads, total, picked, squeezed>>

Preferred(p) == p.walk[Min({k \in DOMAIN p.walk : p.walk[k] \in p.eligible})]

\* The replica at the next place. One that is not eligible counts as seen. Pick
\* gives up behind a full one when it has seen as many as are eligible, and takes
\* the first eligible one; the last eligible one of the walk is never before that
\* place, so the loop does not end otherwise.
GivesUp(p)      == p.next >= Cardinality(p.eligible)
GivesUpEarly(p) == p.next + 1 >= Cardinality(p.eligible)   \* mutant: one too early
Take(r, m) ==
  /\ at' = [at EXCEPT ![r] = "picked"] /\ picked' = [picked EXCEPT ![r] = m]
  /\ look' = [look EXCEPT ![r] = NoMember]
  /\ squeezed' = IF loads[m] >= look[r].capacity /\ look[r].eligible = Members /\ look[r].free # {}
                 THEN squeezed \cup {r} ELSE squeezed
Look(r) ==
  /\ at[r] = "looking"
  /\ LET p == look[r]
         m == p.walk[p.next]
         room == m \in p.eligible /\ loads[m] < p.capacity
         over == m \in p.eligible /\ ~room /\ GivesUp(p)
     IN \/ room /\ Take(r, m)
        \/ over /\ Take(r, Preferred(p))
        \/ /\ ~room /\ ~over /\ look' = [look EXCEPT ![r].next = @ + 1]
           /\ UNCHANGED <<picked, at, squeezed>>
  /\ UNCHANGED <<loads, total>>

\* The admission check refuses it: it was not counted.
Refused(r) ==
  /\ at[r] = "picked" /\ at' = [at EXCEPT ![r] = "idle"]
  /\ picked' = [picked EXCEPT ![r] = NoMember] /\ UNCHANGED <<loads, total, look, squeezed>>

\* Acquire: the load of the replica, then the total.
AcquireLoad(r) ==
  /\ at[r] = "picked" /\ at' = [at EXCEPT ![r] = "loaded"]
  /\ loads' = [loads EXCEPT ![picked[r]] = @ + 1]
  /\ look' = [q \in Reqs |-> IF at[q] # "looking" THEN look[q] ELSE
                [look[q] EXCEPT !.free = {m \in @ : loads'[m] < look[q].capacity}]]
  /\ UNCHANGED <<total, picked, squeezed>>
AcquireTotal(r) ==
  /\ at[r] = "loaded" /\ at' = [at EXCEPT ![r] = "in"]
  /\ total' = total + 1 /\ UNCHANGED <<loads, picked, look, squeezed>>

\* Release: the load of the replica, then the total, neither below 0.
ReleaseLoad(r) ==
  /\ at[r] = "in" /\ at' = [at EXCEPT ![r] = "half"]
  /\ loads' = [loads EXCEPT ![picked[r]] = Max({0, @ - 1})]
  /\ UNCHANGED <<total, picked, look, squeezed>>
ReleaseTotal(r) ==
  /\ at[r] = "half" /\ at' = [at EXCEPT ![r] = "idle"]
  /\ total' = Max({0, total - 1}) /\ picked' = [picked EXCEPT ![r] = NoMember]
  /\ UNCHANGED <<loads, look, squeezed>>

Next == \E r \in Reqs : \/ Begin(r) \/ Look(r) \/ Refused(r) \/ AcquireLoad(r) \/ AcquireTotal(r)
                         \/ ReleaseLoad(r) \/ ReleaseTotal(r)
Spec == Init /\ [][Next]_vars

-----------------------------------------------------------------------------
\* In whatever order requests come and go, and between any two steps of Pick,
\* Acquire and Release, each counter is what was added to it and not yet taken
\* back, so none drifts; and no request is put on a full replica while another
\* one had room all through its Pick, unless some replica is not eligible (those
\* count as seen, prefix.go:140). A replica that fills or empties during the Pick
\* may be passed over, or taken, by what it read before.
Spread ==
  /\ \A m \in Members :
       loads[m] = Cardinality({r \in Reqs : picked[r] = m /\ at[r] \in {"loaded", "in"}})
  /\ total = Cardinality({r \in Reqs : at[r] \in {"in", "half"}})
  /\ squeezed = {}
=============================================================================
