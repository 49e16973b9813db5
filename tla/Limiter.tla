------------------------------- MODULE Limiter -------------------------------
(***************************************************************************)
(* internal/ratelimit/window.go: the token limiter, for one subject (the   *)
(* states of two subjects share nothing but the lock).  Quota is taken     *)
(* when a request is admitted, put right when its stream ends, and given   *)
(* back when it breaks off; what was never settled is swept after          *)
(* ReservationTTL, by the next Reserve or by the janitor.                  *)
(*                                                                         *)
(* The window is cut into buckets.  A bucket's slot is counted from the    *)
(* Unix epoch, its start is a Truncate that counts from year 1; Offset is  *)
(* the distance of the two modulo the span, 0 when the span divides it.    *)
(***************************************************************************)
EXTENDS Integers, FiniteSets, Functions

CONSTANTS Requests,         \* handler goroutines of one subject
          NBuckets,         \* defaultBuckets
          Span,             \* bucketSpan, in ticks of the clock
          Offset,           \* of Truncate against the slots
          TokensPerWindow,  \* 0: no limit
          MaxConcurrent,    \* 0: no limit
          ReservationTTL,
          Amounts,          \* promptTokens + maxTokens of a request
          Overrun,          \* by which the real usage may exceed it
          MaxTime,          \* bound of the clock
          None

Window == NBuckets * Span
Slots  == 0 .. NBuckets - 1
Empty  == [start |-> 0, tokens |-> 0]

ASSUME LimiterAssumption ==
  /\ IsFiniteSet(Requests)
  /\ NBuckets \in Nat \ {0} /\ Span \in Nat \ {0} /\ Offset \in Nat
  /\ TokensPerWindow \in Nat /\ MaxConcurrent \in Nat
  /\ ReservationTTL \in Nat \ {0}
  /\ Amounts \subseteq Nat /\ Overrun \in Nat /\ MaxTime \in Nat /\ Window <= MaxTime
  /\ None \notin [tokens : Amounts, issued : Nat, slot : Slots, start : Int]

VARIABLES
  now,       \* l.now(); the epoch is at least a window ago
  buckets,   \* subjectState.buckets
  live,      \* whose reservation is in subjectState.reservations
  inflight,  \* subjectState.inflight
  held,      \* the *Reservation a handler holds, or None
  spent      \* history: tokens charged by Commit, by start of their bucket
vars == <<now, buckets, live, inflight, held, spent>>

SlotOf(t)  == (t \div Span) % NBuckets
StartOf(t) == t - ((t + Offset) % Span)

Init ==
  /\ now = Window /\ buckets = [k \in Slots |-> Empty]
  /\ live = {} /\ inflight = 0 /\ held = [r \in Requests |-> None]
  /\ spent = [s \in 1 .. MaxTime |-> 0]

(***************************************************************************)
(* What the calls do with the buckets.                                     *)
(***************************************************************************)
InWindow(start) == start > now - Window

Cleared(b) == [k \in Slots |-> IF InWindow(b[k].start) THEN b[k] ELSE Empty]

\* The tokens reserved by R, and by those of R with a reservation in a bucket.
Reserved(R) == SumFunction([r \in R |-> held[r].tokens])
ReservedInSlot(k, start, R) ==   \* mutant: whatever the bucket has rotated to
  Reserved({r \in R : held[r].slot = k})
ReservedIn(k, start, R) == Reserved({r \in R : held[r].slot = k /\ held[r].start = start})

Refunded(b, R) ==
  [k \in Slots |-> LET back == ReservedIn(k, b[k].start, R) IN
     [b[k] EXCEPT !.tokens = IF @ > back THEN @ - back ELSE 0]]

Charged(b, n) ==
  [b EXCEPT ![SlotOf(now)] =
     [start  |-> StartOf(now),
      tokens |-> n + (IF @.start = StartOf(now) THEN @.tokens ELSE 0)]]

\* What lies in the buckets K; what currentUsage adds up.
Lying(b, K) == SumFunction([k \in K |-> b[k].tokens])
Used(b) == Lying(b, {k \in Slots : InWindow(b[k].start)})

(***************************************************************************)
(* sweepExpiredLocked, first step of Reserve and the janitor's whole one.  *)
(***************************************************************************)
Overdue == {r \in live : now - held[r].issued >= ReservationTTL}
Fewer(n) == IF inflight > n THEN inflight - n ELSE 0

\* What the sweep leaves: reservations, requests in flight, buckets.
Rest    == live \ Overdue
Running == Fewer(Cardinality(Overdue))
Left    == Refunded(buckets, Overdue)

HasAlmostSlot(n) == MaxConcurrent = 0 \/ n <= MaxConcurrent   \* mutant
HasSlot(n) == MaxConcurrent = 0 \/ n < MaxConcurrent
HasAnyQuota(b, n) == TokensPerWindow = 0 \/ Used(b) < TokensPerWindow   \* mutant
HasQuota(b, n) == TokensPerWindow = 0 \/ Used(b) + n <= TokensPerWindow
Looked(b) == IF TokensPerWindow = 0 THEN b ELSE Cleared(b)   \* currentUsage

Reserve(r, n) ==
  /\ held[r] = None
  /\ HasSlot(Running) /\ HasQuota(Left, n)
  /\ live' = Rest \cup {r} /\ inflight' = Running + 1
  /\ held' = [held EXCEPT ![r] = [tokens |-> n, issued |-> now,
                                  slot |-> SlotOf(now), start |-> StartOf(now)]]
  /\ buckets' = Charged(Looked(Left), n)
  /\ UNCHANGED <<now, spent>>

\* ErrQuotaExceeded, for either reason; the sweep has been done.
TooMany(r, n) ==
  /\ held[r] = None
  /\ \/ ~HasSlot(Running) /\ buckets' = Left
     \/ HasSlot(Running) /\ ~HasQuota(Left, n) /\ buckets' = Cleared(Left)
  /\ live' = Rest /\ inflight' = Running
  /\ UNCHANGED <<now, held, spent>>

Settle(r) == live' = live \ {r} /\ inflight' = Fewer(1)
Forget(r) == held' = [held EXCEPT ![r] = None]

Commit(r, actual) ==
  /\ r \in live /\ actual <= held[r].tokens + Overrun
  /\ Settle(r) /\ Forget(r)
  /\ buckets' = Charged(Refunded(buckets, {r}), actual)
  /\ spent' = [spent EXCEPT ![StartOf(now)] = @ + actual]
  /\ UNCHANGED now

Release(r) ==
  /\ r \in live
  /\ Settle(r) /\ Forget(r)
  /\ buckets' = Refunded(buckets, {r})
  /\ UNCHANGED <<now, spent>>

\* ErrUnknownReservation: it was swept while the stream went on.
SettleLate(r) ==
  /\ held[r] # None /\ r \notin live
  /\ Forget(r)
  /\ UNCHANGED <<now, buckets, live, inflight, spent>>

SweepBuckets ==   \* mutant: the janitor only drops old buckets
  /\ Overdue # {}
  /\ buckets' = Cleared(buckets)
  /\ UNCHANGED <<now, live, inflight, held, spent>>
Sweep ==
  /\ Overdue # {}
  /\ live' = Rest /\ inflight' = Running /\ buckets' = Left
  /\ UNCHANGED <<now, held, spent>>

Snapshot ==
  /\ buckets' = Cleared(buckets)
  /\ UNCHANGED <<now, live, inflight, held, spent>>

\* Time passes; the history forgets what has left the window.
Tick ==
  /\ now < MaxTime /\ now' = now + 1
  /\ spent' = [s \in DOMAIN spent |-> IF s > now' - Window THEN spent[s] ELSE 0]
  /\ UNCHANGED <<buckets, live, inflight, held>>

Next ==
  \/ \E r \in Requests : \/ \E n \in Amounts : Reserve(r, n) \/ TooMany(r, n)
                         \/ Release(r) \/ SettleLate(r)
  \/ \E r \in live : \E actual \in 0 .. held[r].tokens + Overrun : Commit(r, actual)
  \/ Sweep \/ Snapshot \/ Tick

Spec == Init /\ [][Next]_vars
FairSpec == Spec /\ WF_vars(Sweep)   \* the ticker of StartJanitor

(***************************************************************************)
(* Correctness.                                                            *)
(***************************************************************************)
\* A reservation on the books is its handler's own and lies in the bucket of
\* its time, inflight counts the reservations exactly (its clamp at 0 never
\* hides a second settlement), and they are never more than MaxConcurrent.
Reservations == [tokens : Amounts, issued : 0 .. now, slot : Slots, start : Int]
Held ==
  /\ now \in Nat
  /\ held \in [Requests -> Reservations \cup {None}]
  /\ live \subseteq {r \in Requests : held[r] # None}
  /\ \A r \in Requests : held[r] # None =>
       held[r].slot = SlotOf(held[r].issued) /\ held[r].start = StartOf(held[r].issued)
  /\ inflight = Cardinality(live)
  /\ MaxConcurrent = 0 \/ inflight <= MaxConcurrent

\* No bucket is of the future, and where Truncate agrees with the slots a bucket
\* in use lies in the slot of its start: no two of the window share one.
WellFormed(b) ==
  b \in [Slots -> [start : Nat, tokens : Nat]] /\ \A k \in Slots : b[k].start <= now
Aligned(b) ==
  \A k \in Slots : b[k].start # 0 =>
    StartOf(b[k].start) = b[k].start /\ SlotOf(b[k].start) = k
Books ==
  /\ now >= Window /\ spent \in [1 .. MaxTime -> Nat]
  /\ WellFormed(buckets)
  /\ Offset % Span = 0 => Aligned(buckets)

IInv == Held /\ Books

\* No quota leaks and none appears from nowhere: in every bucket of the window
\* there is what Commit charged to it and what is reserved in it, no more and
\* no less, whatever was refunded, swept or rotated before (refund's clamp at
\* 0 and its early return on another start lose nothing).
Balance ==
  \A s \in DOMAIN spent : InWindow(s) =>
    Lying(buckets, {k \in Slots : buckets[k].start = s})
      = spent[s] + Reserved({r \in live : held[r].start = s})

\* Reserve takes the upper bound so that what was admitted cannot oversell the
\* window even if every stream uses all of it: on admission, the use of the
\* window and all that is promised to streams still running fit the quota. (A
\* reservation that outlives the window breaks it: its bucket has left the sum.)
Stale  == {r \in live : ~InWindow(held[r].start)}
Demand == Used(buckets) + Reserved(Stale)
NoOverselling ==
  [][\A r \in Requests : r \notin live /\ r \in live' => Demand' <= TokensPerWindow]_vars

\* What holds whatever the reservations' time to live: on admission, all that was
\* committed in the window and all that is reserved in it fit the quota, however
\* often it was refunded, swept, rotated and charged before.
Claimed == SumFunctionOnSet(spent, {s \in DOMAIN spent : InWindow(s)}) + Reserved(live \ Stale)
QuotaKept ==
  [][\A r \in Requests : r \notin live /\ r \in live' /\ TokensPerWindow # 0 =>
       Claimed' <= TokensPerWindow]_vars

\* The quota of a stream that died without settling comes back, also for a
\* subject without new requests: that is what the janitor is for.
Freed == \A r \in Requests : r \in Overdue ~> r \notin Overdue
=============================================================================
