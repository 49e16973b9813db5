-------------------------------- MODULE Audit --------------------------------
(***************************************************************************)
(* pii/audit: the recorder's events on their way to a SIEM (sink.go,       *)
(* recorder.go).  Requests put events into a bounded queue and never wait; *)
(* one goroutine batches and posts them; Close asks it to drain.           *)
(***************************************************************************)
EXTENDS Naturals, Sequences

CONSTANTS BufferSize, BatchSize,
          MaxEvents  \* bound on the events emitted

VARIABLES
  queue,     \* events, numbered as they were emitted
  batch,
  worker,    \* "running", "draining", "gone"
  closing,   \* Close was called, and the last event before it: [asked, upTo]
  emitted, dropped,     \* events emitted, refused by a full queue
  delivered, failed     \* sets of events, of a batch posted or given up

vars == <<queue, batch, worker, closing, emitted, dropped, delivered, failed>>

Init ==
  /\ queue = <<>> /\ batch = <<>> /\ worker = "running"
  /\ closing = [asked |-> FALSE, upTo |-> 0]
  /\ emitted = 0 /\ dropped = {} /\ delivered = {} /\ failed = {}

Events(s) == {s[i] : i \in 1 .. Len(s)}

\* Recorder.emit, HTTPSink.Emit: also of a request that is still running when the
\* process closes the recorder.
Emit ==
  /\ emitted < MaxEvents
  /\ emitted' = emitted + 1
  /\ IF Len(queue) < BufferSize
     THEN queue' = Append(queue, emitted + 1) /\ UNCHANGED dropped
     ELSE dropped' = dropped \cup {emitted + 1} /\ UNCHANGED queue
  /\ UNCHANGED <<batch, worker, closing, delivered, failed>>

\* deliver, and the batch starts anew.
Deliver(events) ==
  \/ delivered' = delivered \cup Events(events) /\ UNCHANGED failed
  \/ failed' = failed \cup Events(events) /\ UNCHANGED delivered
Receive ==
  /\ worker # "gone" /\ queue # <<>>
  /\ LET more == Append(batch, Head(queue)) IN
     IF Len(more) >= BatchSize THEN batch' = <<>> /\ Deliver(more)
                               ELSE batch' = more /\ UNCHANGED <<delivered, failed>>
  /\ queue' = Tail(queue)
  /\ UNCHANGED <<worker, closing, emitted, dropped>>
Flush ==   \* the ticker
  /\ worker = "running" /\ batch # <<>> /\ batch' = <<>> /\ Deliver(batch)
  /\ UNCHANGED <<queue, worker, closing, emitted, dropped>>

Close ==
  /\ ~closing.asked /\ closing' = [asked |-> TRUE, upTo |-> emitted]
  /\ UNCHANGED <<queue, batch, worker, emitted, dropped, delivered, failed>>
StartDrain ==   \* select may take the queue or the ticker first
  /\ closing.asked /\ worker = "running" /\ worker' = "draining"
  /\ UNCHANGED <<queue, batch, closing, emitted, dropped, delivered, failed>>
DrainedAtOnce == TRUE   \* mutant: what is queued is left behind
Drained == queue = <<>>
Leave ==
  /\ worker = "draining" /\ Drained /\ worker' = "gone" /\ batch' = <<>>
  /\ Deliver(batch)
  /\ UNCHANGED <<queue, closing, emitted, dropped>>

Next == Emit \/ Receive \/ Flush \/ Close \/ StartDrain \/ Leave
Spec == Init /\ [][Next]_vars

-----------------------------------------------------------------------------
\* No event is lost without a count: each one is waiting, delivered, counted as
\* dropped or as failed, and in one of these only; and when Close returns, every
\* event emitted before it was called has been posted or counted.  (An event that
\* is queued after the worker has gone stays there.)
AuditAccounted ==
  /\ Events(queue) \cup Events(batch) \cup dropped \cup delivered \cup failed = 1 .. emitted
  /\ (Events(queue) \cup Events(batch)) \cap (dropped \cup delivered \cup failed) = {}
  /\ delivered \cap (dropped \cup failed) = {} /\ dropped \cap failed = {}
  /\ worker = "gone" => 1 .. closing.upTo \subseteq dropped \cup delivered \cup failed

TypeOK ==
  /\ queue \in Seq(Nat) /\ batch \in Seq(Nat) /\ emitted \in Nat
  /\ worker \in {"running", "draining", "gone"} /\ closing \in [asked : BOOLEAN, upTo : Nat]

\* An event waits in one place only.
WaitsOnce ==
  /\ \A k, l \in 1 .. Len(queue) : queue[k] = queue[l] => k = l
  /\ Events(queue) \cap Events(batch) = {}

\* The worker drains only when it was asked to, for events that were emitted before.
Ending == closing.upTo <= emitted /\ (worker # "running" => closing.asked)

IInv == TypeOK /\ WaitsOnce /\ Ending
=============================================================================
