------------------------------ MODULE Admission ------------------------------
(***************************************************************************)
(* gpuload: a probe samples the metrics of one backend and State keeps a   *)
(* verdict that requests read without a lock.  The backend swaps requests  *)
(* out (a preemption) when its cache is full, and counts that since boot.  *)
(* The clock stands for seconds; a probe runs in no time, but not always.  *)
(***************************************************************************)
EXTENDS Naturals

CONSTANTS PreemptionWindow, \* Thresholds.PreemptionWindow
          MaxTime, MaxCount \* bounds on the clock and on the counter

VARIABLES
  clock, load, count,  \* the backend: "low", "high", "full"; its counter
  swaps,               \* history: what it did since the last valid sample
  causeAt,             \* history: the last sample after a swap, 0 for none
  owedAt,              \* history: the last one whose counter must have shown it
  snapshot,            \* State.snapshot: a level, or "invalid"
  updatedAt,           \* 0 as long as there was no Update
  lastPreemption, preemptedAt,
  pressure,
  failures,            \* Probe.failures, as far as it was none
  begun                \* history: a valid sample was taken

backend == <<load, count, swaps>>
history == <<causeAt, owedAt, begun>>
state   == <<snapshot, updatedAt, lastPreemption, preemptedAt, pressure>>
vars    == <<clock, backend, history, state, failures>>

Init ==
  /\ clock = 1 /\ load = "low" /\ count \in 0 .. 1 /\ swaps = "none"
  /\ causeAt = 0 /\ owedAt = 0
  /\ snapshot = "invalid" /\ updatedAt = 0 /\ lastPreemption = 0 /\ preemptedAt = 0
  /\ pressure = "unknown" /\ failures = FALSE /\ begun = FALSE

-----------------------------------------------------------------------------
\* The backend.
Works ==
  /\ load' \in {"low", "high", "full"} \ {load}
  /\ UNCHANGED <<clock, count, swaps, history, state, failures>>
Preempts ==
  /\ count < MaxCount /\ count' = count + 1
  /\ swaps' = IF swaps = "none" THEN "counted" ELSE swaps
  /\ UNCHANGED <<clock, load, history, state, failures>>
Reboots ==
  /\ count > 0 /\ count' = 0 /\ swaps' = "hidden"
  /\ UNCHANGED <<clock, load, history, state, failures>>
Tick ==
  /\ clock < MaxTime /\ clock' = clock + 1
  /\ UNCHANGED <<backend, history, state, failures>>

-----------------------------------------------------------------------------
\* State.computeLocked.  It is only called where updatedAt is now, so that the
\* limit of StaleAfter is never passed there.
Verdict(level, at) ==
  IF level = "invalid" THEN "unknown"
  ELSE IF (at # 0 /\ clock - at < PreemptionWindow) \/ level = "full" THEN "critical"
  ELSE IF level = "high" THEN "elevated" ELSE "normal"

\* State.Update with a valid snapshot: a counter that has grown since the last
\* sample is a preemption now.
UpdateAlways ==   \* mutant: a counter that is not zero is one
  /\ preemptedAt' = IF updatedAt # 0 /\ count > 0 THEN clock ELSE preemptedAt
  /\ lastPreemption' = count /\ snapshot' = load /\ updatedAt' = clock
  /\ pressure' = Verdict(load, preemptedAt')
Update ==
  /\ preemptedAt' = IF updatedAt # 0 /\ count > lastPreemption THEN clock ELSE preemptedAt
  /\ lastPreemption' = count /\ snapshot' = load /\ updatedAt' = clock
  /\ pressure' = Verdict(load, preemptedAt')

ProbeOne ==
  /\ Update /\ failures' = FALSE /\ begun' = TRUE /\ swaps' = "none"
  /\ causeAt' = IF swaps # "none" \/ (~begun /\ count > 0) THEN clock ELSE causeAt
  /\ owedAt' = IF begun /\ swaps = "counted" THEN clock ELSE owedAt
  /\ UNCHANGED <<clock, load, count>>

\* fetch or ParsePrometheus fails: an Update with an invalid snapshot.
ProbeFails ==
  /\ failures' = TRUE
  /\ snapshot' = "invalid" /\ updatedAt' = clock /\ pressure' = Verdict("invalid", preemptedAt)
  /\ UNCHANGED <<clock, backend, history, lastPreemption, preemptedAt>>

Next == Works \/ Preempts \/ Reboots \/ Tick \/ ProbeOne \/ ProbeFails
Spec == Init /\ [][Next]_vars

-----------------------------------------------------------------------------
\* State.Admit: the least priority that gets in.
Admit == [normal |-> 0, elevated |-> 4, unknown |-> 4, critical |-> 8]

\* All but the most urgent requests are turned away only for a cause: the cache
\* was full at the last sample, or a sample of the last seconds came after a swap
\* (before the first valid sample nobody can tell old swaps from new ones: if
\* only an Update has failed before it, the counter since boot is taken for new).
\* And a swap that a sample could show keeps them out as long as the samples are
\* valid, whatever the load, the failures and the clock do in between.
Within(at) == at # 0 /\ updatedAt - at < PreemptionWindow
CriticalForCause ==
  /\ Admit[pressure] > 5 => snapshot = "full" \/ Within(causeAt)
  /\ snapshot # "invalid" /\ Within(owedAt) => Admit[pressure] > 5

TypeOK ==
  /\ clock \in Nat \ {0} /\ {causeAt, owedAt, preemptedAt, updatedAt} \subseteq 0 .. clock
  /\ {count, lastPreemption} \subseteq Nat
  /\ load \in {"low", "high", "full"} /\ snapshot \in {"low", "high", "full", "invalid"}
  /\ swaps \in {"none", "counted", "hidden"} /\ pressure \in DOMAIN Admit
  /\ {failures, begun} \subseteq BOOLEAN

\* The verdict is that of the last Update, and what it takes for the last preemption
\* lies between the swap it had to see and the last one there was.
Judged ==
  /\ snapshot = "invalid" => pressure = "unknown"
  /\ snapshot # "invalid" => (pressure = "critical" <=> snapshot = "full" \/ Within(preemptedAt))
  /\ owedAt <= preemptedAt /\ preemptedAt <= causeAt

\* What a sample will tell of the backend since the last one.
Telling ==
  begun => /\ updatedAt # 0
           /\ swaps = "none" => count = lastPreemption
           /\ swaps = "counted" => count > lastPreemption

IInv == TypeOK /\ Judged /\ Telling
=============================================================================
