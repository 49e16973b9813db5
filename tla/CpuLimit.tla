------------------------------ MODULE CpuLimit ------------------------------
(***************************************************************************)
(* internal/cpulimit: GOMAXPROCS follows the CPU quota of the container,   *)
(* and a monitor tells from counters that the kernel keeps whether the     *)
(* container was throttled in the last interval.  Reads of the counters    *)
(* fail, or show the zeros of a file that is just being set up.            *)
(***************************************************************************)
EXTENDS Naturals

CONSTANTS MaxCpus,   \* bound on the quota, in halves of a CPU, and on the CPUs
          MaxPeriods \* bound on the kernel's counter

VARIABLES
  quota,     \* in halves of a CPU; 0: not limited
  procs,     \* GOMAXPROCS
  mode,      \* RoundDown, RoundUp, or --concurrency is given
  booted,    \* "start", "running", "blind": without a monitor
  periods, throttled,   \* the kernel's nr_periods and nr_throttled
  last, sampled,        \* Monitor: the last reading
  throttling,           \* what the proxy reads
  base,                 \* history: what nr_throttled really was at that reading
  blank,                \* history: Start took the zeros for its baseline
  wrong                 \* history: an interval was judged wrongly after a good one

vars == <<quota, procs, mode, booted, periods, throttled, last, sampled, throttling,
          base, blank, wrong>>

Init ==
  /\ quota \in 0 .. 2 * MaxCpus /\ procs \in 1 .. MaxCpus /\ mode \in {"down", "up", "flag"}
  /\ booted = "start" /\ periods = 0 /\ throttled = 0
  /\ last = [periods |-> 0, throttled |-> 0] /\ sampled = FALSE
  /\ throttling = FALSE /\ base = 0 /\ blank = FALSE /\ wrong = FALSE

\* setupCPULimits: the flag, else Recommend (whole CPUs, one at least) and Apply
\* where there are more than the quota allows.
Whole == IF mode = "up" THEN (quota + 1) \div 2 ELSE quota \div 2
Oversubscribed == quota > 0 /\ 2 * procs > quota
Recommended == IF Oversubscribed THEN {IF Whole < 1 THEN 1 ELSE Whole} ELSE {procs}
Concurrency == IF mode = "flag" THEN 1 .. MaxCpus ELSE Recommended

Readings == {[periods |-> periods, throttled |-> throttled], [periods |-> 0, throttled |-> 0]}

\* Then Start with a first reading, if it can be had.  It is not asked whether it
\* is plausible.
Start ==
  /\ booted = "start" /\ booted' = "running" /\ procs' \in Concurrency
  /\ \/ /\ sampled' = TRUE /\ last' \in Readings
        /\ base' = throttled /\ blank' = (last'.periods # periods)
     \/ UNCHANGED <<sampled, last, base, blank>>
  /\ UNCHANGED <<quota, mode, periods, throttled, throttling, wrong>>

\* DetectQuota fails, or finds no cgroup: no monitor.
Blind ==
  /\ booted = "start" /\ booted' = "blind"
  /\ \/ UNCHANGED procs
     \/ mode = "flag" /\ quota = 0 /\ procs' \in Concurrency
  /\ UNCHANGED <<quota, mode, periods, throttled, last, sampled, throttling, base, blank, wrong>>

\* The kernel, while it runs: a period with or without a freeze.
Period ==
  /\ periods < MaxPeriods /\ periods' = periods + 1
  /\ throttled' \in {throttled, throttled + 1}
  /\ UNCHANGED <<quota, procs, mode, booted, last, sampled, throttling, base, blank, wrong>>

\* plausible: the counters only grow.  A reading that fails, or shows less than
\* the last one, changes nothing.
plausibleAll(current) == TRUE   \* mutant
plausible(current) ==
  /\ current.periods > 0
  /\ sampled => current.periods >= last.periods /\ current.throttled >= last.throttled

Sample ==
  /\ booted = "running"
  /\ \E current \in Readings :
       /\ plausible(current) /\ last' = current /\ sampled' = TRUE
       /\ throttling' = (sampled /\ current.throttled > last.throttled)
  /\ wrong' = (wrong \/ (sampled /\ ~blank /\ throttling' # (throttled > base)))
  /\ base' = throttled /\ blank' = FALSE
  /\ UNCHANGED <<quota, procs, mode, booted, periods, throttled>>

Next == Start \/ Blind \/ Period \/ Sample
Spec == Init /\ [][Next]_vars

-----------------------------------------------------------------------------
\* The monitor says that the container was throttled in an interval if and only
\* if it was, whatever reads failed or showed zeros (unless the first reading of
\* all did: the counters since boot are then taken for one interval); and the
\* runtime gets no more than the quota rounded up, one CPU at least, unless the
\* operator says what it gets.
ThrottlingBacked ==
  /\ ~wrong
  /\ booted = "running" /\ mode # "flag" /\ quota > 0 => procs = 1 \/ 2 * procs < quota + 2

Reading == [periods : Nat, throttled : Nat]
TypeOK ==
  /\ quota \in Nat /\ procs \in Nat \ {0} /\ mode \in {"down", "up", "flag"}
  /\ booted \in {"start", "running", "blind"}
  /\ periods \in Nat /\ throttled \in 0 .. periods /\ last \in Reading /\ base \in Nat
  /\ {sampled, throttling, blank, wrong} \subseteq BOOLEAN

\* A baseline that was really read is what the counter then was.
Baseline ==
  /\ booted = "start" => ~sampled
  /\ sampled /\ ~blank => last.throttled = base

IInv == TypeOK /\ Baseline
=============================================================================
