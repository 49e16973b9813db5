------------------------------ MODULE Lifecycle ------------------------------
(***************************************************************************)
(* internal/lifecycle with its callers: a gateway process that is asked to *)
(* stop.  Phase one keeps serving, phase two turns new requests away and   *)
(* waits for those in flight, phase three saves what the budgets have      *)
(* spent; the next process loads it.  A process can be killed at any step. *)
(*                                                                         *)
(* A request looks at the gate first and is counted later, when its body   *)
(* was read.  It is charged to a budget before it leaves the count; the    *)
(* last one to leave closes the channel that the shutdown may wait on.     *)
(***************************************************************************)
EXTENDS Naturals, FiniteSets

CONSTANTS Requests,
          Polls,      \* poll intervals in the grace period
          MaxSpent,   \* bound on what requests may cost
          MaxRuns,    \* bound on the processes
          None, Half  \* no file, and one that was not written to its end

VARIABLES
  phase,    \* 0 serving, 1 draining, 2 closing, 3 stopped
  job,      \* where Shutdowner.Run is; "off" before the signal, "down": no process
  polls,    \* intervals left until the deadline
  total,    \* Tracker.total
  zero,     \* zeroCh is closed
  at,       \* where a request is
  graceful, \* Result.Graceful
  spent,    \* what the budgets in memory have recorded
  snap,     \* the snapshot in memory
  tmp,      \* the temporary file: None, Half or a snapshot
  file,     \* the state file: None or a snapshot
  old,      \* it is older than an hour
  runs,
  truth,    \* history: what the requests really cost
  late,     \* history: requests counted after the gate was shut
  clean     \* history: every stop so far was graceful, saved and in time

server == <<phase, job, polls, total, zero, graceful, runs>>
disk   == <<tmp, file, old>>
ledger == <<spent, snap, truth>>
vars   == <<server, disk, ledger, at, late, clean>>

Init ==
  /\ phase = 0 /\ job = "off" /\ polls = 0 /\ total = 0 /\ zero = FALSE
  /\ at = [r \in Requests |-> "idle"] /\ graceful = TRUE
  /\ spent = 0 /\ snap = None /\ tmp = None /\ file = None /\ old = FALSE
  /\ runs = 1 /\ truth = 0 /\ late = {} /\ clean = TRUE

Move(r, there) == at' = [at EXCEPT ![r] = there]
Job(from, to)  == job = from /\ job' = to

-----------------------------------------------------------------------------
\* A request.  AcceptingNew is looked at when the listener is still open.
Healthy      == phase = 0
AcceptingNew == phase \in {0, 1}

Arrive(r) ==
  /\ at[r] = "idle" /\ job \notin {"close", "down"}
  /\ AcceptingNew /\ Move(r, "gated")
  /\ UNCHANGED <<server, disk, ledger, late, clean>>

BadBody(r) ==
  /\ at[r] = "gated" /\ Move(r, "idle")
  /\ UNCHANGED <<server, disk, ledger, late, clean>>

Enter(r) ==
  /\ at[r] = "gated" /\ Move(r, "in")
  /\ total' = total + 1
  /\ late' = IF AcceptingNew THEN late ELSE late \cup {r}
  /\ UNCHANGED <<phase, job, polls, zero, graceful, runs, disk, ledger, clean>>

Charge(r) ==
  /\ at[r] = "in" /\ Move(r, "charged") /\ truth < MaxSpent
  /\ spent' = spent + 1 /\ truth' = truth + 1
  /\ UNCHANGED <<server, disk, snap, late, clean>>

\* Done: the count first, then, if it was the last one, the channel.
Uncounted(r) ==
  /\ total' = total - 1
  /\ Move(r, IF total' = 0 THEN "signal" ELSE "idle")
Leave(r) ==
  /\ at[r] \in {"in", "charged"} /\ Uncounted(r)
  /\ UNCHANGED <<phase, job, polls, zero, graceful, runs, disk, ledger, late, clean>>

SignalZero(r) ==
  /\ at[r] = "signal" /\ Move(r, "idle") /\ zero' = TRUE
  /\ UNCHANGED <<phase, job, polls, total, graceful, runs, disk, ledger, late, clean>>

Request(r) ==
  Arrive(r) \/ BadBody(r) \/ Enter(r) \/ Charge(r) \/ Leave(r) \/ SignalZero(r)

-----------------------------------------------------------------------------
\* Shutdowner.Run.  State.Advance only goes forward.
Advance(p) == phase' = IF p > phase THEN p ELSE phase
Waiting == UNCHANGED <<disk, ledger, at, late, clean, total, graceful, runs>>

Term  == Job("off", "drain") /\ Advance(1) /\ UNCHANGED <<polls, zero>> /\ Waiting
Close == Job("drain", "look") /\ Advance(2) /\ UNCHANGED <<polls, zero>> /\ Waiting

Look ==
  /\ IF total > 0 THEN Job("look", "wait") /\ polls' = Polls
                  ELSE Job("look", "check") /\ UNCHANGED polls
  /\ UNCHANGED <<phase, zero>> /\ Waiting

DeadlineAtZero ==   \* mutant: the streams decide when the wait ends
  Job("wait", "check") /\ polls = 0 /\ total = 0 /\ UNCHANGED <<phase, polls, zero>> /\ Waiting
Deadline == Job("wait", "check") /\ polls = 0 /\ UNCHANGED <<phase, polls, zero>> /\ Waiting

\* WaitZero: look, make a new channel, look again, then wait for it or the time.
ResetZero ==
  /\ polls > 0
  /\ \/ total = 0 /\ Job("wait", "check") /\ UNCHANGED zero
     \/ total > 0 /\ Job("wait", "armed") /\ zero' = FALSE
  /\ UNCHANGED <<phase, polls>> /\ Waiting

LookAgain ==
  /\ IF total = 0 THEN Job("armed", "check") ELSE Job("armed", "select")
  /\ UNCHANGED <<phase, polls, zero>> /\ Waiting

Woken    == Job("select", "check") /\ zero /\ UNCHANGED <<phase, polls, zero>> /\ Waiting
TimerRan == Job("select", "wait") /\ polls' = polls - 1 /\ UNCHANGED <<phase, zero>> /\ Waiting

Check ==
  /\ Job("check", "collect")
  /\ graceful' = (total = 0) /\ Advance(3)
  /\ UNCHANGED <<polls, total, zero, runs, disk, ledger, at, late, clean>>

Collect ==
  /\ Job("collect", "write") /\ snap' = spent
  /\ UNCHANGED <<phase, polls, total, zero, graceful, runs, disk, spent, truth, at, late, clean>>

\* FileStore.Save: the whole of a temporary file, then a rename.  Either fails.
SaveFails ==
  /\ \/ Job("write", "close") /\ tmp' \in {tmp, Half}
     \/ Job("rename", "close") /\ tmp' = None
  /\ clean' = FALSE
  /\ UNCHANGED <<phase, polls, total, zero, graceful, runs, file, old, ledger, at, late>>

WriteInPlace ==   \* mutant: no temporary file
  /\ Job("write", "rename") /\ tmp' = snap /\ file' = Half
  /\ UNCHANGED <<phase, polls, total, zero, graceful, runs, old, ledger, at, late, clean>>
Write ==
  /\ Job("write", "rename") /\ tmp' = snap
  /\ UNCHANGED <<phase, polls, total, zero, graceful, runs, file, old, ledger, at, late, clean>>

Rename ==
  /\ Job("rename", "close") /\ file' = tmp /\ tmp' = None /\ old' = FALSE
  /\ UNCHANGED <<phase, polls, total, zero, graceful, runs, ledger, at, late, clean>>

\* The process ends and everything in memory with it.
Gone ==
  /\ job' = "down" /\ at' = [r \in Requests |-> "idle"] /\ total' = 0
  /\ spent' = 0 /\ snap' = None
  /\ UNCHANGED <<phase, polls, zero, graceful, runs, file, old, truth, late>>

\* Server.Shutdown returns, with or without the last connections.
Exit ==
  /\ job = "close" /\ Gone
  /\ clean' = (clean /\ graceful /\ late = {})
  /\ UNCHANGED tmp

Kill ==
  /\ job # "down" /\ Gone
  /\ clean' = FALSE
  /\ tmp' \in {tmp} \cup (IF job = "write" THEN {Half} ELSE {})

HourPasses ==
  /\ job = "down" /\ file # None /\ ~old /\ old' = TRUE
  /\ clean' = FALSE
  /\ UNCHANGED <<server, tmp, file, ledger, at, late>>

\* The next process: restoreState, before the listener is opened.
Started(from) ==
  /\ job = "down" /\ runs < MaxRuns /\ runs' = runs + 1
  /\ job' = "off" /\ phase' = 0 /\ polls' = 0 /\ zero' = FALSE
  /\ graceful' = TRUE /\ late' = {} /\ spent' = from
  /\ UNCHANGED <<total, disk, snap, truth, at>>
Restart     == Started(IF file = None \/ old THEN 0 ELSE file) /\ UNCHANGED clean
RestartBlank == file # None /\ Started(0) /\ clean' = FALSE   \* another version's file

ShutdownStep ==
  \/ Close \/ Look \/ Deadline \/ ResetZero \/ LookAgain \/ Woken \/ TimerRan
  \/ Check \/ Collect \/ SaveFails \/ Write \/ Rename \/ Exit

Next ==
  \/ \E r \in Requests : Request(r)
  \/ Term \/ ShutdownStep \/ Kill \/ HourPasses \/ Restart \/ RestartBlank

Spec == Init /\ [][Next]_vars
FairSpec == Spec /\ WF_vars(ShutdownStep)

-----------------------------------------------------------------------------
Counted   == {r \in Requests : at[r] \in {"in", "charged"}}
Files     == {None} \cup 0 .. truth
Waits     == {"look", "wait", "armed", "select", "check"}
PastCheck == {"collect", "write", "rename", "close"}

\* The state file is never half a snapshot and never says more than was spent: a
\* kill leaves the old file or the new one.
TypeOK ==
  /\ phase \in 0 .. 3 /\ polls \in 0 .. Polls
  /\ job \in {"off", "drain", "down"} \cup Waits \cup PastCheck
  /\ at \in [Requests -> {"idle", "gated", "in", "charged", "signal"}]
  /\ {zero, graceful, old, clean} \subseteq BOOLEAN /\ late \subseteq Requests
  /\ truth \in Nat /\ spent \in 0 .. truth
  /\ file \in Files /\ snap \in Files /\ tmp \in Files \cup {Half}

\* The count is the number of requests between Enter and Done, and of a process that
\* is down there are none; the phase is the one Run has reached.
CountHolds == total = Cardinality(Counted) /\ (job = "down" => at = [r \in Requests |-> "idle"])
PhaseOfJob ==
  /\ job = "off" => phase = 0
  /\ job = "drain" => phase = 1
  /\ job \in Waits => phase = 2
  /\ job \in PastCheck => phase = 3
  /\ job \in {"armed", "select"} => polls > 0
  /\ job = "rename" => tmp = snap

\* Once the wait has ended with nobody left, only those who slipped in are counted;
\* without them the snapshot, and then the file, is all that was spent.
Settled ==
  /\ graceful /\ job \in PastCheck => Counted \subseteq late
  /\ clean => IF job = "down" THEN file = truth /\ ~old ELSE spent = truth
  /\ clean /\ graceful /\ late = {} =>
       /\ job \in {"write", "rename"} => snap = truth
       /\ job = "close" => file = truth /\ ~old

IInv == TypeOK /\ CountHolds /\ PhaseOfJob /\ Settled

\* What the budgets spent survives a restart: as long as every stop was graceful,
\* saved and less than an hour ago, and nobody slipped in behind the gate, the
\* process knows every cent ("restart, forget the $480 already spent, and
\* spend another $500", main.go:466).
BudgetKept == clean /\ job # "down" => spent = truth

\* A stop that was asked for ends, however long the streams are.
Stops == job = "drain" ~> job = "down"

\* "true means it has gracefully reached zero" (tracker.go): the wait is over
\* before the deadline only when nobody who was let in is being abandoned.
WaitedOut == job = "check" /\ polls > 0 => Counted \subseteq late
=============================================================================
