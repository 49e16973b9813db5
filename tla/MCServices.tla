----------------------------- MODULE MCServices -----------------------------
(* The services round a request; each behaviour is of one of them.          *)
(*   limiter: three buckets of two ticks and a quota of three tokens, with  *)
(*     room for two of three requests; reservations that end within the     *)
(*     window, or that outlive it.                                          *)
(*   lifecycle: two requests, one poll interval, two processes.             *)
(*   gpu: a backend that swaps up to three times within four seconds. *)
(*   affinity: two replicas with one and two virtual nodes, and three       *)
(*     requests; credentials: two requests, a secret that is replaced once  *)
(*     or taken away, and headers that a policy could name; cpu: quotas up  *)
(*     to three CPUs over four periods; routing: three rules of two         *)
(*     priorities, or one rule and every slip of a file, and six requests.  *)
EXTENDS Limiter, FiniteSets, Sequences

CONSTANTS Handlers,   \* requests in a process, or on their way to a backend
          Polls, MaxSpent, MaxRuns, Half, PreemptionWindow, MaxSecond, MaxCount, Members, a, b,
          HeaderOf, Copied, Policies, SecretTTL, MaxDay, MaxVersion, MaxCpus, MaxPeriods,
          RingNodes, Globs, Configs, Headers

ASSUME ServicesAssumption ==
  /\ IsFiniteSet(Handlers) /\ Polls \in Nat
  /\ None \notin Nat /\ Half \notin Nat /\ None # Half
  /\ PreemptionWindow \in Nat
  /\ SecretTTL \in Nat /\ MaxDay \in Nat /\ MaxVersion \in Nat \ {0}
  /\ IsFiniteSet(Members) /\ None \notin Members
  /\ RingNodes \in Seq(Members) /\ \A m \in Members : \E k \in DOMAIN RingNodes : RingNodes[k] = m

Targets == [name : STRING, tier : Int, weight : Int]
Rules   == [name : STRING, tier : Int, apps : SUBSET STRING, tasks : SUBSET STRING,
            tenants : SUBSET STRING, min : Int, prefer : SUBSET STRING, priority : Int]
ASSUME ConfigsAssumption == \A c1 \in Configs :
  /\ DOMAIN c1 = {"targets", "rules", "budgets"}
  /\ c1.targets \in Seq(Targets) /\ c1.rules \in Seq(Rules)

VARIABLES service,
  phase, job, polls, total, zero, at, graceful, budget, snap, tmp, file, old, runs,
    truth, late, clean,
  load, count, swaps, causeAt, owedAt, snapshot, updatedAt, lastPreemption,
    preemptedAt, pressure, failures, begun, second,
  loads, sum, picked, place, look, squeezed,
  version, since, cache, policy, stage, read, started, out, used, day,
  quota, procs, mode, booted, periods, throttled, last, sampled, throttling, base,
    blank, wrong,
  config, position, rules, outer, inner, exhausted, id, decision

lifecycleVars  == <<phase, job, polls, total, zero, at, graceful, budget, snap, tmp,
                    file, old, runs, truth, late, clean>>
gpuVars        == <<load, count, swaps, causeAt, owedAt, snapshot, updatedAt,
                    lastPreemption, preemptedAt, pressure, failures, begun, second>>
affinityVars   == <<loads, sum, picked, place, look, squeezed>>
credentialVars == <<version, since, cache, policy, stage, read, started, out, used, day>>
cpuVars        == <<quota, procs, mode, booted, periods, throttled, last, sampled,
                    throttling, base, blank, wrong>>
routingVars    == <<config, position, rules, outer, inner, exhausted, id, decision>>

-----------------------------------------------------------------------------
HeaderKinds == [Auth |-> "cred", ApiKey |-> "cred", Version |-> "plain", Token |-> "plain"]
Stated      == {[expected |-> "Auth", static |-> {"Version"}],
                [expected |-> "Auth", static |-> {"ApiKey"}],
                [expected |-> "Token", static |-> {}]}

RingOrder   == <<a, b, b>>

\* Configurations with three rules, and with one rule and a slip or none.
SomeGlobs == [any |-> {"unknown", "agent", "agent-batch"}, batch |-> {"agent-batch"}]
Target(name, tier, weight) == [name |-> name, tier |-> tier, weight |-> weight]
Premium == Target("premium", 1, 0)
Local   == Target("local", 2, 100)
Rule(name, tier, priority) ==
  [name |-> name, tier |-> tier, apps |-> {}, tasks |-> {}, tenants |-> {}, min |-> 0,
   prefer |-> {}, priority |-> priority]
Sound(rule) ==
  {[rule EXCEPT !.apps = {"any"}], [rule EXCEPT !.apps = {"batch"}, !.prefer = {"local"}],
   [rule EXCEPT !.tenants = {"default"}, !.min = 6], [rule EXCEPT !.tasks = {"planning", "unknown"}]}
FromSix == [Rule("r", 1, 0) EXCEPT !.min = 6]
OneRule == Sound(Rule("r", 1, 0)) \cup
  {Rule("r", 1, 0), FromSix, [FromSix EXCEPT !.min = 10], [FromSix EXCEPT !.apps = {"["}],
   [FromSix EXCEPT !.name = ""], [FromSix EXCEPT !.tier = 0], [FromSix EXCEPT !.tier = 3]}
SomeTargets == {<<>>, <<Premium>>, <<Local>>, <<Premium, Local>>, <<Local, Local>>,
  <<Target("", 1, 1)>>, <<Target("premium", 0, 1)>>, <<Target("premium", 1, -1)>>, <<Target("premium", 3, 1)>>}
SomeBudgets == {[t \in {} |-> 0], [t \in {1} |-> 1], [t \in {1, 2} |-> 1], [t \in {1, 2} |-> t - 1]}
SomeConfigs ==
  [targets : SomeTargets, rules : {<<rule>> : rule \in OneRule}, budgets : SomeBudgets]
    \cup [targets : {<<Premium, Local>>}, budgets : {[t \in {1} |-> 1]},
          rules : {<<x, y, z>> : x \in Sound(Rule("r", 1, 1)), z \in Sound(Rule("t", 2, 0)),
                                 y \in Sound(Rule("s", 2, 1)) \cup Sound(Rule("s", 2, 0))}]
Header(app, task, tenant, tier, priority) ==
  [app |-> app, task |-> task, tenant |-> tenant, tier |-> tier, priority |-> priority]
SomeHeaders ==
  {Header("", "", "", 0, {}), Header("agent-batch", "planning", "t1", 0, {12}),
   Header("agent", "rerank", "default", 2, {-1}), Header("team/agent", "drawing", "", 3, {7}),
   Header("agent", "reasoning", "t1", -1, {0}), Header("team/agent", "rerank", "t1", 1, {})}

Process     == INSTANCE Lifecycle WITH spent <- budget, Requests <- Handlers
Gpu         == INSTANCE Admission WITH clock <- second, MaxTime <- MaxSecond
Ring        == INSTANCE Affinity WITH
  total <- sum, at <- place, Reqs <- Requests, Nodes <- RingNodes, Num <- 5, Den <- 4,
  NoMember <- None
Secrets     == INSTANCE Credentials WITH
  clock <- day, at <- stage, Reqs <- Handlers, Headers <- HeaderOf, TTL <- SecretTTL,
  MaxTime <- MaxDay
Cpu         == INSTANCE CpuLimit
Routing     == INSTANCE RoutingRules WITH stage <- position, i <- outer, j <- inner

-----------------------------------------------------------------------------
\* The services that a behaviour is not of stay as they began, in one state.
ServicesInit ==
  /\ service \in {"limiter", "lifecycle", "gpu", "affinity", "credentials", "cpu", "routing"}
  /\ Init /\ Process!Init /\ Gpu!Init /\ Ring!Init /\ Secrets!Init /\ Cpu!Init
  /\ service # "gpu" => count = 0
  /\ service # "credentials" => policy = CHOOSE p \in Policies : TRUE
  /\ service # "cpu" => quota = 0 /\ procs = 1 /\ mode = "up"
  /\ Routing!Init
  /\ service # "routing" => config = [targets |-> <<>>, rules |-> <<Rule("r", 1, 0)>>, budgets |-> [t \in {} |-> 0]]

ServicesNext ==
  /\ UNCHANGED service
  /\ \/ /\ service = "limiter" /\ Next
        /\ UNCHANGED <<lifecycleVars, gpuVars, affinityVars, credentialVars, cpuVars, routingVars>>
     \/ /\ service = "lifecycle" /\ Process!Next
        /\ UNCHANGED <<vars, gpuVars, affinityVars, credentialVars, cpuVars, routingVars>>
     \/ /\ service = "gpu" /\ Gpu!Next
        /\ UNCHANGED <<vars, lifecycleVars, affinityVars, credentialVars, cpuVars, routingVars>>
     \/ /\ service = "affinity" /\ Ring!Next
        /\ UNCHANGED <<vars, lifecycleVars, gpuVars, credentialVars, cpuVars, routingVars>>
     \/ /\ service = "credentials" /\ Secrets!Next
        /\ UNCHANGED <<vars, lifecycleVars, gpuVars, affinityVars, cpuVars, routingVars>>
     \/ /\ service = "cpu" /\ Cpu!Next
        /\ UNCHANGED <<vars, lifecycleVars, gpuVars, affinityVars, credentialVars, routingVars>>
     \/ /\ service = "routing" /\ Routing!Next
        /\ UNCHANGED <<vars, lifecycleVars, gpuVars, affinityVars, credentialVars, cpuVars>>

\* The clock of the limiter moves on and the process that shuts down goes on.
allVars == <<service, vars, lifecycleVars, gpuVars, affinityVars, credentialVars, cpuVars, routingVars>>
Swept   == /\ service = "limiter" /\ Sweep
           /\ UNCHANGED <<service, lifecycleVars, gpuVars, affinityVars, credentialVars, cpuVars, routingVars>>
Stopped == /\ service = "lifecycle" /\ Process!ShutdownStep
           /\ UNCHANGED <<service, vars, gpuVars, affinityVars, credentialVars, cpuVars, routingVars>>
ServicesSpec ==
  ServicesInit /\ [][ServicesNext]_allVars /\ WF_allVars(Swept) /\ WF_allVars(Stopped)

\* A stop keeps the count, the file and the budgets (Lifecycle.IInv, BudgetKept).
BudgetKept == Process!IInv /\ Process!BudgetKept
\* A stop that was asked for ends (Lifecycle.Stops).
Stops == Process!Stops
\* A request goes to the tier that the configuration says, and to no full replica
\* beside one with room all through the Pick (RoutingRules.RoutedAsConfigured, Affinity.Spread).
Spread == Ring!Spread /\ Routing!RoutedAsConfigured
\* What a request leaves with, is refused for or is throttled by is what the backend,
\* the operator and the kernel really did (Admission.CriticalForCause,
\* Credentials.NoForeignCredential, CpuLimit.ThrottlingBacked, and their IInv).
ReadingsBacked ==
  /\ Gpu!IInv /\ Gpu!CriticalForCause
  /\ Secrets!IInv /\ Secrets!NoForeignCredential
  /\ Cpu!IInv /\ Cpu!ThrottlingBacked
=============================================================================
