---------------------------- MODULE RoutingRules ----------------------------
(***************************************************************************)
(* From a configuration to the tier of a request: internal/config defaults *)
(* and validates what is decoded, cmd/airlock-gateway/config.go builds the *)
(* policy, which checks it again and sorts its rules                       *)
(* (internal/routing/policy.go); internal/identity reads the headers of a  *)
(* request, and a header, the first rule that matches or the task picks    *)
(* the tier that the budgets may lower.                                    *)
(*                                                                         *)
(* A pattern for application names is what it matches (Globs), and is      *)
(* malformed when it is not there.  A header that is no number is taken    *)
(* for none: 0 for the tier, {} for the priority.  The checks of URLs,     *)
(* prices and credentials do not bear on the tier.                         *)
(***************************************************************************)
EXTENDS Integers, Sequences, FiniteSets

CONSTANTS Configs,   \* [targets, rules, budgets]
          Headers,   \* [app, task, tenant, tier, priority]
          Globs      \* what each well-formed pattern matches

VARIABLES
  config,     \* as decoded, then with its defaults
  stage,      \* "decoded", "accepted", "sorting", "serving", "decided"; "rejected", "refused"
  rules,      \* of the policy, while they are sorted and after
  i, j,       \* of the sort
  exhausted,  \* tiers whose budget is spent
  id,         \* of the request
  decision    \* [tier, reason, rule, prefer, from]

vars == <<config, stage, rules, i, j, exhausted, id, decision>>

NoId       == [app |-> "", task |-> "", tenant |-> "", hint |-> 0, priority |-> 0]
NoDecision == [tier |-> 0, reason |-> "", rule |-> "", prefer |-> {}, from |-> 0]

Init ==
  /\ config \in Configs /\ stage = "decoded" /\ rules = <<>> /\ i = 1 /\ j = 1
  /\ exhausted = {} /\ id = NoId /\ decision = NoDecision

Names(s)      == {s[k].name : k \in DOMAIN s}
Distinct(s)   == Cardinality(Names(s)) = Len(s)
TiersOf(c)    == {c.targets[k].tier : k \in DOMAIN c.targets}
WellFormed(r) == r.apps \subseteq DOMAIN Globs

-----------------------------------------------------------------------------
\* applyDefaults, then Validate.
Defaulted(c) ==
  [c EXCEPT !.targets = [k \in DOMAIN @ |->
    IF @[k].weight = 0 THEN [@[k] EXCEPT !.weight = 100] ELSE @[k]]]

ValidTargets(c) ==
  /\ c.targets # <<>> /\ "" \notin Names(c.targets) /\ Distinct(c.targets)
  /\ \A k \in DOMAIN c.targets : c.targets[k].tier # 0 /\ c.targets[k].weight >= 0
ValidRule(c, r) ==
  /\ r.tier \in TiersOf(c) \ {0}
  /\ WellFormed(r) /\ r.prefer \subseteq Names(c.targets) /\ r.min \in 0 .. 9
  /\ r.apps # {} \/ r.tasks # {} \/ r.tenants # {} \/ r.min # 0
ValidRules(c) ==
  /\ "" \notin Names(c.rules) /\ Distinct(c.rules)
  /\ \A k \in DOMAIN c.rules : ValidRule(c, c.rules[k])
ValidBudgets(c) == \A t \in DOMAIN c.budgets : t \in TiersOf(c) /\ c.budgets[t] > 0

Validate ==
  /\ stage = "decoded" /\ config' = Defaulted(config)
  /\ stage' = (IF ValidTargets(config') /\ ValidRules(config') /\ ValidBudgets(config')
               THEN "accepted" ELSE "rejected")
  /\ UNCHANGED <<rules, i, j, exhausted, id, decision>>

\* buildPolicy and NewPolicy; the chain is the default one.
FallbackChain == [tier \in {1} |-> 2]
Buildable ==
  /\ config.targets # <<>> /\ "" \notin Names(config.targets) /\ Distinct(config.targets)
  /\ \A k \in DOMAIN config.targets : config.targets[k].weight > 0
  /\ \A k \in DOMAIN config.rules :
       config.rules[k].prefer \subseteq Names(config.targets) /\ WellFormed(config.rules[k])
Build ==
  /\ stage = "accepted"
  /\ IF Buildable THEN stage' = "sorting" /\ rules' = config.rules
     ELSE stage' = "refused" /\ UNCHANGED rules
  /\ UNCHANGED <<config, i, j, exhausted, id, decision>>

\* stableSortRules.
NotLater == j > 1 /\ rules[j].priority <= rules[j - 1].priority   \* mutant: not stable
Earlier  == j > 1 /\ rules[j].priority < rules[j - 1].priority
Exchange ==
  /\ stage = "sorting" /\ j \in DOMAIN rules /\ Earlier
  /\ rules' = [rules EXCEPT ![j] = rules[j - 1], ![j - 1] = rules[j]] /\ j' = j - 1
  /\ UNCHANGED <<config, stage, i, exhausted, id, decision>>
TakeNext ==
  /\ stage = "sorting" /\ ~(j \in DOMAIN rules /\ Earlier)
  /\ IF i < Len(rules) THEN i' = i + 1 /\ j' = i + 1 /\ UNCHANGED stage
     ELSE stage' = "serving" /\ UNCHANGED <<i, j>>
  /\ UNCHANGED <<config, rules, exhausted, id, decision>>

-----------------------------------------------------------------------------
\* identity.FromHeaders.
KnownTasks == {"planning", "reasoning", "code_generation", "tool_orchestration", "extraction",
  "classification", "summarization", "translation", "rerank", "embedding_prep", "unknown"}
ParseTask(v) == IF v \in KnownTasks THEN v ELSE "unknown"
Clamp(n) == IF n < 0 THEN 0 ELSE IF n > 9 THEN 9 ELSE n
FromHeaders(h) ==
  [app |-> IF h.app = "" THEN "unknown" ELSE h.app, task |-> ParseTask(h.task),
   tenant |-> IF h.tenant = "" THEN "default" ELSE h.tenant, hint |-> h.tier,
   priority |-> IF h.priority = {} THEN 5 ELSE Clamp(CHOOSE n \in h.priority : TRUE)]

Matches(r, who) ==
  /\ r.apps = {} \/ \E pattern \in r.apps : who.app \in Globs[pattern]
  /\ r.tasks = {} \/ who.task \in r.tasks
  /\ r.tenants = {} \/ who.tenant \in r.tenants
  /\ who.priority >= r.min

TargetsOf(tier) == {k \in DOMAIN config.targets : config.targets[k].tier = tier}
DefaultTaskTier ==
  [task \in KnownTasks |->
    IF task \in {"planning", "reasoning", "code_generation", "tool_orchestration"} THEN 1 ELSE 2]

\* Resolve: the header, if its tier has a backend; the first rule; the task.
Resolve(who) ==
  LET hits == {k \in DOMAIN rules : Matches(rules[k], who)} IN
  IF who.hint > 0 /\ TargetsOf(who.hint) # {}
  THEN [NoDecision EXCEPT !.tier = who.hint, !.reason = "explicit_header"]
  ELSE IF hits # {}
  THEN LET r == rules[CHOOSE k \in hits : \A l \in hits : k <= l] IN
       [NoDecision EXCEPT !.tier = r.tier, !.reason = "rule", !.rule = r.name, !.prefer = r.prefer]
  ELSE [NoDecision EXCEPT !.tier = DefaultTaskTier[who.task], !.reason = "task_default"]

\* ApplyBudget: down the chain, past the tiers that are spent.
ApplyBudget(d) ==
  IF d.tier \in exhausted \cap DOMAIN FallbackChain
  THEN [d EXCEPT !.tier = FallbackChain[d.tier], !.from = d.tier]
  ELSE d

Exhaust(t) ==
  /\ stage = "serving" /\ t \in DOMAIN config.budgets \ exhausted
  /\ exhausted' = exhausted \cup {t}
  /\ UNCHANGED <<config, stage, rules, i, j, id, decision>>
Handle(h) ==
  /\ stage = "serving" /\ stage' = "decided"
  /\ id' = FromHeaders(h) /\ decision' = ApplyBudget(Resolve(id'))
  /\ UNCHANGED <<config, rules, i, j, exhausted>>

Next ==
  \/ Validate
  \/ Build
  \/ Exchange
  \/ TakeNext
  \/ \E t \in DOMAIN config.budgets : Exhaust(t)
  \/ \E h \in Headers : Handle(h)

Spec == Init /\ [][Next]_vars

-----------------------------------------------------------------------------
\* What validation accepts, the policy does not refuse; and each request goes where the
\* file says: a header decides before any rule, of the rules that match the one of
\* least priority, of those the first in the file, and a task only when none matches.
\* A tier asked for has a backend, and it is left for no reason but its budget.
First(k) ==
  LET hits == {l \in DOMAIN config.rules : Matches(config.rules[l], id)} IN
  /\ k \in hits
  /\ \A l \in hits : \/ config.rules[k].priority < config.rules[l].priority
                     \/ config.rules[k].priority = config.rules[l].priority /\ k <= l
Chosen == IF decision.from # 0 THEN decision.from ELSE decision.tier
RoutedAsConfigured ==
  /\ stage # "refused"
  /\ stage = "decided" =>
       /\ decision.reason = "rule" =>
            \E k \in DOMAIN config.rules :
              First(k) /\ config.rules[k].name = decision.rule /\ config.rules[k].tier = Chosen
       /\ decision.reason = "task_default" => \A k \in DOMAIN config.rules : ~First(k)
       /\ id.hint > 0 /\ TargetsOf(id.hint) # {} => decision.reason = "explicit_header" /\ Chosen = id.hint
       /\ decision.reason # "task_default" => TargetsOf(Chosen) # {}
       /\ decision.prefer \subseteq Names(config.targets)
       /\ decision.from # 0 => decision.from \in exhausted
=============================================================================
