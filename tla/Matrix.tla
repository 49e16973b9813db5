------------------------------- MODULE Matrix -------------------------------
(***************************************************************************)
(* pii/anonymize matrix_yaml.go, matrix.go, strategy.go, generalize.go: the*)
(* redaction matrix of a deployment, from its configuration to what leaves *)
(* for one value.  A flow has a strategy for names, or a default for them  *)
(* too.  A strategy is a record of its name and its own options.           *)
(***************************************************************************)
EXTENDS Naturals, Sequences, FiniteSets

VARIABLES
  stage,     \* "load", "refused", "ready", "blocked", "sent"
  flows,     \* destination -> [default, name, restores]
  ontology,  \* term -> hypernym
  sent       \* [dest, type, value, out], once there is something

vars == <<stage, flows, ontology, sent>>

Names       == {"mask", "tokenize", "char_mask", "hash", "drop", "generalize"}
Reversible(name) == name \in {"mask", "tokenize"}

\* Values, and what stands for one: a value too where it says what it says.
Originals   == {"li", "acme", "ACME", "1995", "1995-10-24"}
Runes(v) == CASE v = "li" -> 2 [] v = "1995-10-24" -> 10 [] OTHER -> 4
Year(v)  == IF v \in {"1995", "1995-10-24"} THEN "1995" ELSE "none"
Folded(v) == IF v = "ACME" THEN "acme" ELSE v

-----------------------------------------------------------------------------
\* MatrixConfig: one flow or two, options, and what the process can offer (MatrixDeps).
\* "typo" is no strategy, "" says nothing.
Destinations == {"llm", "export"}
FlowConfigs  == [dest : {"llm", "export", ""}, restores : BOOLEAN, default : Names \cup {"", "typo"},
                 name : Names \cup {"", "typo"}]
Export       == [dest |-> "export", restores |-> FALSE, default |-> "hash", name |-> ""]
Options      == [keep : {0, 2}, digits : {0, 7}, granularity : {"", "year", "century"},
                 fallback : {"", "char_mask", "mask", "generalize"}]
Deps         == {d \in SUBSET {"keyring", "store", "ontology"} : Cardinality(d) >= 2}

\* LoadOntology.
Hypernyms  == {"acme", "ACME", "company"}
Ontologies == {o \in UNION {[t -> Hypernyms] : t \in SUBSET {"acme", "ACME"}} :
                 DOMAIN o # {} /\ \A term \in DOMAIN o : o[term] # term}
NoOntology == [term \in {} |-> ""]

\* MatrixOptions.build, but for generalize; NewCharMask, NewHash, NewTokenize.
NoStrategy == [name |-> "none"]
Basic(name, o, deps) ==
  CASE name \in {"mask", "drop"} -> [name |-> name]
    [] name = "char_mask" -> [name |-> name, keep |-> o.keep]
    [] name = "hash" /\ "keyring" \in deps /\ o.digits \in {0, 8} -> [name |-> name]
    [] name = "tokenize" /\ "store" \in deps -> [name |-> name]
    [] OTHER -> NoStrategy
\* NewGeneralize: never itself as what it falls back on.
Default(x, d) == IF x = "" THEN d ELSE x
Generalize(o, deps) ==
  LET fallback    == Basic(Default(o.fallback, "drop"), o, deps)
      granularity == Default(o.granularity, "decade") IN
  IF "ontology" \in deps /\ fallback # NoStrategy /\ granularity \in {"year", "decade"}
  THEN [name |-> "generalize", granularity |-> granularity, fallback |-> fallback]
  ELSE NoStrategy
Built(name, o, deps) == IF name = "generalize" THEN Generalize(o, deps) ELSE Basic(name, o, deps)

\* The problems that MatrixConfig.build collects, and those of Matrix.Add.
Used(f) == {f.default, f.name} \ {""}
Problem(f) ==
  \/ f.dest = "" \/ f.default = "" \/ ~(Used(f) \subseteq Names)
  \/ f.restores /\ \E name \in Used(f) : ~Reversible(name)
Flow(f, o, deps) ==
  [restores |-> f.restores, default |-> Built(f.default, o, deps),
   name |-> Built(Default(f.name, f.default), o, deps)]
Add(flow) ==
  /\ NoStrategy \notin {flow.default, flow.name}
  /\ flow.restores => Reversible(flow.default.name) /\ Reversible(flow.name.name)

LoadMatrix ==
  /\ stage = "load"
  /\ \E f \in FlowConfigs, others \in SUBSET {Export}, o \in Options, deps \in Deps :
       LET all    == {f} \cup others
           built  == [d \in {g.dest : g \in all} |-> Flow(CHOOSE g \in all : g.dest = d, o, deps)] IN
       IF \/ \E g \in all : Problem(g)
          \/ Cardinality(DOMAIN built) # Cardinality(all)   \* one destination twice
          \/ \E d \in DOMAIN built : ~Add(built[d])
       THEN stage' = "refused" /\ UNCHANGED <<flows, ontology>>
       ELSE /\ stage' = "ready" /\ flows' = built
            /\ ontology' \in IF \E g \in all : "generalize" \in Used(g)
                             THEN Ontologies ELSE {NoOntology}
  /\ UNCHANGED sent

-----------------------------------------------------------------------------
\* Apply, of each strategy: what stands for the value, or "fails".
TailAll(keep, runes)    == keep > runes    \* mutant: off by one
ShowsAll(keep, runes)   == keep >= runes
Lookup(v) ==
  IF v \in DOMAIN ontology THEN {ontology[v]}
  ELSE {ontology[t] : t \in {t \in DOMAIN ontology : Folded(t) = Folded(v)}}   \* of a Go map
CharMask(s, v) ==
  IF ShowsAll(s.keep, Runes(v)) THEN "fails"
  ELSE IF s.keep = Runes(v) THEN v   \* the stars of none and the tail of all
  ELSE "masked"
ApplyBasic(s, v, vault) ==
  CASE s.name = "mask" -> IF vault THEN {"placeholder"} ELSE {"fails"}
    [] s.name = "tokenize" -> {"token", "fails"}   \* the store may be down
    [] s.name = "hash" -> {"digest"}
    [] s.name = "drop" -> {"nothing"}
    [] s.name = "char_mask" -> {CharMask(s, v)}
GeneralizeDate(s, v) == IF s.granularity = "year" THEN Year(v) ELSE "decade"
Apply(s, v, vault) ==
  IF s.name # "generalize" THEN ApplyBasic(s, v, vault)
  ELSE IF Year(v) # "none" THEN {GeneralizeDate(s, v)}
  ELSE IF Lookup(v) # {} THEN Lookup(v)
  ELSE ApplyBasic(s.fallback, v, vault)
Strategy(flow, type) == IF type = "NAME" THEN flow.name ELSE flow.default

\* RedactTo, for one value; a destination that no flow is for is refused.
Redact ==
  /\ stage = "ready"
  /\ \E dest \in Destinations, type \in {"NAME", "OTHER"}, v \in Originals, vault \in BOOLEAN :
       IF dest \notin DOMAIN flows THEN stage' = "blocked" /\ UNCHANGED sent
       ELSE \E out \in Apply(Strategy(flows[dest], type), v, vault) :
              /\ stage' = IF out = "fails" THEN "blocked" ELSE "sent"
              /\ sent' = {[dest |-> dest, type |-> type, value |-> v, vault |-> vault, out |-> out]}
  /\ UNCHANGED <<flows, ontology>>

Init == stage = "load" /\ flows = <<>> /\ ontology = NoOntology /\ sent = {}
Next == LoadMatrix \/ Redact
Spec == Init /\ [][Next]_vars

-----------------------------------------------------------------------------
\* No value that was found leaves as it was, whatever matrix was accepted, but a year
\* where years are kept and a word that the ontology only respells.  A flow that
\* restores sends what can be resolved.  And what was accepted does its work: a value
\* is blocked for want of a vault, by the store, or as too short to mask.
Respelt(s)   == \E t \in DOMAIN ontology : Folded(t) = Folded(ontology[t]) /\ ontology[t] = s.value
KeepsYear(s) == s.value = "1995" /\ Strategy(flows[s.dest], s.type).name = "generalize"
NoneAsIs ==
  \A s \in sent :
    /\ stage = "sent" => s.out # s.value \/ Respelt(s) \/ KeepsYear(s)
    /\ stage = "sent" /\ flows[s.dest].restores => s.out \in {"placeholder", "token"}
    /\ stage = "blocked" =>
         LET by == Strategy(flows[s.dest], s.type)
             last == IF by.name = "generalize" THEN by.fallback ELSE by IN
         \/ last.name = "tokenize"
         \/ last.name = "mask" /\ ~s.vault
         \/ last.name = "char_mask" /\ Runes(s.value) <= last.keep
=============================================================================
