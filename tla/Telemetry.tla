----------------------------- MODULE Telemetry -----------------------------
(***************************************************************************)
(* pii/telemetry and otelprocessor: a payload of traces, logs or metrics   *)
(* is walked and redacted where it stands, as OTLP/JSON ("json") or by the *)
(* Collector's processor ("pdata").  A payload is a sequence of resources, *)
(* a resource its values in the order of the walk: where a value stands,   *)
(* the keys above it (each a sequence of dotted parts), whether it is text,*)
(* and the text: a sequence of bytes in which p1 p2 is somebody's number   *)
(* and r1 r2 one rune.                                                     *)
(***************************************************************************)
EXTENDS Naturals, Sequences, SequencesExt

CONSTANTS Payloads, SkipKeys, MaxValueBytes

VARIABLES
  way,      \* "json", "pdata"
  batch,    \* resources: [tenant, values]
  config,   \* [tenant, attribute, failureMode] of the processor
  flow,     \* [default, byType]: operators
  at,       \* resource, and value in it
  tenant,   \* of the resource that is walked
  walkErr,
  truncated,
  state     \* "new", "refused", "resolving", "walking", "sent", "dropped"

vars == <<way, batch, config, flow, at, tenant, walkErr, truncated, state>>

-----------------------------------------------------------------------------
\* Where the walkers look.
Scoped(top, scope, items, parts) ==
  {<<top, "resource", "attributes">>, <<top, scope, "scope", "attributes">>}
    \cup {<<top, scope, items>> \o p : p \in parts}
SpanParts == {<<"name">>, <<"attributes">>, <<"status", "message">>, <<"events", "name">>,
              <<"events", "attributes">>, <<"links", "attributes">>}
LogParts  == {<<"body">>, <<"attributes">>}
Kinds     == {"gauge", "sum", "histogram", "exponentialHistogram", "summary"}
PointParts(exemplar) ==
  {<<k, "dataPoints", "attributes">> : k \in Kinds}
    \cup {<<k, "dataPoints", "exemplars", exemplar>> : k \in Kinds \ {"summary"}}
Places(exemplar) ==
  Scoped("resourceSpans", "scopeSpans", "spans", SpanParts)
    \cup Scoped("resourceLogs", "scopeLogs", "logRecords", LogParts)
    \cup Scoped("resourceMetrics", "scopeMetrics", "metrics", PointParts(exemplar))

\* The names under which OTLP/JSON may spell another.
Spelt == [resource_spans |-> "resourceSpans", resource_logs |-> "resourceLogs",
  resource_metrics |-> "resourceMetrics", scope_spans |-> "scopeSpans",
  scope_logs |-> "scopeLogs", scope_metrics |-> "scopeMetrics",
  instrumentationLibrarySpans |-> "scopeSpans", instrumentationLibraryLogs |-> "scopeLogs",
  instrumentationLibraryMetrics |-> "scopeMetrics", log_records |-> "logRecords",
  exponential_histogram |-> "exponentialHistogram", data_points |-> "dataPoints"]
CamelOnly(name) == name   \* mutant: one of the two spellings
Named(name)     == IF name \in DOMAIN Spelt THEN Spelt[name] ELSE name

JsonWalk(v)  == [i \in DOMAIN v.at |-> Named(v.at[i])] \in Places("attributes")
PdataWalk(v) == v.at \in Places("filteredAttributes")
Walked(v)    == v.isText /\ IF way = "json" THEN JsonWalk(v) ELSE PdataWalk(v)

\* The key of a field: its place's own, and the keys above the value, joined.
Own(place) ==
  CASE Last(place) = "message" -> <<"status", "message">>
    [] Last(place) = "body" -> <<"body">>
    [] Last(place) = "name" -> IF "events" \in ToSet(place) THEN <<"event", "name">> ELSE <<>>
    [] OTHER -> <<>>
Key(v) == Own(v.at) \o FlattenSeq(v.keys)
Skipped(v) == Key(v) # <<>> /\ Key(v) \in SkipKeys

-----------------------------------------------------------------------------
\* New: what telemetry may be redacted with.
MaskingOperators(f) == {f.default, f.byType} \cap {"mask"}
Refuses(f) == f.default = "none" \/ f.restores \/ MaskingOperators(f) # {}
Operators  == {"none", "hash", "drop", "mask"}
New ==
  /\ state = "new" /\ way = "json"
  /\ \E f \in [default : Operators, byType : Operators, restores : BOOLEAN] :
       IF Refuses(f) THEN state' = "refused" /\ UNCHANGED flow
       ELSE state' = "resolving" /\ flow' = [default |-> f.default, byType |-> f.byType]
  /\ UNCHANGED <<way, batch, config, at, tenant, walkErr, truncated>>

\* Config.Validate and build: hash or drop for everything, and a tenant from somewhere.
Build ==
  /\ state = "new" /\ way = "pdata"
  /\ \E c \in [tenant : {"", "own"}, attribute : BOOLEAN, failureMode : {"drop", "forward"}],
        strategy \in Operators :
       IF strategy \notin {"hash", "drop"} \/ (c.tenant = "" /\ ~c.attribute)
       THEN state' = "refused" /\ UNCHANGED <<config, flow>>
       ELSE /\ state' = "resolving" /\ config' = c
            /\ flow' = [default |-> strategy, byType |-> "none"]
  /\ UNCHANGED <<way, batch, at, tenant, walkErr, truncated>>

\* fail: the error, or none and the batch goes on as it is.
Failed == IF way = "pdata" /\ config.failureMode = "forward" THEN "sent" ELSE "dropped"
Resource == batch[at.resource]

\* tenantFor, at each resource; a caller of RedactOTLPJSON names one for all.
TenantFor(r) ==
  CASE way = "json" -> "caller"
    [] way = "pdata" /\ ~config.attribute -> config.tenant
    [] way = "pdata" /\ config.attribute -> IF r.tenant = "" THEN config.tenant ELSE r.tenant
Resolve ==
  /\ state = "resolving"
  /\ IF at.resource > Len(batch) THEN state' = "sent" /\ UNCHANGED tenant
     ELSE /\ tenant' = TenantFor(Resource)
          /\ state' = IF tenant' \in {"", "invalid"} THEN Failed ELSE "walking"
  /\ UNCHANGED <<way, batch, config, flow, at, walkErr, truncated>>

-----------------------------------------------------------------------------
\* truncateAtRune.
IsContinuation(b) == b = "r2"
TruncateAtRune(text) ==
  LET n == MaxValueBytes IN
  IF Len(text) <= n THEN text
  ELSE SubSeq(text, 1, IF IsContinuation(text[n + 1]) THEN n - 1 ELSE n)
Operator    == IF flow.byType # "none" THEN flow.byType ELSE flow.default
Replacement == CASE Operator = "hash" -> tenant   \* a digest under the tenant's key
                 [] Operator = "drop" -> "gone"
                 [] Operator = "mask" -> "minted"
Numbers(text)  == {i \in 1 .. Len(text) - 1 : text[i] = "p1" /\ text[i + 1] = "p2"}
Redacted(text) ==
  IF Numbers(text) = {} THEN text
  ELSE LET i == CHOOSE i \in Numbers(text) : TRUE   \* a text has one
       IN SubSeq(text, 1, i - 1) \o <<Replacement>> \o SubSeq(text, i + 2, Len(text))

\* Redact, a field at a time: after an error the walk goes on and changes nothing.
Field(v) ==
  \/ /\ Walked(v) /\ ~walkErr /\ ~Skipped(v) /\ v.text # <<>>
     /\ \/ /\ batch' = [batch EXCEPT ![at.resource].values[at.value].text =
                          Redacted(TruncateAtRune(v.text))]
           /\ truncated' = truncated + (IF Len(v.text) > MaxValueBytes THEN 1 ELSE 0)
           /\ UNCHANGED walkErr
        \/ walkErr' = TRUE /\ UNCHANGED <<batch, truncated>>
  \/ /\ ~Walked(v) \/ walkErr \/ Skipped(v) \/ v.text = <<>>
     /\ UNCHANGED <<batch, walkErr, truncated>>
Walk ==
  /\ state = "walking" /\ at.value <= Len(Resource.values)
  /\ Field(Resource.values[at.value]) /\ at' = [at EXCEPT !.value = @ + 1]
  /\ UNCHANGED <<way, config, flow, tenant, state>>
EndOfResource ==
  /\ state = "walking" /\ at.value > Len(Resource.values)
  /\ at' = [resource |-> at.resource + 1, value |-> 1]
  /\ state' = IF walkErr THEN Failed ELSE "resolving"
  /\ UNCHANGED <<way, batch, config, flow, tenant, walkErr, truncated>>

Init ==
  /\ \E p \in Payloads : way = p.way /\ batch = p.batch
  /\ config = [tenant |-> "", attribute |-> FALSE, failureMode |-> "drop"]
  /\ flow = [default |-> "none", byType |-> "none"]
  /\ at = [resource |-> 1, value |-> 1] /\ tenant = "" /\ walkErr = FALSE /\ truncated = 0
  /\ state = "new"

Next == New \/ Build \/ Resolve \/ Walk \/ EndOfResource
Spec == Init /\ [][Next]_vars

-----------------------------------------------------------------------------
\* Nobody's number leaves whole but in a value whose full key is on the skip list, in
\* what is no text, or in a batch that was chosen to be forwarded when redaction
\* fails.  What stands for it is a digest of the tenant of its own resource, or
\* nothing: never a placeholder that a vault would keep.  No rune leaves in half.
\* NoExemplars: the labels of an exemplar, which the walk of OTLP/JSON looks for under
\* a name they do not have.
NoExemplars(v) == way = "json" /\ Last(v.at) = "filteredAttributes"
Tenants       == {"caller", "own", "t1", "t2"}
Tenant(r)     == IF way = "json" THEN "caller"
                 ELSE IF config.attribute /\ r.tenant # "" THEN r.tenant ELSE config.tenant
GivenUp       == config.failureMode = "forward"
                   /\ (walkErr \/ \E r \in ToSet(batch) : Tenant(r) \notin Tenants)
NothingWhole ==
  state = "sent" /\ ~GivenUp =>
    \A r \in ToSet(batch) : \A v \in ToSet(r.values) : v.isText =>
      /\ Numbers(v.text) # {} =>
           NoExemplars(v) \/ (FlattenSeq(v.keys) \in SkipKeys /\ Last(v.at) # "name")
      /\ ToSet(v.text) \cap (Tenants \cup {"minted"}) \subseteq {Tenant(r)}
      /\ v.text # <<>> => Last(v.text) # "r1"
=============================================================================
