------------------------------ MODULE Documents ------------------------------
(***************************************************************************)
(* pii/document: which values of a request are redacted and which values   *)
(* of an answer are restored.  Each rule of a fixed list of paths walks    *)
(* the JSON tree and transforms the strings it ends at; the first error    *)
(* refuses the request (Handler.redactBody) or leaves the answer alone     *)
(* (RestoreBody).                                                          *)
(*                                                                         *)
(* A document is the set of its leaves: a path of keys and array elements, *)
(* and what is there: plain text, text that is itself JSON, or no string.  *)
(***************************************************************************)
EXTENDS Naturals, Sequences, FiniteSets

CONSTANT Documents   \* the [way, leaves] the program may be given

VARIABLES way,    \* "request" or "answer"
          doc,    \* its leaves: [path, kind, prose]
          rule,   \* the next rule
          times,  \* how often a leaf was transformed
          result  \* "open", "sent", "refused", "asitwas"

vars == <<way, doc, rule, times, result>>

-----------------------------------------------------------------------------
Text(path)   == [path |-> path, kind |-> "text"]
Json(path)   == [path |-> path, kind |-> "json"]
Object(path) == [path |-> path, kind |-> "object"]

sanitizeRules == <<
  Text(<<"system">>),
  Text(<<"messages", "[*]", "content">>),
  Text(<<"messages", "[*]", "content", "[*]", "text">>),
  Json(<<"messages", "[*]", "tool_calls", "[*]", "function", "arguments">>),
  Text(<<"messages", "[*]", "content", "[*]", "content">>),
  Text(<<"messages", "[*]", "content", "[*]", "content", "[*]", "text">>),
  Object(<<"messages", "[*]", "content", "[*]", "input">>),
  Json(<<"messages", "[*]", "function_call", "arguments">>),
  Text(<<"input", "[*]", "content", "[*]", "text">>),
  Text(<<"prompt">>),
  Text(<<"system", "[*]", "text">>),
  Text(<<"input">>),
  Text(<<"input", "[*]">>),
  Text(<<"tools", "[*]", "function", "description">>),
  Text(<<"tools", "[*]", "description">>),
  Text(<<"tools", "[*]", "function", "parameters", "**", "description">>) >>

responseRules == <<
  Text(<<"choices", "[*]", "delta", "content">>),
  Text(<<"choices", "[*]", "delta", "reasoning_content">>),
  Text(<<"choices", "[*]", "message", "content">>),
  Text(<<"choices", "[*]", "message", "reasoning_content">>),
  Json(<<"choices", "[*]", "message", "tool_calls", "[*]", "function", "arguments">>),
  Text(<<"content", "[*]", "text">>),
  Text(<<"delta", "text">>),
  Text(<<"content_block", "text">>),
  Object(<<"content", "[*]", "input">>),
  Text(<<"output", "[*]", "content", "[*]", "text">>),
  Json(<<"choices", "[*]", "message", "function_call", "arguments">>) >>

Rules == IF way = "request" THEN sanitizeRules ELSE responseRules

-----------------------------------------------------------------------------
\* walk: a key is taken by its name, [*] is any element of an array.
Elements == {"0", "1"}
walk(segments, path) ==
  /\ Len(segments) <= Len(path)
  /\ \A i \in 1 .. Len(segments) :
       path[i] = segments[i] \/ (segments[i] = "[*]" /\ path[i] \in Elements)

\* walkDeep: the key at any depth, but not below a value of that key.
walkDeepAll(above, name, path) ==   \* mutant: every value at any depth
  walk(above, path) /\ Len(path) > Len(above)
walkDeep(above, name, path) ==
  /\ walk(above, path) /\ Len(path) > Len(above)
  /\ \A i \in Len(above) + 1 .. Len(path) : (path[i] = name) = (i = Len(path))

IsDeep(r) == "**" \in {r.path[i] : i \in DOMAIN r.path}
Ends(r, path) ==
  IF IsDeep(r)
  THEN LET n == Len(r.path) IN walkDeep(SubSeq(r.path, 1, n - 2), r.path[n], path)
  ELSE walk(r.path, path) /\ (r.kind = "object" \/ Len(path) = Len(r.path))

\* applyTransform, transformJSONString, transformJSONValue: a text that should
\* be JSON and is not stays as it is; below an object every string is a value.
applyTransform(r, leaf) ==
  CASE r.kind = "text"   -> leaf.kind \in {"string", "json"}
    [] r.kind = "json"   -> leaf.kind = "json"
    [] r.kind = "object" -> leaf.kind \in {"string", "json"} /\ Len(leaf.path) > Len(r.path)

Touched(r) == {leaf \in doc : Ends(r, leaf.path) /\ applyTransform(r, leaf)}

-----------------------------------------------------------------------------
Init ==
  \E d \in Documents :
    /\ way = d.way /\ doc = d.leaves /\ rule = 1
    /\ times = [leaf \in d.leaves |-> 0] /\ result = "open"

\* One rule of SanitizeDocument or RestoreDocument.
Apply ==
  /\ result = "open" /\ rule <= Len(Rules) /\ rule' = rule + 1
  /\ LET touched == Touched(Rules[rule]) IN
     times' = [leaf \in doc |-> times[leaf] + IF leaf \in touched THEN 1 ELSE 0]
  /\ UNCHANGED <<way, doc, result>>

\* The transform fails: fail-closed on the way out; RestoreBody falls back to
\* the body as it came in.
Fails ==
  /\ result = "open" /\ rule <= Len(Rules) /\ Touched(Rules[rule]) # {}
  /\ result' = IF way = "request" THEN "refused" ELSE "asitwas"
  /\ times' = [leaf \in doc |-> 0]
  /\ UNCHANGED <<way, doc, rule>>

Finish ==
  /\ result = "open" /\ rule > Len(Rules) /\ result' = "sent"
  /\ UNCHANGED <<way, doc, rule, times>>

Next == Apply \/ Fails \/ Finish
Spec == Init /\ [][Next]_vars

-----------------------------------------------------------------------------
\* Whatever the rules have in common, and whatever else the document holds: of a
\* body that is passed on, every text a person wrote is transformed exactly once
\* (twice would redact a placeholder or restore a restored value), and what the
\* protocol lives on is not touched.  Two texts are missed: one below a schema
\* property that is itself called description, and arguments that are not JSON.
BelowDescription(leaf) == \E i \in 5 .. Len(leaf.path) - 1 : leaf.path[i] = "description"
NotJson(leaf) == leaf.kind = "string" /\ leaf.path[Len(leaf.path)] = "arguments"
TransformedOnce ==
  result = "sent" =>
    \A leaf \in doc :
      times[leaf] = IF leaf.prose /\ ~BelowDescription(leaf) /\ ~NotJson(leaf) THEN 1 ELSE 0
=============================================================================
