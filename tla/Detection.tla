------------------------------ MODULE Detection ------------------------------
(***************************************************************************)
(* What is found in a text and what of it is replaced: pii/detect          *)
(* (detector.go, registry.go, cascade.go, tiered.go), pii/verify           *)
(* (evidence.go, wrap.go), and Redactor.RedactTo with the strategies of a  *)
(* flow (redactor.go, matrix.go, strategy.go).                             *)
(*                                                                         *)
(* A text is a row of places.  An entity is a span of it with its kind:    *)
(* "settled" by a check digit or a roster, or a "guess" of the surname     *)
(* recognizer or of the model.  Only guesses have an evidence chain; the   *)
(* words it looks for are a choice of its verdict and of how far the span  *)
(* grows.  The programs assemble the same parts in different ways:         *)
(*   core     preset.Core: candidates, resolved by evidence alone          *)
(*   gateway  a composite with the remote model, resolved, then evidence   *)
(*   cascade  fast layers, resolved, then the model, then evidence         *)
(*   masked   the same with settled spans blanked for the model            *)
(*   inline   TieredDetector: the slow tier in the request's time          *)
(***************************************************************************)
EXTENDS Overlaps

CONSTANT MaxFound   \* bound on what is found in a text

VARIABLES
  assembly,   \* how the program was put together
  settled,    \* what the fast layers match
  guesses,    \* what the model, or the surname recognizer, would report
  step,       \* where the text is
  found,      \* the entities so far
  judged,     \* decisions of the evidence chain: [entity, span, verdict, score]
  replaced,   \* the entities replaced in the text that leaves
  lost        \* those of a restored flow whose symbol cannot be turned back

vars == <<assembly, settled, guesses, step, found, judged, replaced, lost>>

SmallSubsets(set) == {s \in SUBSET set : Cardinality(s) <= MaxFound}

-----------------------------------------------------------------------------
\* overlapsAny: a model verdict on a settled span is discarded.
OverlapsAny(e, set) == \E s \in set : Overlaps(e, s)
Kept(slow, fast) == {e \in slow : ~OverlapsAny(e, fast)}

-----------------------------------------------------------------------------
Init ==
  /\ assembly \in {"core", "gateway", "cascade", "masked", "inline"}
  /\ \E all \in SmallSubsets(Entities) :
       settled = all \cap OfKind("settled") /\ guesses = all \cap OfKind("guess")
  /\ step = "fast" /\ found = {} /\ judged = {} /\ replaced = {} /\ lost = {}

\* The fast layers.  The registry resolves what its recognizers match; the surname
\* recognizer of preset.Core is not behind it.
Fast ==
  /\ step = "fast"
  /\ found' = ResolveOverlaps(settled) \cup (IF assembly = "core" THEN guesses ELSE {})
  /\ step' = IF assembly = "core" THEN "evidence" ELSE "model"
  /\ UNCHANGED <<assembly, settled, guesses, judged, replaced, lost>>

Cascaded == assembly \in {"cascade", "masked"}
Together(slow) ==
  IF Cascaded
  THEN ResolveOverlaps(found \cup Kept(slow, found))
  ELSE ResolveOverlaps(found \cup slow)
Model ==
  /\ step = "model"
  /\ found' = Together(IF assembly = "masked" THEN Kept(guesses, found) ELSE guesses)
  /\ step' = IF assembly = "inline" THEN "redact" ELSE "evidence"
  /\ judged' = IF assembly = "inline"
               THEN {[entity |-> e, span |-> e, verdict |-> "keep", score |-> 0] : e \in found'}
               ELSE judged
  /\ UNCHANGED <<assembly, settled, guesses, replaced, lost>>

\* There are no guesses: the trigger finds nothing worth asking about, the client
\* marks its failure as one that may degrade (ErrModelDegraded), or the remote
\* detector fails open.
WithoutModel ==
  /\ step = "model" /\ step' = "evidence" /\ found' = ResolveOverlaps(found) /\ guesses' = {}
  /\ UNCHANGED <<assembly, settled, judged, replaced, lost>>
Untriggered == Cascaded /\ WithoutModel
Degraded    == Cascaded /\ WithoutModel
FailsOpen   == assembly = "gateway" /\ WithoutModel

\* An error: no answer, one that does not fit the text or, with settled spans
\* blanked, the blanked text; or an answer that is too late.
ModelFails ==
  /\ step = "model" /\ step' = "blocked"
  /\ UNCHANGED <<assembly, settled, guesses, found, judged, replaced, lost>>
OffsetsDiffer == Cascaded /\ ModelFails
Unbridged     == assembly = "masked" /\ ModelFails
TooLate       == assembly = "inline" /\ ModelFails

-----------------------------------------------------------------------------
\* Validate: a guess may grow to the right, to a suffix, and to the left, over what
\* belongs to an anchor it ends with, or over Latin words.
ToSuffix(e)   == {e.to, e.to + 1}
ToAnchor(e)   == {e.from, e.from - 1}
LatinWords(e) == {e.from - 1, e.from - 2}
Grown(e) ==
  {f \in OfKind("guess") : f.to \in ToSuffix(e) /\ f.from \in ToAnchor(e) \cup LatinWords(e)}
Validated(e) ==
  IF e.kind = "settled" THEN {[entity |-> e, span |-> e, verdict |-> "keep", score |-> 0]}
  ELSE [entity : {e}, span : Grown(e), verdict : {"drop"}, score : {0}]
         \cup [entity : {e}, span : Grown(e), verdict : {"unknown"}, score : {0}]
         \cup [entity : {e}, span : Grown(e), verdict : {"keep"}, score : {1}]

\* ResolveByEvidence: verdict, score, confidence, length, start; what is rejected
\* does not compete.
Strength(d) ==
  <<IF d.verdict = "keep" THEN 2 ELSE 1, d.score, Confidence(d.span), Len(d.span),
    Length - d.span.from>>
Stronger(d, c) ==
  \/ \E i \in 1 .. 5 : Above(Strength(d), Strength(c), i)
  \/ Strength(d) = Strength(c) /\ (d.entity.from < c.entity.from   \* the stable sort
                                   \/ (d.entity.from = c.entity.from /\ d.entity.to < c.entity.to))
Competing(decisions) == {d \in decisions : d.verdict # "drop"}
ResolveByEvidence(decisions) ==
  LET able == Competing(decisions) IN
  CHOOSE kept \in SUBSET able : \A d \in able :
    d \in kept <=> ~\E k \in kept : Stronger(k, d) /\ Overlaps(k.span, d.span)

\* ValidateAll.
Evidence ==
  /\ step = "evidence" /\ step' = "redact"
  /\ \E all \in [found -> UNION {Validated(e) : e \in found}] :
       /\ \A e \in found : all[e].entity = e
       /\ judged' = {all[e] : e \in found}
  /\ UNCHANGED <<assembly, settled, guesses, found, replaced, lost>>

-----------------------------------------------------------------------------
Strategies    == {"mask", "tokenize", "char_mask"}   \* or hash, drop, generalize
Reversible(s) == s \in {"mask", "tokenize"}
\* Matrix.Add: a flow that restores answers has reversible strategies only.
Add(f)    == f.restores => \A k \in Kinds : Reversible(f.kind[k])
Flows     == {f \in [kind : [Kinds -> Strategies], restores : BOOLEAN] : Add(f)}

Entering == {d.span : d \in ResolveByEvidence(judged)}
\* RedactTo: overlapping spans block, and so does a strategy that fails.
Redact ==
  /\ step = "redact"
  /\ \A e, f \in Entering : e # f => ~Overlaps(e, f)
  /\ \E f \in Flows :
       lost' = {e \in Entering : f.restores /\ ~Reversible(f.kind[e.kind])}
  /\ replaced' = Entering /\ step' = "sent"
  /\ UNCHANGED <<assembly, settled, guesses, found, judged>>
Block ==
  /\ step = "redact" /\ step' = "blocked" /\ Entering # {}
  /\ UNCHANGED <<assembly, settled, guesses, found, judged, replaced, lost>>

Next ==
  \/ Fast \/ Model \/ Untriggered \/ Degraded \/ FailsOpen
  \/ ModelFails \/ OffsetsDiffer \/ Unbridged \/ TooLate
  \/ Evidence \/ Redact \/ Block
Spec == Init /\ [][Next]_vars

-----------------------------------------------------------------------------
\* Nothing that was found vanishes on the way: when a text leaves, the sweep has
\* resolved what it would have resolved at once; the spans replaced do not overlap;
\* what a flow promises to restore can be restored; nothing rejected is
\* replaced; and whatever a layer found and
\* evidence does not reject overlaps something that is replaced.  Where entities are
\* resolved before evidence (gateway, cascade), that holds of what this left; a
\* settled span is displaced there by a longer settled one only, in a cascade.
Rejected(e) == \E d \in judged : d.entity = e /\ d.verdict = "drop"
Answered(e) == \E f \in replaced : Overlaps(e, f) \/ \E d \in judged : d.entity = e /\ Overlaps(d.span, f)
Candidates  == IF assembly = "core" THEN ResolveOverlaps(settled) \cup guesses ELSE found
NothingVanishes ==
  step = "sent" =>
    /\ ResolveOverlaps(settled \cup guesses) = Greedy(settled \cup guesses)
    /\ \A e, f \in replaced : e # f => ~Overlaps(e, f)
    /\ lost = {}
    /\ \A f \in replaced : \E d \in judged : d.span = f /\ d.verdict # "drop"
    /\ \A e \in Candidates : Rejected(e) \/ Answered(e)
    /\ Cascaded =>
         \A e \in ResolveOverlaps(settled) : Answered(e)
=============================================================================
