------------------------------ MODULE Overlaps ------------------------------
(***************************************************************************)
(* pii/detect/detector.go: entities, spans of a text of so many places,    *)
(* and ResolveOverlaps, which every assembly of detectors ends with.  An   *)
(* entity is "settled" by a check digit or a roster, or a "guess".         *)
(***************************************************************************)
EXTENDS Naturals, FiniteSets

CONSTANT Length   \* places of the text

Kinds    == {"settled", "guess"}
Entities == {e \in [from : 0 .. Length - 1, to : 1 .. Length, kind : Kinds] : e.from < e.to}
OfKind(k) == {e \in Entities : e.kind = k}
Confidence(e) == IF e.kind = "settled" THEN 2 ELSE 1
Len(e)        == e.to - e.from
Overlaps(e, f) == e.from < f.to /\ f.from < e.to
Above(a, b, i) == a[i] > b[i] /\ \A j \in 1 .. i - 1 : a[j] = b[j]

-----------------------------------------------------------------------------
\* resolveComponent: longest first, then confidence, then the earlier start; an
\* entity is kept unless one kept before it overlaps it.
Rank(e) == <<Len(e), Confidence(e), Length - e.from>>
Beats(e, f) == \E i \in 1 .. 3 : Above(Rank(e), Rank(f), i)
Greedy(component) ==
  CHOOSE kept \in SUBSET component : \A e \in component :
    e \in kept <=> ~\E k \in kept : Beats(k, e) /\ Overlaps(k, e)

\* ResolveOverlaps: swept by start, a component ends where no span so far reaches
\* beyond; each is resolved on its own.
SoFar(set, e) == {f \in set : f.from < e.from}
MaxEnd(set)   == CHOOSE m \in {f.to : f \in set} : \A f \in set : f.to <= m
OpensAfterLast(set, e) ==   \* mutant: the end of the last span for the furthest
  SoFar(set, e) = {} \/
    \E f \in SoFar(set, e) : e.from >= f.to /\ \A g \in SoFar(set, e) : g.from <= f.from
Opens(set, e) == SoFar(set, e) = {} \/ e.from >= MaxEnd(SoFar(set, e))
Component(set, e) ==
  {f \in set : \A o \in set : Opens(set, o) => ((o.from <= e.from) = (o.from <= f.from))}
ResolveOverlaps(set) == UNION {Greedy(Component(set, e)) : e \in set}
=============================================================================
