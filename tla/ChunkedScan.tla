---------------------------- MODULE ChunkedScan ----------------------------
(***************************************************************************)
(* pii/detect/scanner.go: a long text is scanned in chunks, in parallel,   *)
(* and what the chunks find is put together.  Chunks overlap by a margin.  *)
(* Three recognizers stand for the registry: numbers of two digits with no *)
(* digit on either side, words of three letters or digits with neither on  *)
(* either side (isBoundaryOK), and a digit that counts only with a letter  *)
(* in a window around it (hasContext); a chunk's edge is no neighbour, and *)
(* hides what is behind it.                                                *)
(***************************************************************************)
EXTENDS Overlaps

CONSTANTS ChunkSize, Margin, ContextWindow

VARIABLES
  text,     \* character -> "digit", "letter", "space"
  results,  \* start of a chunk scanned -> what was found in it
  merged    \* "scanning", "failed", or the entities

vars == <<text, results, merged>>

Size   == Cardinality(DOMAIN text)
Alnum  == {"digit", "letter"}

\* isBoundaryOK, in the chunk a .. b - 1.
IsBoundaryOK(e, a, b, class) ==
  /\ e.from > a => text[e.from - 1] \notin class
  /\ e.to < b => text[e.to] \notin class
HasContext(e, a, b) ==
  \E i \in a .. b - 1 : e.from <= i + ContextWindow /\ i < e.to + ContextWindow /\ text[i] = "letter"
Of(e, class) == \A i \in e.from .. e.to - 1 : text[i] \in class
\* Recognize; and what the registry makes of it.
Recognize(e, a, b, length, class) ==
  Len(e) = length /\ Of(e, class) /\ IsBoundaryOK(e, a, b, class)
Spans == {e \in OfKind("settled") : Len(e) <= 3}
Detect(a, b) ==
  ResolveOverlaps({e \in Spans : a <= e.from /\ e.to <= b /\
    (\/ Recognize(e, a, b, 2, {"digit"}) \/ Recognize(e, a, b, 3, Alnum)
     \/ Recognize(e, a, b, 1, {"digit"}) /\ HasContext(e, a, b))})

\* chunks.
Starts == {s \in DOMAIN text : s % ChunkSize = 0}
UpTo(n)         == IF n < Size THEN n ELSE Size
ChunkOnly(s)    == UpTo(s + ChunkSize)   \* mutant: chunks that do not overlap
EndOf(s)        == UpTo(s + ChunkSize + Margin)

Init ==
  /\ \E size \in {ChunkSize, Length} : text \in [0 .. size - 1 -> Alnum \cup {"space"}]
  /\ results = [s \in {} |-> {}] /\ merged = [at |-> "scanning", found |-> {}]

Direct ==   \* a short text
  /\ merged.at = "scanning" /\ Size <= ChunkSize
  /\ merged' = [at |-> "done", found |-> Detect(0, Size)] /\ UNCHANGED <<text, results>>
Scan(s) ==   \* a worker
  /\ merged.at = "scanning" /\ Size > ChunkSize /\ s \notin DOMAIN results
  /\ results' = [c \in DOMAIN results \cup {s} |-> IF c = s THEN Detect(s, EndOf(s)) ELSE results[c]]
  /\ UNCHANGED <<text, merged>>
ScanFails ==   \* one error fails the text
  /\ merged.at = "scanning" /\ Size > ChunkSize /\ merged' = [merged EXCEPT !.at = "failed"]
  /\ UNCHANGED <<text, results>>
Merge ==
  /\ merged.at = "scanning" /\ Size > ChunkSize /\ DOMAIN results = Starts
  /\ merged' = [at |-> "done", found |-> ResolveOverlaps(UNION {results[s] : s \in Starts})]
  /\ UNCHANGED <<text, results>>

Next == Direct \/ (\E s \in Starts : Scan(s)) \/ ScanFails \/ Merge
Spec == Init /\ [][Next]_vars

-----------------------------------------------------------------------------
\* Nothing that a scan of the whole text finds is lost on a boundary, whatever the
\* order in which the workers end: it is found, or something longer over it is; and
\* what only the chunks find touches an edge of one, where a longer run was cut in
\* two ("byte-identical to a full scan", says scanner_test.go: it is not).
AtEdge(e) == \E s \in Starts : e.from = s \/ e.to = EndOf(s)
ChunkedFindsAll ==
  merged.at = "done" =>
    /\ \A e \in Detect(0, Size) :
         e \in merged.found \/ \E f \in merged.found : Overlaps(e, f) /\ Len(f) >= Len(e) /\ AtEdge(f)
    /\ \A f \in merged.found : f \in Detect(0, Size) \/ AtEdge(f)
=============================================================================
