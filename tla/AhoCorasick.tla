---------------------------- MODULE AhoCorasick ----------------------------
(***************************************************************************)
(* pii/detect/ahocorasick.go, with which GazetteerDetector looks for the   *)
(* terms of a roster: a trie with failure links, built level by level, and *)
(* one pass over the bytes of a text; terms and text are lower-cased       *)
(* before.  A node is the string it stands for; the root, <<>>, also stands*)
(* for "no node".                                                          *)
(***************************************************************************)
EXTENDS Naturals, Sequences, FiniteSets, SequencesExt

CONSTANTS Bytes, MaxTerm, MaxTerms, MaxText   \* bounds on the terms and the text

VARIABLES
  terms,   \* the patterns
  trie,    \* nodes
  fail, suffixLink,   \* of a node
  queue,   \* of buildLinks
  stage,   \* "new", "refused", "insert", "link", "find"
  text,    \* the bytes read so far
  cur,     \* the node they led to
  out      \* matches: [from, to]

vars == <<terms, trie, fail, suffixLink, queue, stage, text, cur, out>>

Root     == <<>>
Terms    == UNION {[1 .. n -> Bytes] : n \in 1 .. MaxTerm}
Rosters  == {r \in SUBSET Terms : Cardinality(r) <= MaxTerms}
Child(n, b)  == Append(n, b)
Children(n)  == {Child(n, b) : b \in Bytes} \cap trie
InTrie(word) == {SubSeq(word, 1, k) : k \in 0 .. Len(word)}

Init ==
  /\ terms = {} /\ trie = {Root}
  /\ fail = [n \in {Root} |-> Root] /\ suffixLink = [n \in {Root} |-> Root]
  /\ queue = <<>> /\ stage = "new" /\ text = <<>> /\ cur = Root /\ out = {}

\* NewGazetteerDetector: of each type's terms those long enough; one term under two
\* types is refused, none at all is a detector that finds nothing.
NewGazetteer ==
  /\ stage = "new"
  /\ \E minLen \in 1 .. MaxTerm, names, orgs \in Rosters :
       LET long(r) == {t \in r : Len(t) >= minLen} IN
       /\ Cardinality(names) + Cardinality(orgs) <= MaxTerms
       /\ IF long(names) \cap long(orgs) # {} THEN stage' = "refused" /\ UNCHANGED terms
          ELSE stage' = "insert" /\ terms' = long(names) \cup long(orgs)
  /\ UNCHANGED <<trie, fail, suffixLink, queue, text, cur, out>>

\* insert.
Insert ==
  /\ stage = "insert" /\ terms \ trie # {}
  /\ LET word == CHOOSE t \in terms \ trie : TRUE IN
     /\ trie' = trie \cup InTrie(word)
     /\ fail' = [n \in trie' |-> Root] /\ suffixLink' = [n \in trie' |-> Root]
  /\ UNCHANGED <<terms, queue, stage, text, cur, out>>

\* buildLinks: nodes of a level before those of the next.
StartLinks ==
  /\ stage = "insert" /\ terms \subseteq trie
  /\ stage' = "link" /\ queue' = SetToSeq(Children(Root))
  /\ UNCHANGED <<terms, trie, fail, suffixLink, text, cur, out>>

\* Where a byte leads: down from the nearest node on the chain that has a child.
Step(from, b) ==
  LET down[n \in trie] ==
        IF Child(n, b) \in trie THEN Child(n, b) ELSE IF n = Root THEN Root ELSE down[fail[n]]
  IN down[from]
UnlessTerm(f) == IF f \in terms THEN f ELSE Root   \* mutant: the chain ends at once
NextTerm(f)   == IF f \in terms THEN f ELSE suffixLink[f]
Link ==
  /\ stage = "link" /\ queue # <<>>
  /\ LET kids == Children(Head(queue))
         f(kid) == Step(fail[Head(queue)], Last(kid)) IN
     /\ fail' = [n \in trie |-> IF n \in kids THEN f(n) ELSE fail[n]]
     /\ suffixLink' = [n \in trie |-> IF n \in kids THEN NextTerm(f(n)) ELSE suffixLink[n]]
     /\ queue' = Tail(queue) \o SetToSeq(kids)
  /\ UNCHANGED <<terms, trie, stage, text, cur, out>>
Linked ==
  /\ stage = "link" /\ queue = <<>> /\ stage' = "find"
  /\ UNCHANGED <<terms, trie, fail, suffixLink, queue, text, cur, out>>

\* FindAll, a byte at a time, and the terms that end there.
Ending(node) ==
  LET chain[n \in trie] == (IF n \in terms THEN {n} ELSE {})
                             \cup (IF n = Root THEN {} ELSE chain[suffixLink[n]])
  IN chain[node]
Match(term, end) == [from |-> end - Len(term), to |-> end]
FindAll ==
  /\ stage = "find" /\ Len(text) < MaxText
  /\ \E b \in Bytes :
       /\ text' = Append(text, b) /\ cur' = Step(cur, b)
       /\ out' = out \cup {Match(t, Len(text) + 1) : t \in Ending(cur')}
  /\ UNCHANGED <<terms, trie, fail, suffixLink, queue, stage>>

Next == NewGazetteer \/ Insert \/ StartLinks \/ Link \/ Linked \/ FindAll
Spec == Init /\ [][Next]_vars

-----------------------------------------------------------------------------
\* The automaton finds what comparing every term at every place would find, no
\* more, no less: a term within another is not swallowed by it.
FindsEveryTerm ==
  stage = "find" =>
    out = UNION {{m \in [from : {k - Len(t) : k \in Len(t) .. Len(text)}, to : 1 .. Len(text)] :
                    m.to = m.from + Len(t) /\ SubSeq(text, m.from + 1, m.to) = t} : t \in terms}
=============================================================================
