----------------------------- MODULE RunProofs ------------------------------
(***************************************************************************)
(* The rest of the path, and the invariants of the run: the rules of a     *)
(* document over the bodies that clients send, the redaction matrix and    *)
(* the telemetry firewall; that, in every behaviour of the path, what      *)
(* there is to find is found and replaced; and what SessionVaultProofs     *)
(* shows of one part.                                                      *)
(***************************************************************************)
EXTENDS PathProofs, SessionVaultProofs

(***************************************************************************)
(* The rules of a document (Documents).                                    *)
(***************************************************************************)
\* The only rule of sanitizeRules that can end at a path, read off the path.
RequestRule(path) ==
  CASE path[1] = "system" -> IF Len(path) = 1 THEN 1 ELSE 11
    [] path[1] = "messages" -> (CASE path[3] = "tool_calls" -> 4
                                 [] path[3] = "function_call" -> 8
                                 [] OTHER -> IF Len(path) = 3 THEN 2
                                             ELSE IF path[5] = "text" THEN 3
                                             ELSE IF path[5] = "input" THEN 7
                                             ELSE IF Len(path) = 5 THEN 5 ELSE 6)
    [] path[1] = "input" -> IF Len(path) = 1 THEN 12 ELSE IF Len(path) = 2 THEN 13 ELSE 9
    [] path[1] = "prompt" -> 10
    [] OTHER -> IF path[3] = "description" THEN 15 ELSE IF Len(path) = 4 THEN 14 ELSE 16

\* The only rule of responseRules that can.
AnswerRule(path) ==
  CASE path[1] = "choices" -> (CASE path[3] = "delta" -> IF path[4] = "content" THEN 1 ELSE 2
                                [] OTHER -> IF path[4] = "content" THEN 3
                                            ELSE IF path[4] = "reasoning_content" THEN 4
                                            ELSE IF path[4] = "tool_calls" THEN 5 ELSE 11)
    [] path[1] = "content" -> IF path[3] = "text" THEN 6 ELSE 9
    [] path[1] = "delta" -> 7
    [] path[1] = "content_block" -> 8
    [] OTHER -> 10

\* What a rule that goes to no depth of its own says of the paths it ends at.
LEMMA PlainRule ==
  ASSUME NEW r, NEW path, Document!Ends(r, path), \A i \in DOMAIN r.path : r.path[i] # "**"
  PROVE  /\ \A i \in 1 .. Len(r.path) : r.path[i] # "[*]" => path[i] = r.path[i]
         /\ r.kind # "object" => Len(path) = Len(r.path)
         /\ Len(r.path) <= Len(path)
<1>1. ~Document!IsDeep(r)
  BY DEF Document!IsDeep
<1> QED BY <1>1 DEF Document!Ends, Document!walk

\* The beginning of a sequence.
LEMMA Beginning ==
  ASSUME NEW V, NEW t \in Seq(V), NEW b \in Nat, b <= Len(t)
  PROVE  /\ SubSeq(t, 1, b) \in Seq(V) /\ Len(SubSeq(t, 1, b)) = b
         /\ \A i \in 1 .. b : SubSeq(t, 1, b)[i] = t[i]
  OBVIOUS

\* Where that rule starts.
LEMMA DeepAbove ==
  SubSeq(<<"tools", "[*]", "function", "parameters", "**", "description">>, 1, 6 - 2)
    = <<"tools", "[*]", "function", "parameters">>
<1> DEFINE above == <<"tools", "[*]", "function", "parameters">>
           V == {"tools", "[*]", "function", "parameters", "**", "description"}
           t == <<"tools", "[*]", "function", "parameters", "**", "description">>
           u == SubSeq(t, 1, 4)
<1>1. t \in Seq(V) /\ Len(t) = 6 /\ above \in Seq(V) /\ Len(above) = 4
  OBVIOUS
<1>2. \A i \in 1 .. 4 : t[i] = above[i]
  OBVIOUS
<1> HIDE DEF t, V, above
<1>3. u \in Seq(V) /\ Len(u) = 4 /\ \A i \in 1 .. 4 : u[i] = t[i]
  <2>1. 4 \in Nat /\ 4 <= Len(t)
    BY <1>1
  <2> QED BY <1>1, <2>1, Beginning
<1>4. u = above
  BY <1>1, <1>2, <1>3
<1>5. 6 - 2 = 4
  OBVIOUS
<1> QED BY <1>4, <1>5 DEF t, above

\* The rule for the descriptions in a schema, to whatever depth.
LEMMA DeepEnds ==
  ASSUME NEW path
  PROVE  Document!Ends(Document!sanitizeRules[16], path) <=>
           /\ 4 <= Len(path) /\ Len(path) > 4
           /\ path[1] = "tools" /\ path[2] \in {"[*]", "0", "1"} /\ path[3] = "function" /\ path[4] = "parameters"
           /\ \A i \in 5 .. Len(path) : (path[i] = "description") = (i = Len(path))
<1> DEFINE r == Document!sanitizeRules[16]
           above == <<"tools", "[*]", "function", "parameters">>
<1>1. r.path = <<"tools", "[*]", "function", "parameters", "**", "description">>
  BY DEF Document!sanitizeRules, Document!Text
<1>2. Document!IsDeep(r)
  BY <1>1 DEF Document!IsDeep
<1>3. SubSeq(r.path, 1, Len(r.path) - 2) = above
  BY <1>1, DeepAbove
<1>4. r.path[Len(r.path)] = "description"
  BY <1>1
<1>5. Document!Ends(r, path) <=> Document!walkDeep(above, "description", path)
  BY <1>2, <1>3, <1>4 DEF Document!Ends
<1>6. Document!walk(above, path) <=>
        /\ 4 <= Len(path)
        /\ path[1] = "tools" /\ path[2] \in {"[*]", "0", "1"} /\ path[3] = "function" /\ path[4] = "parameters"
  <2>1. Len(above) = 4 /\ above[1] = "tools" /\ above[2] = "[*]" /\ above[3] = "function" /\ above[4] = "parameters"
    OBVIOUS
  <2>2. 1 .. 4 = {1, 2, 3, 4}
    OBVIOUS
  <2>3. Document!walk(above, path) <=>
          4 <= Len(path) /\ \A i \in {1, 2, 3, 4} :
             path[i] = above[i] \/ (above[i] = "[*]" /\ path[i] \in {"0", "1"})
    BY <2>1, <2>2 DEF Document!walk, Document!Elements
  <2> HIDE DEF above
  <2> QED BY <2>1, <2>3
<1>7. Len(above) = 4 /\ Len(above) + 1 = 5
  OBVIOUS
<1> HIDE DEF above
<1> QED BY <1>5, <1>6, <1>7 DEF Document!walkDeep

\* No path is the end of two rules.
LEMMA RequestRules ==
  ASSUME NEW path, NEW k \in DOMAIN Document!sanitizeRules, Document!Ends(Document!sanitizeRules[k], path)
  PROVE  RequestRule(path) = k
<1>0. k \in 1 .. 16
  BY DEF Document!sanitizeRules
<1>1. CASE k = 1
  BY <1>1, PlainRule DEF Document!sanitizeRules, Document!Text, Document!Json, Document!Object, RequestRule
<1>2. CASE k = 2
  BY <1>2, PlainRule DEF Document!sanitizeRules, Document!Text, Document!Json, Document!Object, RequestRule
<1>3. CASE k = 3
  BY <1>3, PlainRule DEF Document!sanitizeRules, Document!Text, Document!Json, Document!Object, RequestRule
<1>4. CASE k = 4
  BY <1>4, PlainRule DEF Document!sanitizeRules, Document!Text, Document!Json, Document!Object, RequestRule
<1>5. CASE k = 5
  BY <1>5, PlainRule DEF Document!sanitizeRules, Document!Text, Document!Json, Document!Object, RequestRule
<1>6. CASE k = 6
  BY <1>6, PlainRule DEF Document!sanitizeRules, Document!Text, Document!Json, Document!Object, RequestRule
<1>7. CASE k = 7
  <2>1. path[1] = "messages" /\ path[3] = "content" /\ path[5] = "input" /\ 5 <= Len(path)
    BY <1>7, PlainRule DEF Document!sanitizeRules, Document!Text, Document!Json, Document!Object
  <2>2. Len(path) # 3
    <3>1. ~(5 <= 3)
      OBVIOUS
    <3> QED BY <2>1, <3>1
  <2> QED BY <1>7, <2>1, <2>2 DEF RequestRule
<1>8. CASE k = 8
  BY <1>8, PlainRule DEF Document!sanitizeRules, Document!Text, Document!Json, Document!Object, RequestRule
<1>9. CASE k = 9
  BY <1>9, PlainRule DEF Document!sanitizeRules, Document!Text, Document!Json, Document!Object, RequestRule
<1>10. CASE k = 10
  BY <1>10, PlainRule DEF Document!sanitizeRules, Document!Text, Document!Json, Document!Object, RequestRule
<1>11. CASE k = 11
  BY <1>11, PlainRule DEF Document!sanitizeRules, Document!Text, Document!Json, Document!Object, RequestRule
<1>12. CASE k = 12
  BY <1>12, PlainRule DEF Document!sanitizeRules, Document!Text, Document!Json, Document!Object, RequestRule
<1>13. CASE k = 13
  BY <1>13, PlainRule DEF Document!sanitizeRules, Document!Text, Document!Json, Document!Object, RequestRule
<1>14. CASE k = 14
  BY <1>14, PlainRule DEF Document!sanitizeRules, Document!Text, Document!Json, Document!Object, RequestRule
<1>15. CASE k = 15
  BY <1>15, PlainRule DEF Document!sanitizeRules, Document!Text, Document!Json, Document!Object, RequestRule
<1>16. CASE k = 16
  <2>1. path[1] = "tools" /\ path[3] = "function" /\ Len(path) # 4
    <3>1. path[1] = "tools" /\ path[3] = "function" /\ Len(path) > 4
      BY <1>16, DeepEnds
    <3>2. ~(4 > 4)
      OBVIOUS
    <3> QED BY <3>1, <3>2
  <2> QED BY <1>16, <2>1 DEF RequestRule
<1> QED BY <1>0, <1>1, <1>2, <1>3, <1>4, <1>5, <1>6, <1>7, <1>8, <1>9, <1>10, <1>11, <1>12, <1>13, <1>14, <1>15, <1>16

LEMMA AnswerRules ==
  ASSUME NEW path, NEW k \in DOMAIN Document!responseRules, Document!Ends(Document!responseRules[k], path)
  PROVE  AnswerRule(path) = k
<1>0. k \in 1 .. 11
  BY DEF Document!responseRules
<1>1. CASE k = 1
  BY <1>1, PlainRule DEF Document!responseRules, Document!Text, Document!Json, Document!Object, AnswerRule
<1>2. CASE k = 2
  BY <1>2, PlainRule DEF Document!responseRules, Document!Text, Document!Json, Document!Object, AnswerRule
<1>3. CASE k = 3
  BY <1>3, PlainRule DEF Document!responseRules, Document!Text, Document!Json, Document!Object, AnswerRule
<1>4. CASE k = 4
  BY <1>4, PlainRule DEF Document!responseRules, Document!Text, Document!Json, Document!Object, AnswerRule
<1>5. CASE k = 5
  <2>1. path[1] = "choices" /\ path[3] = "message" /\ path[4] = "tool_calls"
    BY <1>5, PlainRule DEF Document!responseRules, Document!Text, Document!Json, Document!Object
  <2> QED BY <1>5, <2>1 DEF AnswerRule
<1>6. CASE k = 6
  BY <1>6, PlainRule DEF Document!responseRules, Document!Text, Document!Json, Document!Object, AnswerRule
<1>7. CASE k = 7
  BY <1>7, PlainRule DEF Document!responseRules, Document!Text, Document!Json, Document!Object, AnswerRule
<1>8. CASE k = 8
  BY <1>8, PlainRule DEF Document!responseRules, Document!Text, Document!Json, Document!Object, AnswerRule
<1>9. CASE k = 9
  BY <1>9, PlainRule DEF Document!responseRules, Document!Text, Document!Json, Document!Object, AnswerRule
<1>10. CASE k = 10
  BY <1>10, PlainRule DEF Document!responseRules, Document!Text, Document!Json, Document!Object, AnswerRule
<1>11. CASE k = 11
  BY <1>11, PlainRule DEF Document!responseRules, Document!Text, Document!Json, Document!Object, AnswerRule
<1> QED BY <1>0, <1>1, <1>2, <1>3, <1>4, <1>5, <1>6, <1>7, <1>8, <1>9, <1>10, <1>11

\* Rule k transforms a leaf.
Reaches(k, leaf) == k \in DOMAIN Document!Rules /\ leaf \in Document!Touched(Document!Rules[k])

LEMMA OneRule ==
  ASSUME NEW leaf, NEW j, NEW k, Reaches(j, leaf), Reaches(k, leaf)
  PROVE  j = k
<1>1. CASE way = "request"
  <2>1. Document!Rules = Document!sanitizeRules
    BY <1>1 DEF Document!Rules
  <2>2. /\ j \in DOMAIN Document!sanitizeRules /\ Document!Ends(Document!sanitizeRules[j], leaf.path)
        /\ k \in DOMAIN Document!sanitizeRules /\ Document!Ends(Document!sanitizeRules[k], leaf.path)
    BY <2>1 DEF Reaches, Document!Touched
  <2> QED BY <2>2, RequestRules
<1>2. CASE way # "request"
  <2>1. Document!Rules = Document!responseRules
    BY <1>2 DEF Document!Rules
  <2>2. /\ j \in DOMAIN Document!responseRules /\ Document!Ends(Document!responseRules[j], leaf.path)
        /\ k \in DOMAIN Document!responseRules /\ Document!Ends(Document!responseRules[k], leaf.path)
    BY <2>1 DEF Reaches, Document!Touched
  <2> QED BY <2>2, AnswerRules
<1> QED BY <1>1, <1>2

LEMMA RulesThere == DOMAIN Document!Rules = 1 .. Len(Document!Rules) /\ Len(Document!Rules) \in Nat
<1>1. /\ DOMAIN Document!sanitizeRules = 1 .. Len(Document!sanitizeRules)
      /\ Len(Document!sanitizeRules) \in Nat
  BY DEF Document!sanitizeRules
<1>2. /\ DOMAIN Document!responseRules = 1 .. Len(Document!responseRules)
      /\ Len(Document!responseRules) \in Nat
  BY DEF Document!responseRules
<1> QED BY <1>1, <1>2 DEF Document!Rules

\* Of a body that is passed on, what a rule reaches was transformed once, and
\* nothing else was.
OnceEach ==
  result = "sent" =>
    \A leaf \in doc : times[leaf] = IF \E k \in DOMAIN Document!Rules : Reaches(k, leaf) THEN 1 ELSE 0

\* So far: what a rule before the next one reaches.
SoFar ==
  /\ rule \in Nat \ {0} /\ times \in [doc -> Nat]
  /\ result = "sent" => rule > Len(Document!Rules)
  /\ result \in {"open", "sent"} =>
       \A leaf \in doc : times[leaf] = IF \E k \in 1 .. rule - 1 : Reaches(k, leaf) THEN 1 ELSE 0

LEMMA RuleApplied ==
  ASSUME SoFar, Document!Next \/ UNCHANGED Document!vars
  PROVE  SoFar'
<1>0. rule \in Nat \ {0} /\ times \in [doc -> Nat] /\ Len(Document!Rules) \in Nat
  BY RulesThere DEF SoFar
<1>1. doc' = doc /\ way' = way
  BY DEF Document!Next, Document!Apply, Document!Fails, Document!Finish, Document!vars
<1>2. Document!Rules' = Document!Rules
  BY <1>1 DEF Document!Rules
<1>3. \A k, leaf : Reaches(k, leaf)' <=> Reaches(k, leaf)
  BY <1>1, <1>2 DEF Reaches, Document!Touched
<1>4. CASE Document!Apply
  <2>1. /\ result = "open" /\ result' = "open" /\ rule' = rule + 1 /\ rule <= Len(Document!Rules)
        /\ times' = [leaf \in doc |->
                       times[leaf] + IF leaf \in Document!Touched(Document!Rules[rule]) THEN 1 ELSE 0]
    BY <1>4 DEF Document!Apply
  <2>2. \A leaf : leaf \in Document!Touched(Document!Rules[rule]) <=> Reaches(rule, leaf)
    BY <1>0, <2>1, RulesThere DEF Reaches
  <2>3. ASSUME NEW leaf \in doc
        PROVE  times'[leaf] = IF \E k \in 1 .. rule : Reaches(k, leaf) THEN 1 ELSE 0
    <3>1. times[leaf] = IF \E k \in 1 .. rule - 1 : Reaches(k, leaf) THEN 1 ELSE 0
      BY <2>1 DEF SoFar
    <3>2. times'[leaf] = times[leaf] + IF Reaches(rule, leaf) THEN 1 ELSE 0
      BY <2>1, <2>2
    <3>3. Reaches(rule, leaf) => ~\E k \in 1 .. rule - 1 : Reaches(k, leaf)
      <4>1. \A k \in 1 .. rule - 1 : k # rule
        BY <1>0
      <4> QED BY <4>1, OneRule
    <3>4. (\E k \in 1 .. rule : Reaches(k, leaf))
            <=> Reaches(rule, leaf) \/ \E k \in 1 .. rule - 1 : Reaches(k, leaf)
      <4>1. 1 .. rule = 1 .. rule - 1 \cup {rule}
        BY <1>0
      <4> QED BY <4>1
    <3> QED BY <3>1, <3>2, <3>3, <3>4
  <2>4. times' \in [doc -> Nat]
    BY <1>0, <2>1
  <2>5. rule' \in Nat \ {0} /\ rule' - 1 = rule
    BY <1>0, <2>1
  <2> QED BY <1>1, <1>3, <2>1, <2>3, <2>4, <2>5 DEF SoFar
<1>5. CASE Document!Fails
  <2>1. /\ result' \notin {"open", "sent"} /\ rule' = rule
        /\ times' = [leaf \in doc |-> 0]
    BY <1>5 DEF Document!Fails
  <2>2. times' \in [doc -> Nat]
    BY <2>1
  <2> QED BY <1>0, <1>1, <2>1, <2>2 DEF SoFar
<1>6. CASE Document!Finish \/ UNCHANGED Document!vars
  <2>1. /\ rule' = rule /\ times' = times
        /\ result' \in {"open", "sent"} => result \in {"open", "sent"}
        /\ result' = "sent" => rule > Len(Document!Rules)
    BY <1>6 DEF Document!Finish, Document!vars, SoFar
  <2> QED BY <1>0, <1>1, <1>2, <1>3, <2>1 DEF SoFar
<1> QED BY <1>4, <1>5, <1>6 DEF Document!Next

LEMMA SoFarOnce == SoFar => OnceEach
<1>1. ASSUME SoFar, result = "sent" PROVE DOMAIN Document!Rules \subseteq 1 .. rule - 1
  BY <1>1, RulesThere DEF SoFar
<1>2. \A k, leaf : Reaches(k, leaf) => k \in DOMAIN Document!Rules
  BY DEF Reaches
<1> QED BY <1>1, <1>2 DEF SoFar, OnceEach

\* SanitizeDocument, RestoreDocument: whatever a document holds, no string is
\* transformed by two rules; every one that a rule reaches is by one.
THEOREM DocumentOnceEach == Document!Spec => []OnceEach
<1>1. Document!Init => SoFar
  <2> SUFFICES ASSUME Document!Init PROVE SoFar
    OBVIOUS
  <2>1. rule = 1 /\ times = [leaf \in doc |-> 0] /\ result = "open"
    BY DEF Document!Init
  <2>2. 1 .. rule - 1 = {}
    BY <2>1
  <2> QED BY <2>1, <2>2 DEF SoFar
<1>2. SoFar /\ [Document!Next]_(Document!vars) => SoFar'
  BY RuleApplied
<1> QED BY <1>1, <1>2, SoFarOnce, PTL DEF Document!Spec

-----------------------------------------------------------------------------
\* A rule transforms a leaf, of whatever document; of n segments, it goes along the
\* leaf's path.
Hits(r, leaf) == Document!Ends(r, leaf.path) /\ Document!applyTransform(r, leaf)
Follows(r, leaf, n) ==
  /\ DOMAIN r.path = 1 .. n /\ Len(r.path) = n
  /\ Len(leaf.path) = n \/ (r.kind = "object" /\ Len(leaf.path) = n + 1)
  /\ \A i \in 1 .. n : r.path[i] # "**" /\
       (leaf.path[i] = r.path[i] \/ (r.path[i] = "[*]" /\ leaf.path[i] \in {"0", "1"}))
  /\ leaf.kind = "json" \/ (leaf.kind = "string" /\ r.kind # "json")
  /\ r.kind \in {"text", "json"} \/ (r.kind = "object" /\ Len(leaf.path) = n + 1)

LEMMA FollowsHits ==
  ASSUME NEW r, NEW n \in Nat, NEW leaf, Follows(r, leaf, n)
  PROVE  Hits(r, leaf)
<1>1. ~Document!IsDeep(r)
  BY DEF Document!IsDeep, Follows
<1>2. Document!walk(r.path, leaf.path)
  BY DEF Document!walk, Document!Elements, Follows
<1>3. Document!applyTransform(r, leaf)
  <2>1. CASE r.kind = "object"
    <3>1. Len(leaf.path) = n + 1 /\ Len(r.path) = n /\ leaf.kind \in {"string", "json"}
      BY <2>1 DEF Follows
    <3>2. Len(leaf.path) > Len(r.path)
      BY <3>1
    <3> QED BY <2>1, <3>1, <3>2 DEF Document!applyTransform
  <2>2. CASE r.kind = "text"
    BY <2>2 DEF Document!applyTransform, Follows
  <2>3. CASE r.kind = "json"
    BY <2>3 DEF Document!applyTransform, Follows
  <2> QED BY <2>1, <2>2, <2>3 DEF Follows
<1> QED BY <1>1, <1>2, <1>3 DEF Document!Ends, Follows, Hits

\* The rules reach a leaf where they should.
Wanted(leaf) == leaf.prose /\ ~Document!BelowDescription(leaf) /\ ~Document!NotJson(leaf)
Right(rules, leaf) == (\E k \in DOMAIN rules : Hits(rules[k], leaf)) <=> Wanted(leaf)

\* What the members of the bodies are called.
Names ==
  {"0", "1", "a", "arguments", "b", "choices", "content", "content_block",
   "delta", "description", "enum", "finish_reason", "function", "function_call",
   "id", "input", "items", "k", "message", "messages", "model", "name",
   "output", "parameters", "prompt", "properties", "reasoning_content", "role",
   "system", "text", "tool_call_id", "tool_calls", "tool_use_id", "tools",
   "type"}

\* The paths of the corpus by their places.
LEMMA JoinedTexts ==
  ASSUME NEW s \in Seq(Names), NEW t \in Seq(Names), NEW n \in Nat, Len(s) = n
  PROVE  /\ s \o t \in Seq(Names) /\ Len(s \o t) = n + Len(t)
         /\ \A i \in 1 .. n : (s \o t)[i] = s[i]
         /\ \A i \in 1 .. Len(t) : (s \o t)[n + i] = t[i]
OBVIOUS

LEMMA MessagePath ==
  ASSUME NEW t \in Seq(Names)
  PROVE  /\ Len(Message \o t) = 2 + Len(t)
         /\ (Message \o t)[1] = "messages" /\ (Message \o t)[2] = "0"
         /\ \A i \in 1 .. Len(t) : (Message \o t)[2 + i] = t[i]
<1>1. /\ Message \in Seq(Names) /\ Len(Message) = 2 /\ Message[1] = "messages"
      /\ Message[2] = "0"
  BY DEF Message, Names
<1>2. 1 \in 1 .. 2 /\ 2 \in 1 .. 2 /\ 2 \in Nat
  OBVIOUS
<1> QED BY <1>1, <1>2, JoinedTexts

LEMMA BlockPath ==
  ASSUME NEW t \in Seq(Names)
  PROVE  /\ Len(Block \o t) = 4 + Len(t)
         /\ (Block \o t)[1] = "messages" /\ (Block \o t)[2] = "0"
         /\ (Block \o t)[3] = "content" /\ (Block \o t)[4] = "0"
         /\ \A i \in 1 .. Len(t) : (Block \o t)[4 + i] = t[i]
<1>1. /\ Block \in Seq(Names) /\ Len(Block) = 4 /\ Block[1] = "messages"
      /\ Block[2] = "0" /\ Block[3] = "content" /\ Block[4] = "0"
  <2> DEFINE u == <<"content", "0">>
  <2>1. u \in Seq(Names) /\ Len(u) = 2 /\ u[1] = "content" /\ u[2] = "0"
    BY DEF Names
  <2>2. Message \in Seq(Names) /\ Len(Message) = 2
    BY DEF Message, Names
  <2>3. Block = Message \o u
    BY DEF Block
  <2>4. 2 + 1 = 3 /\ 2 + 2 = 4 /\ 1 \in 1 .. 2 /\ 2 \in 1 .. 2 /\ 2 \in Nat
    OBVIOUS
  <2> HIDE DEF u
  <2> QED BY <2>1, <2>2, <2>3, <2>4, MessagePath, JoinedTexts
<1>2. 1 \in 1 .. 4 /\ 2 \in 1 .. 4 /\ 3 \in 1 .. 4 /\ 4 \in 1 .. 4 /\ 4 \in Nat
  OBVIOUS
<1> QED BY <1>1, <1>2, JoinedTexts

LEMMA FnPath ==
  ASSUME NEW t \in Seq(Names)
  PROVE  /\ Len(Fn \o t) = 3 + Len(t)
         /\ (Fn \o t)[1] = "tools" /\ (Fn \o t)[2] = "0" /\ (Fn \o t)[3] = "function"
         /\ \A i \in 1 .. Len(t) : (Fn \o t)[3 + i] = t[i]
<1>1. /\ Fn \in Seq(Names) /\ Len(Fn) = 3 /\ Fn[1] = "tools" /\ Fn[2] = "0"
      /\ Fn[3] = "function"
  BY DEF Fn, Names
<1>2. 1 \in 1 .. 3 /\ 2 \in 1 .. 3 /\ 3 \in 1 .. 3 /\ 3 \in Nat
  OBVIOUS
<1> QED BY <1>1, <1>2, JoinedTexts

LEMMA SchemaPath ==
  ASSUME NEW t \in Seq(Names)
  PROVE  /\ Len(Schema \o t) = 6 + Len(t)
         /\ (Schema \o t)[1] = "tools" /\ (Schema \o t)[2] = "0"
         /\ (Schema \o t)[3] = "function" /\ (Schema \o t)[4] = "parameters"
         /\ (Schema \o t)[5] = "properties" /\ (Schema \o t)[6] = "a"
         /\ \A i \in 1 .. Len(t) : (Schema \o t)[6 + i] = t[i]
<1>1. /\ Schema \in Seq(Names) /\ Len(Schema) = 6 /\ Schema[1] = "tools"
      /\ Schema[2] = "0" /\ Schema[3] = "function" /\ Schema[4] = "parameters"
      /\ Schema[5] = "properties" /\ Schema[6] = "a"
  <2> DEFINE u == <<"parameters", "properties", "a">>
  <2>1. u \in Seq(Names) /\ Len(u) = 3 /\ u[1] = "parameters" /\ u[2] = "properties" /\ u[3] = "a"
    BY DEF Names
  <2>2. Fn \in Seq(Names) /\ Len(Fn) = 3
    BY DEF Fn, Names
  <2>3. Schema = Fn \o u
    BY DEF Schema
  <2>4. 3 + 1 = 4 /\ 3 + 2 = 5 /\ 3 + 3 = 6 /\ 1 \in 1 .. 3 /\ 2 \in 1 .. 3 /\ 3 \in 1 .. 3 /\ 3 \in Nat
    OBVIOUS
  <2> HIDE DEF u
  <2> QED BY <2>1, <2>2, <2>3, <2>4, FnPath, JoinedTexts
<1>2. 1 \in 1 .. 6 /\ 2 \in 1 .. 6 /\ 3 \in 1 .. 6 /\ 4 \in 1 .. 6 /\ 5 \in 1 .. 6 /\ 6 \in 1 .. 6 /\ 6 \in Nat
  OBVIOUS
<1> QED BY <1>1, <1>2, JoinedTexts

LEMMA ChoicePath ==
  ASSUME NEW t \in Seq(Names)
  PROVE  /\ Len(Choice \o t) = 2 + Len(t)
         /\ (Choice \o t)[1] = "choices" /\ (Choice \o t)[2] = "0"
         /\ \A i \in 1 .. Len(t) : (Choice \o t)[2 + i] = t[i]
<1>1. /\ Choice \in Seq(Names) /\ Len(Choice) = 2 /\ Choice[1] = "choices"
      /\ Choice[2] = "0"
  BY DEF Choice, Names
<1>2. 1 \in 1 .. 2 /\ 2 \in 1 .. 2 /\ 2 \in Nat
  OBVIOUS
<1> QED BY <1>1, <1>2, JoinedTexts

LEMMA RequestRight == \A leaf \in RequestLeaves : Right(Document!sanitizeRules, leaf)
<1> SUFFICES ASSUME NEW leaf \in RequestLeaves PROVE Right(Document!sanitizeRules, leaf)
  OBVIOUS
<1>0. DOMAIN Document!sanitizeRules = 1 .. 16
  BY DEF Document!sanitizeRules
<1>1. CASE leaf = Prose(Message \o <<"content">>)
  <2>0. leaf.kind = "string" /\ leaf.prose
    BY <1>1 DEF Prose, Leaf
  <2>1. /\ Len(leaf.path) = 3 /\ leaf.path[1] = "messages" /\ leaf.path[2] = "0"
        /\ leaf.path[3] = "content"
    <3> DEFINE t == <<"content">>
    <3>1. leaf.path = Message \o t
      BY <1>1 DEF Prose, Leaf
    <3>2. t \in Seq(Names) /\ Len(t) = 1 /\ t[1] = "content"
      BY DEF Names
    <3>3. 2 + 1 = 3 /\ 1 \in 1 .. 1
      OBVIOUS
    <3> HIDE DEF t
    <3> QED BY <3>1, <3>2, <3>3, MessagePath
  <2>2. Wanted(leaf)
    BY <2>0, <2>1 DEF Wanted, Document!BelowDescription, Document!NotJson
  <2>3. Follows(Document!sanitizeRules[2], leaf, 3)
    BY <2>0, <2>1 DEF Follows, Document!sanitizeRules, Document!Text
  <2> QED BY <1>0, <2>2, <2>3, FollowsHits DEF Right
<1>2. CASE leaf = Prose(Block \o <<"text">>)
  <2>0. leaf.kind = "string" /\ leaf.prose
    BY <1>2 DEF Prose, Leaf
  <2>1. /\ Len(leaf.path) = 5 /\ leaf.path[1] = "messages" /\ leaf.path[2] = "0"
        /\ leaf.path[3] = "content" /\ leaf.path[4] = "0" /\ leaf.path[5] = "text"
    <3> DEFINE t == <<"text">>
    <3>1. leaf.path = Block \o t
      BY <1>2 DEF Prose, Leaf
    <3>2. t \in Seq(Names) /\ Len(t) = 1 /\ t[1] = "text"
      BY DEF Names
    <3>3. 4 + 1 = 5 /\ 1 \in 1 .. 1
      OBVIOUS
    <3> HIDE DEF t
    <3> QED BY <3>1, <3>2, <3>3, BlockPath, Zenon
  <2>2. Wanted(leaf)
    BY <2>0, <2>1 DEF Wanted, Document!BelowDescription, Document!NotJson
  <2>3. Follows(Document!sanitizeRules[3], leaf, 5)
    BY <2>0, <2>1 DEF Follows, Document!sanitizeRules, Document!Text
  <2> QED BY <1>0, <2>2, <2>3, FollowsHits DEF Right
<1>3. CASE leaf = Prose(Block \o <<"content">>)
  <2>0. leaf.kind = "string" /\ leaf.prose
    BY <1>3 DEF Prose, Leaf
  <2>1. /\ Len(leaf.path) = 5 /\ leaf.path[1] = "messages" /\ leaf.path[2] = "0"
        /\ leaf.path[3] = "content" /\ leaf.path[4] = "0" /\ leaf.path[5] = "content"
    <3> DEFINE t == <<"content">>
    <3>1. leaf.path = Block \o t
      BY <1>3 DEF Prose, Leaf
    <3>2. t \in Seq(Names) /\ Len(t) = 1 /\ t[1] = "content"
      BY DEF Names
    <3>3. 4 + 1 = 5 /\ 1 \in 1 .. 1
      OBVIOUS
    <3> HIDE DEF t
    <3> QED BY <3>1, <3>2, <3>3, BlockPath
  <2>2. Wanted(leaf)
    BY <2>0, <2>1 DEF Wanted, Document!BelowDescription, Document!NotJson
  <2>3. Follows(Document!sanitizeRules[5], leaf, 5)
    BY <2>0, <2>1 DEF Follows, Document!sanitizeRules, Document!Text
  <2> QED BY <1>0, <2>2, <2>3, FollowsHits DEF Right
<1>4. CASE leaf = Prose(Block \o <<"content", "1", "text">>)
  <2>0. leaf.kind = "string" /\ leaf.prose
    BY <1>4 DEF Prose, Leaf
  <2>1. /\ Len(leaf.path) = 7 /\ leaf.path[1] = "messages" /\ leaf.path[2] = "0"
        /\ leaf.path[3] = "content" /\ leaf.path[4] = "0" /\ leaf.path[5] = "content"
        /\ leaf.path[6] = "1" /\ leaf.path[7] = "text"
    <3> DEFINE t == <<"content", "1", "text">>
    <3>1. leaf.path = Block \o t
      BY <1>4 DEF Prose, Leaf
    <3>2. t \in Seq(Names) /\ Len(t) = 3 /\ t[1] = "content" /\ t[2] = "1" /\ t[3] = "text"
      BY DEF Names
    <3>3. 4 + 1 = 5 /\ 4 + 2 = 6 /\ 4 + 3 = 7 /\ 1 \in 1 .. 3 /\ 2 \in 1 .. 3 /\ 3 \in 1 .. 3
      OBVIOUS
    <3> HIDE DEF t
    <3> QED BY <3>1, <3>2, <3>3, BlockPath
  <2>2. Wanted(leaf)
    BY <2>0, <2>1 DEF Wanted, Document!BelowDescription, Document!NotJson
  <2>3. Follows(Document!sanitizeRules[6], leaf, 7)
    BY <2>0, <2>1 DEF Follows, Document!sanitizeRules, Document!Text
  <2> QED BY <1>0, <2>2, <2>3, FollowsHits DEF Right
<1>5. CASE leaf = Prose(Block \o <<"input", "k">>)
  <2>0. leaf.kind = "string" /\ leaf.prose
    BY <1>5 DEF Prose, Leaf
  <2>1. /\ Len(leaf.path) = 6 /\ leaf.path[1] = "messages" /\ leaf.path[2] = "0"
        /\ leaf.path[3] = "content" /\ leaf.path[4] = "0" /\ leaf.path[5] = "input"
        /\ leaf.path[6] = "k"
    <3> DEFINE t == <<"input", "k">>
    <3>1. leaf.path = Block \o t
      BY <1>5 DEF Prose, Leaf
    <3>2. t \in Seq(Names) /\ Len(t) = 2 /\ t[1] = "input" /\ t[2] = "k"
      BY DEF Names
    <3>3. 4 + 1 = 5 /\ 4 + 2 = 6 /\ 1 \in 1 .. 2 /\ 2 \in 1 .. 2
      OBVIOUS
    <3> HIDE DEF t
    <3> QED BY <3>1, <3>2, <3>3, BlockPath
  <2>2. Wanted(leaf)
    BY <2>0, <2>1 DEF Wanted, Document!BelowDescription, Document!NotJson
  <2>3. Follows(Document!sanitizeRules[7], leaf, 5)
    BY <2>0, <2>1 DEF Follows, Document!sanitizeRules, Document!Object
  <2> QED BY <1>0, <2>2, <2>3, FollowsHits DEF Right
<1>6. CASE leaf = Leaf(Message \o <<"tool_calls", "0", "function", "arguments">>, "json", TRUE)
  <2>0. leaf.kind = "json" /\ leaf.prose
    BY <1>6 DEF Leaf
  <2>1. /\ Len(leaf.path) = 6 /\ leaf.path[1] = "messages" /\ leaf.path[2] = "0"
        /\ leaf.path[3] = "tool_calls" /\ leaf.path[4] = "0" /\ leaf.path[5] = "function"
        /\ leaf.path[6] = "arguments"
    <3> DEFINE t == <<"tool_calls", "0", "function", "arguments">>
    <3>1. leaf.path = Message \o t
      BY <1>6 DEF Leaf
    <3>2. t \in Seq(Names) /\ Len(t) = 4 /\ t[1] = "tool_calls" /\ t[2] = "0" /\ t[3] = "function" /\ t[4] = "arguments"
      BY DEF Names
    <3>3. 2 + 1 = 3 /\ 2 + 2 = 4 /\ 2 + 3 = 5 /\ 2 + 4 = 6 /\ 1 \in 1 .. 4 /\ 2 \in 1 .. 4 /\ 3 \in 1 .. 4 /\ 4 \in 1 .. 4
      OBVIOUS
    <3> HIDE DEF t
    <3> QED BY <3>1, <3>2, <3>3, MessagePath
  <2>2. Wanted(leaf)
    BY <2>0, <2>1 DEF Wanted, Document!BelowDescription, Document!NotJson
  <2>3. Follows(Document!sanitizeRules[4], leaf, 6)
    BY <2>0, <2>1 DEF Follows, Document!sanitizeRules, Document!Json
  <2> QED BY <1>0, <2>2, <2>3, FollowsHits DEF Right
<1>7. CASE leaf = Leaf(Message \o <<"tool_calls", "0", "function", "arguments">>, "string", TRUE)
  <2>0. leaf.kind = "string" /\ leaf.prose
    BY <1>7 DEF Leaf
  <2>1. /\ Len(leaf.path) = 6 /\ leaf.path[1] = "messages" /\ leaf.path[2] = "0"
        /\ leaf.path[3] = "tool_calls" /\ leaf.path[4] = "0" /\ leaf.path[5] = "function"
        /\ leaf.path[6] = "arguments"
    <3> DEFINE t == <<"tool_calls", "0", "function", "arguments">>
    <3>1. leaf.path = Message \o t
      BY <1>7 DEF Leaf
    <3>2. t \in Seq(Names) /\ Len(t) = 4 /\ t[1] = "tool_calls" /\ t[2] = "0" /\ t[3] = "function" /\ t[4] = "arguments"
      BY DEF Names
    <3>3. 2 + 1 = 3 /\ 2 + 2 = 4 /\ 2 + 3 = 5 /\ 2 + 4 = 6 /\ 1 \in 1 .. 4 /\ 2 \in 1 .. 4 /\ 3 \in 1 .. 4 /\ 4 \in 1 .. 4
      OBVIOUS
    <3> HIDE DEF t
    <3> QED BY <3>1, <3>2, <3>3, MessagePath
  <2>2. ~Wanted(leaf)
    BY <2>0, <2>1 DEF Wanted, Document!BelowDescription, Document!NotJson
  <2>3. ASSUME NEW c \in DOMAIN Document!sanitizeRules, Hits(Document!sanitizeRules[c], leaf) PROVE FALSE
    <3>1. c \in {4}
      BY <2>1, <2>3, RequestRules DEF Hits, RequestRule
    <3>2. c # 4
      <4>1. Document!sanitizeRules[4].kind = "json"
        BY DEF Document!sanitizeRules, Document!Json
      <4> QED BY <2>0, <2>1, <2>3, <4>1 DEF Hits, Document!applyTransform
    <3> QED BY <3>1, <3>2
  <2> QED BY <2>2, <2>3 DEF Right
<1>8. CASE leaf = Leaf(Message \o <<"function_call", "arguments">>, "json", TRUE)
  <2>0. leaf.kind = "json" /\ leaf.prose
    BY <1>8 DEF Leaf
  <2>1. /\ Len(leaf.path) = 4 /\ leaf.path[1] = "messages" /\ leaf.path[2] = "0"
        /\ leaf.path[3] = "function_call" /\ leaf.path[4] = "arguments"
    <3> DEFINE t == <<"function_call", "arguments">>
    <3>1. leaf.path = Message \o t
      BY <1>8 DEF Leaf
    <3>2. t \in Seq(Names) /\ Len(t) = 2 /\ t[1] = "function_call" /\ t[2] = "arguments"
      BY DEF Names
    <3>3. 2 + 1 = 3 /\ 2 + 2 = 4 /\ 1 \in 1 .. 2 /\ 2 \in 1 .. 2
      OBVIOUS
    <3> HIDE DEF t
    <3> QED BY <3>1, <3>2, <3>3, MessagePath
  <2>2. Wanted(leaf)
    BY <2>0, <2>1 DEF Wanted, Document!BelowDescription, Document!NotJson
  <2>3. Follows(Document!sanitizeRules[8], leaf, 4)
    BY <2>0, <2>1 DEF Follows, Document!sanitizeRules, Document!Json
  <2> QED BY <1>0, <2>2, <2>3, FollowsHits DEF Right
<1>9. CASE leaf = Leaf(<<"messages", "1", "content">>, "json", TRUE)
  <2>0. leaf.kind = "json" /\ leaf.prose
    BY <1>9 DEF Leaf
  <2>1. /\ Len(leaf.path) = 3 /\ leaf.path[1] = "messages" /\ leaf.path[2] = "1"
        /\ leaf.path[3] = "content"
    BY <1>9 DEF Leaf
  <2>2. Wanted(leaf)
    BY <2>0, <2>1 DEF Wanted, Document!BelowDescription, Document!NotJson
  <2>3. Follows(Document!sanitizeRules[2], leaf, 3)
    BY <2>0, <2>1 DEF Follows, Document!sanitizeRules, Document!Text
  <2> QED BY <1>0, <2>2, <2>3, FollowsHits DEF Right
<1>10. CASE leaf = Prose(Fn \o <<"description">>)
  <2>0. leaf.kind = "string" /\ leaf.prose
    BY <1>10 DEF Prose, Leaf
  <2>1. /\ Len(leaf.path) = 4 /\ leaf.path[1] = "tools" /\ leaf.path[2] = "0"
        /\ leaf.path[3] = "function" /\ leaf.path[4] = "description"
    <3> DEFINE t == <<"description">>
    <3>1. leaf.path = Fn \o t
      BY <1>10 DEF Prose, Leaf
    <3>2. t \in Seq(Names) /\ Len(t) = 1 /\ t[1] = "description"
      BY DEF Names
    <3>3. 3 + 1 = 4 /\ 1 \in 1 .. 1
      OBVIOUS
    <3> HIDE DEF t
    <3> QED BY <3>1, <3>2, <3>3, FnPath
  <2>2. Wanted(leaf)
    BY <2>0, <2>1 DEF Wanted, Document!BelowDescription, Document!NotJson
  <2>3. Follows(Document!sanitizeRules[14], leaf, 4)
    BY <2>0, <2>1 DEF Follows, Document!sanitizeRules, Document!Text
  <2> QED BY <1>0, <2>2, <2>3, FollowsHits DEF Right
<1>11. CASE leaf = Prose(<<"tools", "1", "description">>)
  <2>0. leaf.kind = "string" /\ leaf.prose
    BY <1>11 DEF Prose, Leaf
  <2>1. /\ Len(leaf.path) = 3 /\ leaf.path[1] = "tools" /\ leaf.path[2] = "1"
        /\ leaf.path[3] = "description"
    BY <1>11 DEF Prose, Leaf
  <2>2. Wanted(leaf)
    BY <2>0, <2>1 DEF Wanted, Document!BelowDescription, Document!NotJson
  <2>3. Follows(Document!sanitizeRules[15], leaf, 3)
    BY <2>0, <2>1 DEF Follows, Document!sanitizeRules, Document!Text
  <2> QED BY <1>0, <2>2, <2>3, FollowsHits DEF Right
<1>12. CASE leaf = Prose(Schema \o <<"description">>)
  <2>0. leaf.kind = "string" /\ leaf.prose
    BY <1>12 DEF Prose, Leaf
  <2>1. /\ Len(leaf.path) = 7 /\ leaf.path[1] = "tools" /\ leaf.path[2] = "0"
        /\ leaf.path[3] = "function" /\ leaf.path[4] = "parameters"
        /\ leaf.path[5] = "properties" /\ leaf.path[6] = "a"
        /\ leaf.path[7] = "description"
    <3> DEFINE t == <<"description">>
    <3>1. leaf.path = Schema \o t
      BY <1>12 DEF Prose, Leaf
    <3>2. t \in Seq(Names) /\ Len(t) = 1 /\ t[1] = "description"
      BY DEF Names
    <3>3. 6 + 1 = 7 /\ 1 \in 1 .. 1
      OBVIOUS
    <3> HIDE DEF t
    <3> QED BY <3>1, <3>2, <3>3, SchemaPath
  <2>2. Wanted(leaf)
    BY <2>0, <2>1 DEF Wanted, Document!BelowDescription, Document!NotJson
  <2>3. Hits(Document!sanitizeRules[16], leaf)
    <3>1. 5 .. 7 = {5, 6, 7} /\ 4 <= 7 /\ 7 > 4
      OBVIOUS
    <3>2. Document!Ends(Document!sanitizeRules[16], leaf.path)
      <4>1. \A i \in 5 .. Len(leaf.path) : (leaf.path[i] = "description") = (i = Len(leaf.path))
        BY <2>1, <3>1
      <4> QED BY <2>1, <3>1, <4>1, DeepEnds
    <3>3. Document!sanitizeRules[16].kind = "text"
      BY DEF Document!sanitizeRules, Document!Text
    <3> QED BY <2>0, <3>2, <3>3 DEF Hits, Document!applyTransform
  <2> QED BY <1>0, <2>2, <2>3 DEF Right
<1>13. CASE leaf = Prose(Schema \o <<"items", "b", "description">>)
  <2>0. leaf.kind = "string" /\ leaf.prose
    BY <1>13 DEF Prose, Leaf
  <2>1. /\ Len(leaf.path) = 9 /\ leaf.path[1] = "tools" /\ leaf.path[2] = "0"
        /\ leaf.path[3] = "function" /\ leaf.path[4] = "parameters"
        /\ leaf.path[5] = "properties" /\ leaf.path[6] = "a" /\ leaf.path[7] = "items"
        /\ leaf.path[8] = "b" /\ leaf.path[9] = "description"
    <3> DEFINE t == <<"items", "b", "description">>
    <3>1. leaf.path = Schema \o t
      BY <1>13 DEF Prose, Leaf
    <3>2. t \in Seq(Names) /\ Len(t) = 3 /\ t[1] = "items" /\ t[2] = "b" /\ t[3] = "description"
      BY DEF Names
    <3>3. 6 + 1 = 7 /\ 6 + 2 = 8 /\ 6 + 3 = 9 /\ 1 \in 1 .. 3 /\ 2 \in 1 .. 3 /\ 3 \in 1 .. 3
      OBVIOUS
    <3> HIDE DEF t
    <3>4. Len(leaf.path) = 9 /\ \A i \in 1 .. 3 : leaf.path[6 + i] = t[i]
      BY <3>1, <3>2, <3>3, SchemaPath, Zenon
    <3>5. /\ leaf.path[1] = "tools" /\ leaf.path[2] = "0" /\ leaf.path[3] = "function"
          /\ leaf.path[4] = "parameters" /\ leaf.path[5] = "properties"
          /\ leaf.path[6] = "a"
      BY <3>1, <3>2, SchemaPath
    <3>6. /\ leaf.path[7] = "items" /\ leaf.path[8] = "b" /\ leaf.path[9] = "description"
      BY <3>2, <3>3, <3>4
    <3> QED BY <3>4, <3>5, <3>6
  <2>2. Wanted(leaf)
    BY <2>0, <2>1 DEF Wanted, Document!BelowDescription, Document!NotJson
  <2>3. Hits(Document!sanitizeRules[16], leaf)
    <3>1. 5 .. 9 = {5, 6, 7, 8, 9} /\ 4 <= 9 /\ 9 > 4
      OBVIOUS
    <3>2. Document!Ends(Document!sanitizeRules[16], leaf.path)
      <4>1. \A i \in 5 .. Len(leaf.path) : (leaf.path[i] = "description") = (i = Len(leaf.path))
        BY <2>1, <3>1
      <4> QED BY <2>1, <3>1, <4>1, DeepEnds
    <3>3. Document!sanitizeRules[16].kind = "text"
      BY DEF Document!sanitizeRules, Document!Text
    <3> QED BY <2>0, <3>2, <3>3 DEF Hits, Document!applyTransform
  <2> QED BY <1>0, <2>2, <2>3 DEF Right
<1>14. CASE leaf = Prose(Fn \o <<"parameters", "properties", "description", "description">>)
  <2>0. leaf.kind = "string" /\ leaf.prose
    BY <1>14 DEF Prose, Leaf
  <2>1. /\ Len(leaf.path) = 7 /\ leaf.path[1] = "tools" /\ leaf.path[2] = "0"
        /\ leaf.path[3] = "function" /\ leaf.path[4] = "parameters"
        /\ leaf.path[5] = "properties" /\ leaf.path[6] = "description"
        /\ leaf.path[7] = "description"
    <3> DEFINE t == <<"parameters", "properties", "description", "description">>
    <3>1. leaf.path = Fn \o t
      BY <1>14 DEF Prose, Leaf
    <3>2. t \in Seq(Names) /\ Len(t) = 4 /\ t[1] = "parameters" /\ t[2] = "properties" /\ t[3] = "description" /\ t[4] = "description"
      BY DEF Names
    <3>3. 3 + 1 = 4 /\ 3 + 2 = 5 /\ 3 + 3 = 6 /\ 3 + 4 = 7 /\ 1 \in 1 .. 4 /\ 2 \in 1 .. 4 /\ 3 \in 1 .. 4 /\ 4 \in 1 .. 4
      OBVIOUS
    <3> HIDE DEF t
    <3> QED BY <3>1, <3>2, <3>3, FnPath, Zenon
  <2>2. ~Wanted(leaf)
    BY <2>0, <2>1 DEF Wanted, Document!BelowDescription, Document!NotJson
  <2>3. ASSUME NEW c \in DOMAIN Document!sanitizeRules, Hits(Document!sanitizeRules[c], leaf) PROVE FALSE
    <3>1. c \in {16}
      BY <2>1, <2>3, RequestRules DEF Hits, RequestRule
    <3>2. c # 16
      <4>1. 6 \in 5 .. 7 /\ ~(6 = 7)
        OBVIOUS
      <4> QED BY <2>1, <2>3, <4>1, DeepEnds DEF Hits
    <3> QED BY <3>1, <3>2
  <2> QED BY <2>2, <2>3 DEF Right
<1>15. CASE leaf = Prose(<<"prompt">>)
  <2>0. leaf.kind = "string" /\ leaf.prose
    BY <1>15 DEF Prose, Leaf
  <2>1. /\ Len(leaf.path) = 1 /\ leaf.path[1] = "prompt"
    BY <1>15 DEF Prose, Leaf
  <2>2. Wanted(leaf)
    BY <2>0, <2>1 DEF Wanted, Document!BelowDescription, Document!NotJson
  <2>3. Follows(Document!sanitizeRules[10], leaf, 1)
    BY <2>0, <2>1 DEF Follows, Document!sanitizeRules, Document!Text
  <2> QED BY <1>0, <2>2, <2>3, FollowsHits DEF Right
<1>16. CASE leaf = Prose(<<"input">>)
  <2>0. leaf.kind = "string" /\ leaf.prose
    BY <1>16 DEF Prose, Leaf
  <2>1. /\ Len(leaf.path) = 1 /\ leaf.path[1] = "input"
    BY <1>16 DEF Prose, Leaf
  <2>2. Wanted(leaf)
    BY <2>0, <2>1 DEF Wanted, Document!BelowDescription, Document!NotJson
  <2>3. Follows(Document!sanitizeRules[12], leaf, 1)
    BY <2>0, <2>1 DEF Follows, Document!sanitizeRules, Document!Text
  <2> QED BY <1>0, <2>2, <2>3, FollowsHits DEF Right
<1>17. CASE leaf = Prose(<<"input", "0">>)
  <2>0. leaf.kind = "string" /\ leaf.prose
    BY <1>17 DEF Prose, Leaf
  <2>1. /\ Len(leaf.path) = 2 /\ leaf.path[1] = "input" /\ leaf.path[2] = "0"
    BY <1>17 DEF Prose, Leaf
  <2>2. Wanted(leaf)
    BY <2>0, <2>1 DEF Wanted, Document!BelowDescription, Document!NotJson
  <2>3. Follows(Document!sanitizeRules[13], leaf, 2)
    BY <2>0, <2>1 DEF Follows, Document!sanitizeRules, Document!Text
  <2> QED BY <1>0, <2>2, <2>3, FollowsHits DEF Right
<1>18. CASE leaf = Leaf(<<"input", "0">>, "number", FALSE)
  <2>0. leaf.kind = "number" /\ ~leaf.prose
    BY <1>18 DEF Leaf
  <2>1. /\ Len(leaf.path) = 2 /\ leaf.path[1] = "input" /\ leaf.path[2] = "0"
    BY <1>18 DEF Leaf
  <2>2. ~Wanted(leaf)
    BY <2>0, <2>1 DEF Wanted, Document!BelowDescription, Document!NotJson
  <2>3. ASSUME NEW c \in DOMAIN Document!sanitizeRules, Hits(Document!sanitizeRules[c], leaf) PROVE FALSE
    <3>1. c \in {13}
      BY <2>1, <2>3, RequestRules DEF Hits, RequestRule
    <3>2. c # 13
      <4>1. Document!sanitizeRules[13].kind = "text"
        BY DEF Document!sanitizeRules, Document!Text
      <4> QED BY <2>0, <2>1, <2>3, <4>1 DEF Hits, Document!applyTransform
    <3> QED BY <3>1, <3>2
  <2> QED BY <2>2, <2>3 DEF Right
<1>19. CASE leaf = Prose(<<"input", "0", "content", "0", "text">>)
  <2>0. leaf.kind = "string" /\ leaf.prose
    BY <1>19 DEF Prose, Leaf
  <2>1. /\ Len(leaf.path) = 5 /\ leaf.path[1] = "input" /\ leaf.path[2] = "0"
        /\ leaf.path[3] = "content" /\ leaf.path[4] = "0" /\ leaf.path[5] = "text"
    BY <1>19 DEF Prose, Leaf
  <2>2. Wanted(leaf)
    BY <2>0, <2>1 DEF Wanted, Document!BelowDescription, Document!NotJson
  <2>3. Follows(Document!sanitizeRules[9], leaf, 5)
    BY <2>0, <2>1 DEF Follows, Document!sanitizeRules, Document!Text
  <2> QED BY <1>0, <2>2, <2>3, FollowsHits DEF Right
<1>20. CASE leaf = Prose(<<"system">>)
  <2>0. leaf.kind = "string" /\ leaf.prose
    BY <1>20 DEF Prose, Leaf
  <2>1. /\ Len(leaf.path) = 1 /\ leaf.path[1] = "system"
    BY <1>20 DEF Prose, Leaf
  <2>2. Wanted(leaf)
    BY <2>0, <2>1 DEF Wanted, Document!BelowDescription, Document!NotJson
  <2>3. Follows(Document!sanitizeRules[1], leaf, 1)
    BY <2>0, <2>1 DEF Follows, Document!sanitizeRules, Document!Text
  <2> QED BY <1>0, <2>2, <2>3, FollowsHits DEF Right
<1>21. CASE leaf = Prose(<<"system", "1", "text">>)
  <2>0. leaf.kind = "string" /\ leaf.prose
    BY <1>21 DEF Prose, Leaf
  <2>1. /\ Len(leaf.path) = 3 /\ leaf.path[1] = "system" /\ leaf.path[2] = "1"
        /\ leaf.path[3] = "text"
    BY <1>21 DEF Prose, Leaf
  <2>2. Wanted(leaf)
    BY <2>0, <2>1 DEF Wanted, Document!BelowDescription, Document!NotJson
  <2>3. Follows(Document!sanitizeRules[11], leaf, 3)
    BY <2>0, <2>1 DEF Follows, Document!sanitizeRules, Document!Text
  <2> QED BY <1>0, <2>2, <2>3, FollowsHits DEF Right
<1>22. CASE leaf = Token(Message \o <<"role">>)
  <2>0. leaf.kind = "string" /\ ~leaf.prose
    BY <1>22 DEF Token, Leaf
  <2>1. /\ Len(leaf.path) = 3 /\ leaf.path[1] = "messages" /\ leaf.path[2] = "0"
        /\ leaf.path[3] = "role"
    <3> DEFINE t == <<"role">>
    <3>1. leaf.path = Message \o t
      BY <1>22 DEF Token, Leaf
    <3>2. t \in Seq(Names) /\ Len(t) = 1 /\ t[1] = "role"
      BY DEF Names
    <3>3. 2 + 1 = 3 /\ 1 \in 1 .. 1
      OBVIOUS
    <3> HIDE DEF t
    <3> QED BY <3>1, <3>2, <3>3, MessagePath
  <2>2. ~Wanted(leaf)
    BY <2>0, <2>1 DEF Wanted, Document!BelowDescription, Document!NotJson
  <2>3. ASSUME NEW c \in DOMAIN Document!sanitizeRules, Hits(Document!sanitizeRules[c], leaf) PROVE FALSE
    <3>1. c \in {2}
      BY <2>1, <2>3, RequestRules DEF Hits, RequestRule
    <3>2. c # 2
      <4>1. Document!sanitizeRules[2].path = <<"messages", "[*]", "content">> /\ Document!sanitizeRules[2].kind = "text"
        BY DEF Document!sanitizeRules, Document!Text
      <4>2. \A i \in DOMAIN Document!sanitizeRules[2].path : Document!sanitizeRules[2].path[i] # "**"
        BY <4>1
      <4>3. 3 \in 1 .. Len(Document!sanitizeRules[2].path) /\ Document!sanitizeRules[2].path[3] = "content"
        BY <4>1
      <4> QED BY <2>1, <2>3, <4>2, <4>3, PlainRule DEF Hits
    <3> QED BY <3>1, <3>2
  <2> QED BY <2>2, <2>3 DEF Right
<1>23. CASE leaf = Token(Message \o <<"tool_call_id">>)
  <2>0. leaf.kind = "string" /\ ~leaf.prose
    BY <1>23 DEF Token, Leaf
  <2>1. /\ Len(leaf.path) = 3 /\ leaf.path[1] = "messages" /\ leaf.path[2] = "0"
        /\ leaf.path[3] = "tool_call_id"
    <3> DEFINE t == <<"tool_call_id">>
    <3>1. leaf.path = Message \o t
      BY <1>23 DEF Token, Leaf
    <3>2. t \in Seq(Names) /\ Len(t) = 1 /\ t[1] = "tool_call_id"
      BY DEF Names
    <3>3. 2 + 1 = 3 /\ 1 \in 1 .. 1
      OBVIOUS
    <3> HIDE DEF t
    <3> QED BY <3>1, <3>2, <3>3, MessagePath
  <2>2. ~Wanted(leaf)
    BY <2>0, <2>1 DEF Wanted, Document!BelowDescription, Document!NotJson
  <2>3. ASSUME NEW c \in DOMAIN Document!sanitizeRules, Hits(Document!sanitizeRules[c], leaf) PROVE FALSE
    <3>1. c \in {2}
      BY <2>1, <2>3, RequestRules DEF Hits, RequestRule
    <3>2. c # 2
      <4>1. Document!sanitizeRules[2].path = <<"messages", "[*]", "content">> /\ Document!sanitizeRules[2].kind = "text"
        BY DEF Document!sanitizeRules, Document!Text
      <4>2. \A i \in DOMAIN Document!sanitizeRules[2].path : Document!sanitizeRules[2].path[i] # "**"
        BY <4>1
      <4>3. 3 \in 1 .. Len(Document!sanitizeRules[2].path) /\ Document!sanitizeRules[2].path[3] = "content"
        BY <4>1
      <4> QED BY <2>1, <2>3, <4>2, <4>3, PlainRule DEF Hits
    <3> QED BY <3>1, <3>2
  <2> QED BY <2>2, <2>3 DEF Right
<1>24. CASE leaf = Token(<<"model">>)
  <2>0. leaf.kind = "string" /\ ~leaf.prose
    BY <1>24 DEF Token, Leaf
  <2>1. /\ Len(leaf.path) = 1 /\ leaf.path[1] = "model"
    BY <1>24 DEF Token, Leaf
  <2>2. ~Wanted(leaf)
    BY <2>0, <2>1 DEF Wanted, Document!BelowDescription, Document!NotJson
  <2>3. ASSUME NEW c \in DOMAIN Document!sanitizeRules, Hits(Document!sanitizeRules[c], leaf) PROVE FALSE
    <3>1. c \in {14, 15, 16}
      BY <2>1, <2>3, RequestRules DEF Hits, RequestRule
    <3>2. c # 14
      <4>1. Document!sanitizeRules[14].path = <<"tools", "[*]", "function", "description">> /\ Document!sanitizeRules[14].kind = "text"
        BY DEF Document!sanitizeRules, Document!Text
      <4>2. \A i \in DOMAIN Document!sanitizeRules[14].path : Document!sanitizeRules[14].path[i] # "**"
        BY <4>1
      <4>3. 1 \in 1 .. Len(Document!sanitizeRules[14].path) /\ Document!sanitizeRules[14].path[1] = "tools"
        BY <4>1
      <4> QED BY <2>1, <2>3, <4>2, <4>3, PlainRule DEF Hits
    <3>3. c # 15
      <4>1. Document!sanitizeRules[15].path = <<"tools", "[*]", "description">> /\ Document!sanitizeRules[15].kind = "text"
        BY DEF Document!sanitizeRules, Document!Text
      <4>2. \A i \in DOMAIN Document!sanitizeRules[15].path : Document!sanitizeRules[15].path[i] # "**"
        BY <4>1
      <4>3. 1 \in 1 .. Len(Document!sanitizeRules[15].path) /\ Document!sanitizeRules[15].path[1] = "tools"
        BY <4>1
      <4> QED BY <2>1, <2>3, <4>2, <4>3, PlainRule DEF Hits
    <3>4. c # 16
      BY <2>1, <2>3, DeepEnds DEF Hits
    <3> QED BY <3>1, <3>2, <3>3, <3>4
  <2> QED BY <2>2, <2>3 DEF Right
<1>25. CASE leaf = Token(Message \o <<"tool_calls", "0", "function", "name">>)
  <2>0. leaf.kind = "string" /\ ~leaf.prose
    BY <1>25 DEF Token, Leaf
  <2>1. /\ Len(leaf.path) = 6 /\ leaf.path[1] = "messages" /\ leaf.path[2] = "0"
        /\ leaf.path[3] = "tool_calls" /\ leaf.path[4] = "0" /\ leaf.path[5] = "function"
        /\ leaf.path[6] = "name"
    <3> DEFINE t == <<"tool_calls", "0", "function", "name">>
    <3>1. leaf.path = Message \o t
      BY <1>25 DEF Token, Leaf
    <3>2. t \in Seq(Names) /\ Len(t) = 4 /\ t[1] = "tool_calls" /\ t[2] = "0" /\ t[3] = "function" /\ t[4] = "name"
      BY DEF Names
    <3>3. 2 + 1 = 3 /\ 2 + 2 = 4 /\ 2 + 3 = 5 /\ 2 + 4 = 6 /\ 1 \in 1 .. 4 /\ 2 \in 1 .. 4 /\ 3 \in 1 .. 4 /\ 4 \in 1 .. 4
      OBVIOUS
    <3> HIDE DEF t
    <3> QED BY <3>1, <3>2, <3>3, MessagePath
  <2>2. ~Wanted(leaf)
    BY <2>0, <2>1 DEF Wanted, Document!BelowDescription, Document!NotJson
  <2>3. ASSUME NEW c \in DOMAIN Document!sanitizeRules, Hits(Document!sanitizeRules[c], leaf) PROVE FALSE
    <3>1. c \in {4}
      BY <2>1, <2>3, RequestRules DEF Hits, RequestRule
    <3>2. c # 4
      <4>1. Document!sanitizeRules[4].path = <<"messages", "[*]", "tool_calls", "[*]", "function", "arguments">> /\ Document!sanitizeRules[4].kind = "json"
        BY DEF Document!sanitizeRules, Document!Json
      <4>2. \A i \in DOMAIN Document!sanitizeRules[4].path : Document!sanitizeRules[4].path[i] # "**"
        BY <4>1
      <4>3. 6 \in 1 .. Len(Document!sanitizeRules[4].path) /\ Document!sanitizeRules[4].path[6] = "arguments"
        BY <4>1
      <4> QED BY <2>1, <2>3, <4>2, <4>3, PlainRule DEF Hits
    <3> QED BY <3>1, <3>2
  <2> QED BY <2>2, <2>3 DEF Right
<1>26. CASE leaf = Token(Block \o <<"type">>)
  <2>0. leaf.kind = "string" /\ ~leaf.prose
    BY <1>26 DEF Token, Leaf
  <2>1. /\ Len(leaf.path) = 5 /\ leaf.path[1] = "messages" /\ leaf.path[2] = "0"
        /\ leaf.path[3] = "content" /\ leaf.path[4] = "0" /\ leaf.path[5] = "type"
    <3> DEFINE t == <<"type">>
    <3>1. leaf.path = Block \o t
      BY <1>26 DEF Token, Leaf
    <3>2. t \in Seq(Names) /\ Len(t) = 1 /\ t[1] = "type"
      BY DEF Names
    <3>3. 4 + 1 = 5 /\ 1 \in 1 .. 1
      OBVIOUS
    <3> HIDE DEF t
    <3> QED BY <3>1, <3>2, <3>3, BlockPath
  <2>2. ~Wanted(leaf)
    BY <2>0, <2>1 DEF Wanted, Document!BelowDescription, Document!NotJson
  <2>3. ASSUME NEW c \in DOMAIN Document!sanitizeRules, Hits(Document!sanitizeRules[c], leaf) PROVE FALSE
    <3>1. c \in {5}
      BY <2>1, <2>3, RequestRules DEF Hits, RequestRule
    <3>2. c # 5
      <4>1. Document!sanitizeRules[5].path = <<"messages", "[*]", "content", "[*]", "content">> /\ Document!sanitizeRules[5].kind = "text"
        BY DEF Document!sanitizeRules, Document!Text
      <4>2. \A i \in DOMAIN Document!sanitizeRules[5].path : Document!sanitizeRules[5].path[i] # "**"
        BY <4>1
      <4>3. 5 \in 1 .. Len(Document!sanitizeRules[5].path) /\ Document!sanitizeRules[5].path[5] = "content"
        BY <4>1
      <4> QED BY <2>1, <2>3, <4>2, <4>3, PlainRule DEF Hits
    <3> QED BY <3>1, <3>2
  <2> QED BY <2>2, <2>3 DEF Right
<1>27. CASE leaf = Token(Block \o <<"tool_use_id">>)
  <2>0. leaf.kind = "string" /\ ~leaf.prose
    BY <1>27 DEF Token, Leaf
  <2>1. /\ Len(leaf.path) = 5 /\ leaf.path[1] = "messages" /\ leaf.path[2] = "0"
        /\ leaf.path[3] = "content" /\ leaf.path[4] = "0" /\ leaf.path[5] = "tool_use_id"
    <3> DEFINE t == <<"tool_use_id">>
    <3>1. leaf.path = Block \o t
      BY <1>27 DEF Token, Leaf
    <3>2. t \in Seq(Names) /\ Len(t) = 1 /\ t[1] = "tool_use_id"
      BY DEF Names
    <3>3. 4 + 1 = 5 /\ 1 \in 1 .. 1
      OBVIOUS
    <3> HIDE DEF t
    <3> QED BY <3>1, <3>2, <3>3, BlockPath
  <2>2. ~Wanted(leaf)
    BY <2>0, <2>1 DEF Wanted, Document!BelowDescription, Document!NotJson
  <2>3. ASSUME NEW c \in DOMAIN Document!sanitizeRules, Hits(Document!sanitizeRules[c], leaf) PROVE FALSE
    <3>1. c \in {5}
      BY <2>1, <2>3, RequestRules DEF Hits, RequestRule
    <3>2. c # 5
      <4>1. Document!sanitizeRules[5].path = <<"messages", "[*]", "content", "[*]", "content">> /\ Document!sanitizeRules[5].kind = "text"
        BY DEF Document!sanitizeRules, Document!Text
      <4>2. \A i \in DOMAIN Document!sanitizeRules[5].path : Document!sanitizeRules[5].path[i] # "**"
        BY <4>1
      <4>3. 5 \in 1 .. Len(Document!sanitizeRules[5].path) /\ Document!sanitizeRules[5].path[5] = "content"
        BY <4>1
      <4> QED BY <2>1, <2>3, <4>2, <4>3, PlainRule DEF Hits
    <3> QED BY <3>1, <3>2
  <2> QED BY <2>2, <2>3 DEF Right
<1>28. CASE leaf = Token(Schema \o <<"type">>)
  <2>0. leaf.kind = "string" /\ ~leaf.prose
    BY <1>28 DEF Token, Leaf
  <2>1. /\ Len(leaf.path) = 7 /\ leaf.path[1] = "tools" /\ leaf.path[2] = "0"
        /\ leaf.path[3] = "function" /\ leaf.path[4] = "parameters"
        /\ leaf.path[5] = "properties" /\ leaf.path[6] = "a" /\ leaf.path[7] = "type"
    <3> DEFINE t == <<"type">>
    <3>1. leaf.path = Schema \o t
      BY <1>28 DEF Token, Leaf
    <3>2. t \in Seq(Names) /\ Len(t) = 1 /\ t[1] = "type"
      BY DEF Names
    <3>3. 6 + 1 = 7 /\ 1 \in 1 .. 1
      OBVIOUS
    <3> HIDE DEF t
    <3> QED BY <3>1, <3>2, <3>3, SchemaPath
  <2>2. ~Wanted(leaf)
    BY <2>0, <2>1 DEF Wanted, Document!BelowDescription, Document!NotJson
  <2>3. ASSUME NEW c \in DOMAIN Document!sanitizeRules, Hits(Document!sanitizeRules[c], leaf) PROVE FALSE
    <3>1. c \in {16}
      BY <2>1, <2>3, RequestRules DEF Hits, RequestRule
    <3>2. c # 16
      <4>1. 7 \in 5 .. 7
        OBVIOUS
      <4> QED BY <2>1, <2>3, <4>1, DeepEnds DEF Hits
    <3> QED BY <3>1, <3>2
  <2> QED BY <2>2, <2>3 DEF Right
<1>29. CASE leaf = Token(Schema \o <<"enum", "0">>)
  <2>0. leaf.kind = "string" /\ ~leaf.prose
    BY <1>29 DEF Token, Leaf
  <2>1. /\ Len(leaf.path) = 8 /\ leaf.path[1] = "tools" /\ leaf.path[2] = "0"
        /\ leaf.path[3] = "function" /\ leaf.path[4] = "parameters"
        /\ leaf.path[5] = "properties" /\ leaf.path[6] = "a" /\ leaf.path[7] = "enum"
        /\ leaf.path[8] = "0"
    <3> DEFINE t == <<"enum", "0">>
    <3>1. leaf.path = Schema \o t
      BY <1>29 DEF Token, Leaf
    <3>2. t \in Seq(Names) /\ Len(t) = 2 /\ t[1] = "enum" /\ t[2] = "0"
      BY DEF Names
    <3>3. 6 + 1 = 7 /\ 6 + 2 = 8 /\ 1 \in 1 .. 2 /\ 2 \in 1 .. 2
      OBVIOUS
    <3> HIDE DEF t
    <3> QED BY <3>1, <3>2, <3>3, SchemaPath, Zenon
  <2>2. ~Wanted(leaf)
    BY <2>0, <2>1 DEF Wanted, Document!BelowDescription, Document!NotJson
  <2>3. ASSUME NEW c \in DOMAIN Document!sanitizeRules, Hits(Document!sanitizeRules[c], leaf) PROVE FALSE
    <3>1. c \in {16}
      BY <2>1, <2>3, RequestRules DEF Hits, RequestRule
    <3>2. c # 16
      <4>1. 8 \in 5 .. 8
        OBVIOUS
      <4> QED BY <2>1, <2>3, <4>1, DeepEnds DEF Hits
    <3> QED BY <3>1, <3>2
  <2> QED BY <2>2, <2>3 DEF Right
<1> QED BY <1>1, <1>2, <1>3, <1>4, <1>5, <1>6, <1>7, <1>8, <1>9, <1>10, <1>11, <1>12, <1>13, <1>14, <1>15, <1>16, <1>17, <1>18, <1>19, <1>20, <1>21, <1>22, <1>23, <1>24, <1>25, <1>26, <1>27, <1>28, <1>29 DEF RequestLeaves

LEMMA AnswerRight == \A leaf \in AnswerLeaves : Right(Document!responseRules, leaf)
<1> SUFFICES ASSUME NEW leaf \in AnswerLeaves PROVE Right(Document!responseRules, leaf)
  OBVIOUS
<1>0. DOMAIN Document!responseRules = 1 .. 11
  BY DEF Document!responseRules
<1>1. CASE leaf = Prose(Choice \o <<"delta", "content">>)
  <2>0. leaf.kind = "string" /\ leaf.prose
    BY <1>1 DEF Prose, Leaf
  <2>1. /\ Len(leaf.path) = 4 /\ leaf.path[1] = "choices" /\ leaf.path[2] = "0"
        /\ leaf.path[3] = "delta" /\ leaf.path[4] = "content"
    <3> DEFINE t == <<"delta", "content">>
    <3>1. leaf.path = Choice \o t
      BY <1>1 DEF Prose, Leaf
    <3>2. t \in Seq(Names) /\ Len(t) = 2 /\ t[1] = "delta" /\ t[2] = "content"
      BY DEF Names
    <3>3. 2 + 1 = 3 /\ 2 + 2 = 4 /\ 1 \in 1 .. 2 /\ 2 \in 1 .. 2
      OBVIOUS
    <3> HIDE DEF t
    <3> QED BY <3>1, <3>2, <3>3, ChoicePath
  <2>2. Wanted(leaf)
    BY <2>0, <2>1 DEF Wanted, Document!BelowDescription, Document!NotJson
  <2>3. Follows(Document!responseRules[1], leaf, 4)
    BY <2>0, <2>1 DEF Follows, Document!responseRules, Document!Text
  <2> QED BY <1>0, <2>2, <2>3, FollowsHits DEF Right
<1>2. CASE leaf = Prose(Choice \o <<"delta", "reasoning_content">>)
  <2>0. leaf.kind = "string" /\ leaf.prose
    BY <1>2 DEF Prose, Leaf
  <2>1. /\ Len(leaf.path) = 4 /\ leaf.path[1] = "choices" /\ leaf.path[2] = "0"
        /\ leaf.path[3] = "delta" /\ leaf.path[4] = "reasoning_content"
    <3> DEFINE t == <<"delta", "reasoning_content">>
    <3>1. leaf.path = Choice \o t
      BY <1>2 DEF Prose, Leaf
    <3>2. t \in Seq(Names) /\ Len(t) = 2 /\ t[1] = "delta" /\ t[2] = "reasoning_content"
      BY DEF Names
    <3>3. 2 + 1 = 3 /\ 2 + 2 = 4 /\ 1 \in 1 .. 2 /\ 2 \in 1 .. 2
      OBVIOUS
    <3> HIDE DEF t
    <3> QED BY <3>1, <3>2, <3>3, ChoicePath
  <2>2. Wanted(leaf)
    BY <2>0, <2>1 DEF Wanted, Document!BelowDescription, Document!NotJson
  <2>3. Follows(Document!responseRules[2], leaf, 4)
    BY <2>0, <2>1 DEF Follows, Document!responseRules, Document!Text
  <2> QED BY <1>0, <2>2, <2>3, FollowsHits DEF Right
<1>3. CASE leaf = Prose(Choice \o <<"message", "content">>)
  <2>0. leaf.kind = "string" /\ leaf.prose
    BY <1>3 DEF Prose, Leaf
  <2>1. /\ Len(leaf.path) = 4 /\ leaf.path[1] = "choices" /\ leaf.path[2] = "0"
        /\ leaf.path[3] = "message" /\ leaf.path[4] = "content"
    <3> DEFINE t == <<"message", "content">>
    <3>1. leaf.path = Choice \o t
      BY <1>3 DEF Prose, Leaf
    <3>2. t \in Seq(Names) /\ Len(t) = 2 /\ t[1] = "message" /\ t[2] = "content"
      BY DEF Names
    <3>3. 2 + 1 = 3 /\ 2 + 2 = 4 /\ 1 \in 1 .. 2 /\ 2 \in 1 .. 2
      OBVIOUS
    <3> HIDE DEF t
    <3> QED BY <3>1, <3>2, <3>3, ChoicePath
  <2>2. Wanted(leaf)
    BY <2>0, <2>1 DEF Wanted, Document!BelowDescription, Document!NotJson
  <2>3. Follows(Document!responseRules[3], leaf, 4)
    BY <2>0, <2>1 DEF Follows, Document!responseRules, Document!Text
  <2> QED BY <1>0, <2>2, <2>3, FollowsHits DEF Right
<1>4. CASE leaf = Prose(<<"delta", "text">>)
  <2>0. leaf.kind = "string" /\ leaf.prose
    BY <1>4 DEF Prose, Leaf
  <2>1. /\ Len(leaf.path) = 2 /\ leaf.path[1] = "delta" /\ leaf.path[2] = "text"
    BY <1>4 DEF Prose, Leaf
  <2>2. Wanted(leaf)
    BY <2>0, <2>1 DEF Wanted, Document!BelowDescription, Document!NotJson
  <2>3. Follows(Document!responseRules[7], leaf, 2)
    BY <2>0, <2>1 DEF Follows, Document!responseRules, Document!Text
  <2> QED BY <1>0, <2>2, <2>3, FollowsHits DEF Right
<1>5. CASE leaf = Prose(Choice \o <<"message", "reasoning_content">>)
  <2>0. leaf.kind = "string" /\ leaf.prose
    BY <1>5 DEF Prose, Leaf
  <2>1. /\ Len(leaf.path) = 4 /\ leaf.path[1] = "choices" /\ leaf.path[2] = "0"
        /\ leaf.path[3] = "message" /\ leaf.path[4] = "reasoning_content"
    <3> DEFINE t == <<"message", "reasoning_content">>
    <3>1. leaf.path = Choice \o t
      BY <1>5 DEF Prose, Leaf
    <3>2. t \in Seq(Names) /\ Len(t) = 2 /\ t[1] = "message" /\ t[2] = "reasoning_content"
      BY DEF Names
    <3>3. 2 + 1 = 3 /\ 2 + 2 = 4 /\ 1 \in 1 .. 2 /\ 2 \in 1 .. 2
      OBVIOUS
    <3> HIDE DEF t
    <3> QED BY <3>1, <3>2, <3>3, ChoicePath
  <2>2. Wanted(leaf)
    BY <2>0, <2>1 DEF Wanted, Document!BelowDescription, Document!NotJson
  <2>3. Follows(Document!responseRules[4], leaf, 4)
    BY <2>0, <2>1 DEF Follows, Document!responseRules, Document!Text
  <2> QED BY <1>0, <2>2, <2>3, FollowsHits DEF Right
<1>6. CASE leaf = Leaf(Choice \o <<"message", "tool_calls", "0", "function", "arguments">>, "json", TRUE)
  <2>0. leaf.kind = "json" /\ leaf.prose
    BY <1>6 DEF Leaf
  <2>1. /\ Len(leaf.path) = 7 /\ leaf.path[1] = "choices" /\ leaf.path[2] = "0"
        /\ leaf.path[3] = "message" /\ leaf.path[4] = "tool_calls" /\ leaf.path[5] = "0"
        /\ leaf.path[6] = "function" /\ leaf.path[7] = "arguments"
    <3> DEFINE t == <<"message", "tool_calls", "0", "function", "arguments">>
    <3>1. leaf.path = Choice \o t
      BY <1>6 DEF Leaf
    <3>2. t \in Seq(Names) /\ Len(t) = 5 /\ t[1] = "message" /\ t[2] = "tool_calls" /\ t[3] = "0" /\ t[4] = "function" /\ t[5] = "arguments"
      BY DEF Names
    <3>3. 2 + 1 = 3 /\ 2 + 2 = 4 /\ 2 + 3 = 5 /\ 2 + 4 = 6 /\ 2 + 5 = 7 /\ 1 \in 1 .. 5 /\ 2 \in 1 .. 5 /\ 3 \in 1 .. 5 /\ 4 \in 1 .. 5 /\ 5 \in 1 .. 5
      OBVIOUS
    <3> HIDE DEF t
    <3> QED BY <3>1, <3>2, <3>3, ChoicePath, Zenon
  <2>2. Wanted(leaf)
    BY <2>0, <2>1 DEF Wanted, Document!BelowDescription, Document!NotJson
  <2>3. Follows(Document!responseRules[5], leaf, 7)
    BY <2>0, <2>1 DEF Follows, Document!responseRules, Document!Json
  <2> QED BY <1>0, <2>2, <2>3, FollowsHits DEF Right
<1>7. CASE leaf = Leaf(Choice \o <<"message", "function_call", "arguments">>, "json", TRUE)
  <2>0. leaf.kind = "json" /\ leaf.prose
    BY <1>7 DEF Leaf
  <2>1. /\ Len(leaf.path) = 5 /\ leaf.path[1] = "choices" /\ leaf.path[2] = "0"
        /\ leaf.path[3] = "message" /\ leaf.path[4] = "function_call"
        /\ leaf.path[5] = "arguments"
    <3> DEFINE t == <<"message", "function_call", "arguments">>
    <3>1. leaf.path = Choice \o t
      BY <1>7 DEF Leaf
    <3>2. t \in Seq(Names) /\ Len(t) = 3 /\ t[1] = "message" /\ t[2] = "function_call" /\ t[3] = "arguments"
      BY DEF Names
    <3>3. 2 + 1 = 3 /\ 2 + 2 = 4 /\ 2 + 3 = 5 /\ 1 \in 1 .. 3 /\ 2 \in 1 .. 3 /\ 3 \in 1 .. 3
      OBVIOUS
    <3> HIDE DEF t
    <3> QED BY <3>1, <3>2, <3>3, ChoicePath
  <2>2. Wanted(leaf)
    BY <2>0, <2>1 DEF Wanted, Document!BelowDescription, Document!NotJson
  <2>3. Follows(Document!responseRules[11], leaf, 5)
    BY <2>0, <2>1 DEF Follows, Document!responseRules, Document!Json
  <2> QED BY <1>0, <2>2, <2>3, FollowsHits DEF Right
<1>8. CASE leaf = Leaf(Choice \o <<"message", "function_call", "arguments">>, "string", TRUE)
  <2>0. leaf.kind = "string" /\ leaf.prose
    BY <1>8 DEF Leaf
  <2>1. /\ Len(leaf.path) = 5 /\ leaf.path[1] = "choices" /\ leaf.path[2] = "0"
        /\ leaf.path[3] = "message" /\ leaf.path[4] = "function_call"
        /\ leaf.path[5] = "arguments"
    <3> DEFINE t == <<"message", "function_call", "arguments">>
    <3>1. leaf.path = Choice \o t
      BY <1>8 DEF Leaf
    <3>2. t \in Seq(Names) /\ Len(t) = 3 /\ t[1] = "message" /\ t[2] = "function_call" /\ t[3] = "arguments"
      BY DEF Names
    <3>3. 2 + 1 = 3 /\ 2 + 2 = 4 /\ 2 + 3 = 5 /\ 1 \in 1 .. 3 /\ 2 \in 1 .. 3 /\ 3 \in 1 .. 3
      OBVIOUS
    <3> HIDE DEF t
    <3> QED BY <3>1, <3>2, <3>3, ChoicePath
  <2>2. ~Wanted(leaf)
    BY <2>0, <2>1 DEF Wanted, Document!BelowDescription, Document!NotJson
  <2>3. ASSUME NEW c \in DOMAIN Document!responseRules, Hits(Document!responseRules[c], leaf) PROVE FALSE
    <3>1. c \in {11}
      BY <2>1, <2>3, AnswerRules DEF Hits, AnswerRule
    <3>2. c # 11
      <4>1. Document!responseRules[11].kind = "json"
        BY DEF Document!responseRules, Document!Json
      <4> QED BY <2>0, <2>1, <2>3, <4>1 DEF Hits, Document!applyTransform
    <3> QED BY <3>1, <3>2
  <2> QED BY <2>2, <2>3 DEF Right
<1>9. CASE leaf = Prose(<<"output", "0", "content", "0", "text">>)
  <2>0. leaf.kind = "string" /\ leaf.prose
    BY <1>9 DEF Prose, Leaf
  <2>1. /\ Len(leaf.path) = 5 /\ leaf.path[1] = "output" /\ leaf.path[2] = "0"
        /\ leaf.path[3] = "content" /\ leaf.path[4] = "0" /\ leaf.path[5] = "text"
    BY <1>9 DEF Prose, Leaf
  <2>2. Wanted(leaf)
    BY <2>0, <2>1 DEF Wanted, Document!BelowDescription, Document!NotJson
  <2>3. Follows(Document!responseRules[10], leaf, 5)
    BY <2>0, <2>1 DEF Follows, Document!responseRules, Document!Text
  <2> QED BY <1>0, <2>2, <2>3, FollowsHits DEF Right
<1>10. CASE leaf = Prose(<<"content_block", "text">>)
  <2>0. leaf.kind = "string" /\ leaf.prose
    BY <1>10 DEF Prose, Leaf
  <2>1. /\ Len(leaf.path) = 2 /\ leaf.path[1] = "content_block" /\ leaf.path[2] = "text"
    BY <1>10 DEF Prose, Leaf
  <2>2. Wanted(leaf)
    BY <2>0, <2>1 DEF Wanted, Document!BelowDescription, Document!NotJson
  <2>3. Follows(Document!responseRules[8], leaf, 2)
    BY <2>0, <2>1 DEF Follows, Document!responseRules, Document!Text
  <2> QED BY <1>0, <2>2, <2>3, FollowsHits DEF Right
<1>11. CASE leaf = Prose(<<"content", "0", "text">>)
  <2>0. leaf.kind = "string" /\ leaf.prose
    BY <1>11 DEF Prose, Leaf
  <2>1. /\ Len(leaf.path) = 3 /\ leaf.path[1] = "content" /\ leaf.path[2] = "0"
        /\ leaf.path[3] = "text"
    BY <1>11 DEF Prose, Leaf
  <2>2. Wanted(leaf)
    BY <2>0, <2>1 DEF Wanted, Document!BelowDescription, Document!NotJson
  <2>3. Follows(Document!responseRules[6], leaf, 3)
    BY <2>0, <2>1 DEF Follows, Document!responseRules, Document!Text
  <2> QED BY <1>0, <2>2, <2>3, FollowsHits DEF Right
<1>12. CASE leaf = Prose(<<"content", "0", "input", "k">>)
  <2>0. leaf.kind = "string" /\ leaf.prose
    BY <1>12 DEF Prose, Leaf
  <2>1. /\ Len(leaf.path) = 4 /\ leaf.path[1] = "content" /\ leaf.path[2] = "0"
        /\ leaf.path[3] = "input" /\ leaf.path[4] = "k"
    BY <1>12 DEF Prose, Leaf
  <2>2. Wanted(leaf)
    BY <2>0, <2>1 DEF Wanted, Document!BelowDescription, Document!NotJson
  <2>3. Follows(Document!responseRules[9], leaf, 3)
    BY <2>0, <2>1 DEF Follows, Document!responseRules, Document!Object
  <2> QED BY <1>0, <2>2, <2>3, FollowsHits DEF Right
<1>13. CASE leaf = Token(<<"content", "0", "name">>)
  <2>0. leaf.kind = "string" /\ ~leaf.prose
    BY <1>13 DEF Token, Leaf
  <2>1. /\ Len(leaf.path) = 3 /\ leaf.path[1] = "content" /\ leaf.path[2] = "0"
        /\ leaf.path[3] = "name"
    BY <1>13 DEF Token, Leaf
  <2>2. ~Wanted(leaf)
    BY <2>0, <2>1 DEF Wanted, Document!BelowDescription, Document!NotJson
  <2>3. ASSUME NEW c \in DOMAIN Document!responseRules, Hits(Document!responseRules[c], leaf) PROVE FALSE
    <3>1. c \in {9}
      BY <2>1, <2>3, AnswerRules DEF Hits, AnswerRule
    <3>2. c # 9
      <4>1. Document!responseRules[9].path = <<"content", "[*]", "input">> /\ Document!responseRules[9].kind = "object"
        BY DEF Document!responseRules, Document!Object
      <4>2. \A i \in DOMAIN Document!responseRules[9].path : Document!responseRules[9].path[i] # "**"
        BY <4>1
      <4>3. 3 \in 1 .. Len(Document!responseRules[9].path) /\ Document!responseRules[9].path[3] = "input"
        BY <4>1
      <4> QED BY <2>1, <2>3, <4>2, <4>3, PlainRule DEF Hits
    <3> QED BY <3>1, <3>2
  <2> QED BY <2>2, <2>3 DEF Right
<1>14. CASE leaf = Token(Choice \o <<"finish_reason">>)
  <2>0. leaf.kind = "string" /\ ~leaf.prose
    BY <1>14 DEF Token, Leaf
  <2>1. /\ Len(leaf.path) = 3 /\ leaf.path[1] = "choices" /\ leaf.path[2] = "0"
        /\ leaf.path[3] = "finish_reason"
    <3> DEFINE t == <<"finish_reason">>
    <3>1. leaf.path = Choice \o t
      BY <1>14 DEF Token, Leaf
    <3>2. t \in Seq(Names) /\ Len(t) = 1 /\ t[1] = "finish_reason"
      BY DEF Names
    <3>3. 2 + 1 = 3 /\ 1 \in 1 .. 1
      OBVIOUS
    <3> HIDE DEF t
    <3> QED BY <3>1, <3>2, <3>3, ChoicePath
  <2>2. ~Wanted(leaf)
    BY <2>0, <2>1 DEF Wanted, Document!BelowDescription, Document!NotJson
  <2>3. ASSUME NEW c \in DOMAIN Document!responseRules, Hits(Document!responseRules[c], leaf) PROVE FALSE
    <3>1. c \in {3, 4, 5, 11}
      BY <2>1, <2>3, AnswerRules DEF Hits, AnswerRule
    <3>2. c # 3
      <4>1. Document!responseRules[3].path = <<"choices", "[*]", "message", "content">> /\ Document!responseRules[3].kind = "text"
        BY DEF Document!responseRules, Document!Text
      <4>2. \A i \in DOMAIN Document!responseRules[3].path : Document!responseRules[3].path[i] # "**"
        BY <4>1
      <4>3. 3 \in 1 .. Len(Document!responseRules[3].path) /\ Document!responseRules[3].path[3] = "message"
        BY <4>1
      <4> QED BY <2>1, <2>3, <4>2, <4>3, PlainRule DEF Hits
    <3>3. c # 4
      <4>1. Document!responseRules[4].path = <<"choices", "[*]", "message", "reasoning_content">> /\ Document!responseRules[4].kind = "text"
        BY DEF Document!responseRules, Document!Text
      <4>2. \A i \in DOMAIN Document!responseRules[4].path : Document!responseRules[4].path[i] # "**"
        BY <4>1
      <4>3. 3 \in 1 .. Len(Document!responseRules[4].path) /\ Document!responseRules[4].path[3] = "message"
        BY <4>1
      <4> QED BY <2>1, <2>3, <4>2, <4>3, PlainRule DEF Hits
    <3>4. c # 5
      <4>1. Document!responseRules[5].path = <<"choices", "[*]", "message", "tool_calls", "[*]", "function", "arguments">> /\ Document!responseRules[5].kind = "json"
        BY DEF Document!responseRules, Document!Json
      <4>2. \A i \in DOMAIN Document!responseRules[5].path : Document!responseRules[5].path[i] # "**"
        BY <4>1
      <4>3. 3 \in 1 .. Len(Document!responseRules[5].path) /\ Document!responseRules[5].path[3] = "message"
        BY <4>1
      <4> QED BY <2>1, <2>3, <4>2, <4>3, PlainRule DEF Hits
    <3>5. c # 11
      <4>1. Document!responseRules[11].path = <<"choices", "[*]", "message", "function_call", "arguments">> /\ Document!responseRules[11].kind = "json"
        BY DEF Document!responseRules, Document!Json
      <4>2. \A i \in DOMAIN Document!responseRules[11].path : Document!responseRules[11].path[i] # "**"
        BY <4>1
      <4>3. 3 \in 1 .. Len(Document!responseRules[11].path) /\ Document!responseRules[11].path[3] = "message"
        BY <4>1
      <4> QED BY <2>1, <2>3, <4>2, <4>3, PlainRule DEF Hits
    <3> QED BY <3>1, <3>2, <3>3, <3>4, <3>5
  <2> QED BY <2>2, <2>3 DEF Right
<1>15. CASE leaf = Token(<<"id">>)
  <2>0. leaf.kind = "string" /\ ~leaf.prose
    BY <1>15 DEF Token, Leaf
  <2>1. /\ Len(leaf.path) = 1 /\ leaf.path[1] = "id"
    BY <1>15 DEF Token, Leaf
  <2>2. ~Wanted(leaf)
    BY <2>0, <2>1 DEF Wanted, Document!BelowDescription, Document!NotJson
  <2>3. ASSUME NEW c \in DOMAIN Document!responseRules, Hits(Document!responseRules[c], leaf) PROVE FALSE
    <3>1. c \in {10}
      BY <2>1, <2>3, AnswerRules DEF Hits, AnswerRule
    <3>2. c # 10
      <4>1. Document!responseRules[10].path = <<"output", "[*]", "content", "[*]", "text">> /\ Document!responseRules[10].kind = "text"
        BY DEF Document!responseRules, Document!Text
      <4>2. \A i \in DOMAIN Document!responseRules[10].path : Document!responseRules[10].path[i] # "**"
        BY <4>1
      <4>3. 1 \in 1 .. Len(Document!responseRules[10].path) /\ Document!responseRules[10].path[1] = "output"
        BY <4>1
      <4> QED BY <2>1, <2>3, <4>2, <4>3, PlainRule DEF Hits
    <3> QED BY <3>1, <3>2
  <2> QED BY <2>2, <2>3 DEF Right
<1> QED BY <1>1, <1>2, <1>3, <1>4, <1>5, <1>6, <1>7, <1>8, <1>9, <1>10, <1>11, <1>12, <1>13, <1>14, <1>15 DEF AnswerLeaves

\* The bodies of one way hold what the clients of that way send.
DocInv ==
  IF part = "document"
  THEN /\ SoFar
       /\ \/ way = "request" /\ doc \subseteq RequestLeaves
          \/ way = "answer" /\ doc \subseteq AnswerLeaves
  ELSE result = "open"

LEMMA FromCorpus ==
  ASSUME NEW d \in Corpus
  PROVE  \/ d.way = "request" /\ d.leaves \subseteq RequestLeaves
         \/ d.way = "answer" /\ d.leaves \subseteq AnswerLeaves
<1>1. ASSUME NEW L, NEW p \in Pairs(L) PROVE p \subseteq L
  BY DEF Pairs
<1> QED BY <1>1 DEF Corpus

LEMMA DocStart == PathInit => DocInv
<1> SUFFICES ASSUME PathInit PROVE DocInv
  OBVIOUS
<1>1. CASE part = "document"
  <2>1. Document!Init
    BY <1>1, Zenon DEF PathInit
  <2>2. PICK d \in Corpus : way = d.way /\ doc = d.leaves
    BY <2>1 DEF Document!Init
  <2>3. SoFar
    <3>1. rule = 1 /\ times = [leaf \in doc |-> 0] /\ result = "open"
      BY <2>1 DEF Document!Init
    <3>2. 1 .. rule - 1 = {}
      BY <3>1
    <3> QED BY <3>1, <3>2 DEF SoFar
  <2> QED BY <1>1, <2>2, <2>3, FromCorpus DEF DocInv
<1>2. CASE part # "document"
  BY <1>2, Zenon DEF PathInit, DocInv
<1> QED BY <1>1, <1>2

LEMMA DocKeeps ==
  ASSUME DocInv,
         [PathNext]_<<part, vars, documentVars, scannerVars, streamVars, detectionVars, nerVars,
                      chunkVars, rosterVars, matrixVars, numberVars, auditVars, telemetryVars>>
  PROVE  DocInv'
<1>1. part' = part /\ ((part = "document" /\ Document!Next) \/ UNCHANGED documentVars)
  BY DEF PathNext
<1>2. CASE UNCHANGED documentVars /\ part # "document"
  BY <1>1, <1>2 DEF DocInv, documentVars
<1>3. CASE part = "document"
  <2>1. Document!Next \/ UNCHANGED Document!vars
    BY <1>1, <1>3 DEF documentVars, Document!vars
  <2>2. SoFar'
    BY <1>3, <2>1, RuleApplied DEF DocInv
  <2>3. way' = way /\ doc' = doc
    BY <2>1 DEF Document!Next, Document!Apply, Document!Fails, Document!Finish, Document!vars
  <2> QED BY <1>1, <1>3, <2>2, <2>3 DEF DocInv
<1> QED BY <1>1, <1>2, <1>3

\* What a rule reaches, of the leaves of the corpus, is what it should.
LEMMA ReachedRight ==
  ASSUME NEW leaf \in doc,
         \/ way = "request" /\ doc \subseteq RequestLeaves
         \/ way = "answer" /\ doc \subseteq AnswerLeaves
  PROVE  (\E k \in DOMAIN Document!Rules : Reaches(k, leaf)) <=> Wanted(leaf)
<1>1. \A k \in DOMAIN Document!Rules : Reaches(k, leaf) <=> Hits(Document!Rules[k], leaf)
  BY DEF Reaches, Document!Touched, Hits
<1>2. Right(Document!Rules, leaf)
  <2>1. CASE way = "request" /\ doc \subseteq RequestLeaves
    <3>1. Document!Rules = Document!sanitizeRules /\ leaf \in RequestLeaves
      BY <2>1 DEF Document!Rules
    <3> QED BY <3>1, RequestRight
  <2>2. CASE way = "answer" /\ doc \subseteq AnswerLeaves
    <3>1. Document!Rules = Document!responseRules /\ leaf \in AnswerLeaves
      BY <2>2 DEF Document!Rules
    <3> QED BY <3>1, AnswerRight
  <2> QED BY <2>1, <2>2
<1> QED BY <1>1, <1>2 DEF Right

\* SanitizeDocument, RestoreDocument: of a body of the corpus that is passed on, every
\* text a person wrote was transformed once, and nothing the protocol lives on was.
THEOREM RunTransformedOnce == PathSpec => []TransformedOnce
<1>1. DocInv => TransformedOnce
  <2> SUFFICES ASSUME DocInv, result = "sent", NEW leaf \in doc
               PROVE  times[leaf] = IF Wanted(leaf) THEN 1 ELSE 0
    BY DEF TransformedOnce, Document!TransformedOnce, Wanted
  <2>1. SoFar /\ (\/ way = "request" /\ doc \subseteq RequestLeaves
                  \/ way = "answer" /\ doc \subseteq AnswerLeaves)
    BY DEF DocInv
  <2>2. (\E k \in DOMAIN Document!Rules : Reaches(k, leaf)) <=> Wanted(leaf)
    BY <2>1, ReachedRight
  <2>3. times[leaf] = IF \E k \in DOMAIN Document!Rules : Reaches(k, leaf) THEN 1 ELSE 0
    BY <2>1, SoFarOnce DEF OnceEach
  <2> QED BY <2>2, <2>3
<1> QED BY DocStart, DocKeeps, <1>1, PTL DEF PathSpec

-----------------------------------------------------------------------------
(***************************************************************************)
(* The redaction matrix (Matrix).                                          *)
(***************************************************************************)
\* A strategy that was built, and one that another falls back on.
Plain(s) ==
  /\ s.name \in {"mask", "drop", "hash", "tokenize", "char_mask"}
  /\ s.name = "char_mask" => s.keep \in Nat
Works(s) == Plain(s) \/ (s.name = "generalize" /\ Plain(s.fallback))
FlowWorks(f) ==
  /\ Works(f.default) /\ Works(f.name)
  /\ f.restores => Policy!Reversible(f.default.name) /\ Policy!Reversible(f.name.name)
OntologyWorks(o) == \A term \in DOMAIN o : o[term] \in Policy!Hypernyms /\ o[term] # term

LEMMA BasicWorks ==
  ASSUME NEW name, NEW o \in Policy!Options, NEW deps,
         Policy!Basic(name, o, deps) # Policy!NoStrategy
  PROVE  Plain(Policy!Basic(name, o, deps))
<1>0. o.keep \in Nat
  <2>1. o.keep \in {0, 2}
    BY Zenon DEF Policy!Options
  <2> QED BY <2>1
<1> DEFINE s == Policy!Basic(name, o, deps)
<1>1. CASE name \in {"mask", "drop"}
  <2>1. s = [name |-> name]
    BY <1>1 DEF Policy!Basic
  <2> QED BY <1>1, <2>1 DEF Plain
<1>2. CASE name = "char_mask"
  <2>1. s = [name |-> name, keep |-> o.keep]
    BY <1>2 DEF Policy!Basic
  <2> QED BY <1>0, <1>2, <2>1 DEF Plain
<1>3. CASE name \in {"hash", "tokenize"}
  <2>1. s = [name |-> name]
    BY <1>3 DEF Policy!Basic
  <2> QED BY <1>3, <2>1 DEF Plain
<1>4. CASE name \notin {"mask", "drop", "char_mask", "hash", "tokenize"}
  BY <1>4 DEF Policy!Basic
<1> QED BY <1>1, <1>2, <1>3, <1>4

LEMMA BuiltWorks ==
  ASSUME NEW name, NEW o \in Policy!Options, NEW deps,
         Policy!Built(name, o, deps) # Policy!NoStrategy
  PROVE  Works(Policy!Built(name, o, deps))
<1>1. CASE name = "generalize"
  <2> DEFINE b == Policy!Basic(Policy!Default(o.fallback, "drop"), o, deps)
             g == Policy!Default(o.granularity, "decade")
  <2>1. /\ b # Policy!NoStrategy
        /\ Policy!Built(name, o, deps) = [name |-> "generalize", granularity |-> g, fallback |-> b]
    BY <1>1 DEF Policy!Built, Policy!Generalize
  <2>2. Plain(b)
    BY <2>1, BasicWorks
  <2> HIDE DEF b, g
  <2> QED BY <2>1, <2>2 DEF Works
<1>2. CASE name # "generalize"
  BY <1>2, BasicWorks DEF Policy!Built, Works
<1> QED BY <1>1, <1>2

\* What a strategy makes of a value: never the value.
TooShort(s, v) == s.name = "char_mask" /\ Policy!Runes(v) <= s.keep
LEMMA PlainApplied ==
  ASSUME NEW s, Plain(s), NEW v \in Policy!Originals, NEW w \in BOOLEAN,
         NEW y \in Policy!ApplyBasic(s, v, w)
  PROVE  /\ y # v
         /\ y = "fails" => s.name = "tokenize" \/ (s.name = "mask" /\ ~w) \/ TooShort(s, v)
         /\ Policy!Reversible(s.name) => y \in {"placeholder", "token", "fails"}
<1>0. v \in {"li", "acme", "ACME", "1995", "1995-10-24"}
  BY DEF Policy!Originals
<1>1. CASE s.name = "char_mask"
  <2>0. Policy!Runes(v) \in Nat /\ s.keep \in Nat
    BY <1>1 DEF Policy!Runes, Plain
  <2>1. y = Policy!CharMask(s, v)
    BY <1>1 DEF Policy!ApplyBasic
  <2>2. CASE s.keep >= Policy!Runes(v)
    BY <1>0, <1>1, <2>0, <2>1, <2>2 DEF Policy!CharMask, Policy!ShowsAll, TooShort, Policy!Reversible
  <2>3. CASE ~(s.keep >= Policy!Runes(v))
    <3>1. s.keep # Policy!Runes(v)
      BY <2>0, <2>3
    <3>2. y = "masked"
      BY <2>1, <2>3, <3>1 DEF Policy!CharMask, Policy!ShowsAll
    <3> QED BY <1>0, <1>1, <3>2 DEF Policy!Reversible
  <2> QED BY <2>2, <2>3
<1>2. CASE s.name = "mask"
  BY <1>0, <1>2 DEF Policy!ApplyBasic
<1>3. CASE s.name = "tokenize"
  BY <1>0, <1>3 DEF Policy!ApplyBasic
<1>4. CASE s.name \in {"hash", "drop"}
  BY <1>0, <1>4 DEF Policy!ApplyBasic, Policy!Reversible
<1> QED BY <1>1, <1>2, <1>3, <1>4 DEF Plain

\* What leaves for a value, or why nothing does.
Spared(s, v) ==
  \/ \E term \in DOMAIN ontology :
       Policy!Folded(term) = Policy!Folded(ontology[term]) /\ ontology[term] = v
  \/ v = "1995" /\ s.name = "generalize"
Shown(s, v, w, y) ==
  /\ y = v => Spared(s, v)
  /\ y = "fails" =>
       LET last == IF s.name = "generalize" THEN s.fallback ELSE s IN
       last.name = "tokenize" \/ (last.name = "mask" /\ ~w) \/ TooShort(last, v)
  /\ Policy!Reversible(s.name) => y \in {"placeholder", "token", "fails"}

LEMMA Applied ==
  ASSUME NEW s, Works(s), OntologyWorks(ontology), NEW v \in Policy!Originals, NEW w \in BOOLEAN,
         NEW y \in Policy!Apply(s, v, w)
  PROVE  Shown(s, v, w, y)
<1>1. CASE s.name # "generalize"
  <2>1. Plain(s) /\ y \in Policy!ApplyBasic(s, v, w)
    BY <1>1 DEF Works, Policy!Apply
  <2> QED BY <1>1, <2>1, PlainApplied DEF Shown
<1>2. CASE s.name = "generalize"
  <2>0. ~Policy!Reversible(s.name) /\ Plain(s.fallback)
    BY <1>2 DEF Policy!Reversible, Works, Plain
  <2>1. CASE Policy!Year(v) # "none"
    <3>1. y = Policy!GeneralizeDate(s, v) /\ v \in {"1995", "1995-10-24"}
      BY <1>2, <2>1 DEF Policy!Apply, Policy!Year
    <3>2. y \in {"1995", "decade"}
      BY <3>1 DEF Policy!GeneralizeDate, Policy!Year
    <3> QED BY <1>2, <2>0, <3>1, <3>2 DEF Shown, Spared
  <2>2. CASE Policy!Year(v) = "none" /\ Policy!Lookup(v) # {}
    <3>1. y \in Policy!Lookup(v)
      BY <1>2, <2>2 DEF Policy!Apply
    <3>2. PICK term \in DOMAIN ontology :
            y = ontology[term] /\ (term = v \/ Policy!Folded(term) = Policy!Folded(v))
      BY <3>1 DEF Policy!Lookup
    <3>3. y # "fails" /\ y # term
      BY <3>2 DEF OntologyWorks, Policy!Hypernyms
    <3> QED BY <1>2, <2>0, <3>2, <3>3 DEF Shown, Spared
  <2>3. CASE Policy!Year(v) = "none" /\ Policy!Lookup(v) = {}
    <3>1. y \in Policy!ApplyBasic(s.fallback, v, w)
      BY <1>2, <2>3 DEF Policy!Apply
    <3> QED BY <1>2, <2>0, <3>1, PlainApplied DEF Shown
  <2> QED BY <2>1, <2>2, <2>3
<1> QED BY <1>1, <1>2

MatrixInv ==
  /\ \A d \in DOMAIN flows : FlowWorks(flows[d])
  /\ OntologyWorks(ontology)
  /\ matrix \in {"load", "ready"} => shown = {}
  /\ Policy!NoneAsIs

LEMMA MatrixLoads ==
  ASSUME MatrixInv, Policy!LoadMatrix
  PROVE  MatrixInv'
<1>1. matrix = "load" /\ shown = {} /\ shown' = {}
  BY DEF Policy!LoadMatrix, MatrixInv
<1>2. Policy!NoneAsIs'
  BY <1>1 DEF Policy!NoneAsIs
<1>3. CASE UNCHANGED <<flows, ontology>>
  BY <1>1, <1>2, <1>3 DEF MatrixInv
<1>4. CASE ~UNCHANGED <<flows, ontology>>
  <2> DEFINE FlowOf(all, o, deps, d) == Policy!Flow(CHOOSE g \in all : g.dest = d, o, deps)
  <2>0. PICK f \in Policy!FlowConfigs, others \in SUBSET {Policy!Export}, o \in Policy!Options, deps \in Policy!Deps :
          LET all == {f} \cup others
              built == [d \in {g.dest : g \in all} |-> FlowOf(all, o, deps, d)] IN
          IF \/ \E g \in all : Policy!Problem(g)
             \/ Policy!Cardinality(DOMAIN built) # Policy!Cardinality(all)
             \/ \E d \in DOMAIN built : ~Policy!Add(built[d])
          THEN matrix' = "refused" /\ UNCHANGED <<flows, ontology>>
          ELSE /\ matrix' = "ready" /\ flows' = built
               /\ ontology' \in IF \E g \in all : "generalize" \in Policy!Used(g)
                                THEN Policy!Ontologies ELSE {Policy!NoOntology}
    BY DEF Policy!LoadMatrix
  <2> DEFINE all == {f} \cup others
             dests == {g.dest : g \in all}
  <2>1. /\ flows' = [d \in dests |-> FlowOf(all, o, deps, d)]
        /\ ~\E d \in DOMAIN [d \in dests |-> FlowOf(all, o, deps, d)] :
              ~Policy!Add([e \in dests |-> FlowOf(all, o, deps, e)][d])
        /\ ontology' \in Policy!Ontologies \/ ontology' = Policy!NoOntology
    <3> HIDE DEF FlowOf
    <3> QED BY <1>4, <2>0
  <2>2. flows' = [d \in dests |-> FlowOf(all, o, deps, d)] /\ \A d \in dests : Policy!Add(FlowOf(all, o, deps, d))
    <3> HIDE DEF FlowOf, dests
    <3> QED BY <2>1
  <2>3. ASSUME NEW d \in dests PROVE FlowWorks(FlowOf(all, o, deps, d))
    <3> DEFINE g == CHOOSE g \in all : g.dest = d
               x == Policy!Built(g.default, o, deps)
               n == Policy!Built(Policy!Default(g.name, g.default), o, deps)
    <3>1. FlowOf(all, o, deps, d) = [restores |-> g.restores, default |-> x, name |-> n]
      BY DEF Policy!Flow
    <3>2. Policy!Add([restores |-> g.restores, default |-> x, name |-> n])
      BY <2>2, <3>1
    <3> HIDE DEF FlowOf
    <3>3. Works(x) /\ Works(n)
      <4>1. x # Policy!NoStrategy /\ n # Policy!NoStrategy
        BY <3>2 DEF Policy!Add
      <4> QED BY <4>1, BuiltWorks
    <3> HIDE DEF g, x, n
    <3> QED BY <3>1, <3>2, <3>3 DEF Policy!Add, FlowWorks
  <2>4. OntologyWorks(ontology')
    <3>1. CASE ontology' = Policy!NoOntology
      BY <3>1 DEF Policy!NoOntology, OntologyWorks
    <3>2. ASSUME NEW x \in Policy!Ontologies PROVE OntologyWorks(x)
      <4>1. PICK t \in SUBSET {"acme", "ACME"} : x \in [t -> Policy!Hypernyms]
        BY <3>2 DEF Policy!Ontologies
      <4>2. \A term \in DOMAIN x : x[term] # term
        BY <3>2 DEF Policy!Ontologies
      <4> QED BY <4>1, <4>2 DEF OntologyWorks
    <3> QED BY <2>1, <3>1, <3>2
  <2> HIDE DEF FlowOf, all, dests
  <2> QED BY <1>1, <1>2, <2>2, <2>3, <2>4 DEF MatrixInv
<1> QED BY <1>3, <1>4

LEMMA MatrixRedacts ==
  ASSUME MatrixInv, Policy!Redact
  PROVE  MatrixInv'
<1>1. /\ matrix = "ready" /\ shown = {} /\ flows' = flows /\ ontology' = ontology
      /\ matrix' \in {"blocked", "sent"}
  BY DEF Policy!Redact, MatrixInv
<1>2. Policy!NoneAsIs'
  <2>1. CASE shown' = shown
    BY <1>1, <2>1 DEF Policy!NoneAsIs
  <2>2. CASE shown' # shown
    <3>0. PICK d \in DOMAIN flows, ty \in {"NAME", "OTHER"}, v \in Policy!Originals, w \in BOOLEAN :
            \E y \in Policy!Apply(Policy!Strategy(flows[d], ty), v, w) :
              /\ matrix' = IF y = "fails" THEN "blocked" ELSE "sent"
              /\ shown' = {[dest |-> d, type |-> ty, value |-> v, vault |-> w, out |-> y]}
      BY <2>2 DEF Policy!Redact
    <3>1. PICK y \in Policy!Apply(Policy!Strategy(flows[d], ty), v, w) :
            /\ matrix' = IF y = "fails" THEN "blocked" ELSE "sent"
            /\ shown' = {[dest |-> d, type |-> ty, value |-> v, vault |-> w, out |-> y]}
      BY <3>0
    <3> DEFINE s == Policy!Strategy(flows[d], ty)
    <3>2. Works(s) /\ OntologyWorks(ontology) /\ (flows[d].restores => Policy!Reversible(s.name))
      BY DEF MatrixInv, FlowWorks, Policy!Strategy
    <3>3. Shown(s, v, w, y)
      BY <3>1, <3>2, Applied
    <3> DEFINE r == [dest |-> d, type |-> ty, value |-> v, vault |-> w, out |-> y]
    <3>4. r.dest = d /\ r.type = ty /\ r.value = v /\ r.vault = w /\ r.out = y
      OBVIOUS
    <3>5. shown' = {r} /\ flows'[d] = flows[d] /\ ontology' = ontology
      BY <1>1, <3>1
    <3> HIDE DEF r, s
    <3>6. Policy!Strategy(flows[r.dest], r.type) = s
      BY <3>4 DEF s
    <3>7. matrix' = "sent" => r.out # r.value \/ Policy!Respelt(r)' \/ Policy!KeepsYear(r)'
      <4>1. r.out = r.value => Spared(s, r.value)
        BY <3>3, <3>4 DEF Shown
      <4> QED BY <1>1, <3>6, <4>1 DEF Spared, Policy!Respelt, Policy!KeepsYear
    <3>8. matrix' = "sent" /\ flows'[r.dest].restores => r.out \in {"placeholder", "token"}
      BY <3>1, <3>2, <3>3, <3>4, <3>5 DEF Shown
    <3>9. matrix' = "blocked" =>
            LET last == IF s.name = "generalize" THEN s.fallback ELSE s IN
            last.name = "tokenize" \/ (last.name = "mask" /\ ~r.vault) \/ TooShort(last, r.value)
      BY <3>1, <3>3, <3>4 DEF Shown
    <3> QED BY <1>1, <3>5, <3>6, <3>7, <3>8, <3>9 DEF Policy!NoneAsIs, TooShort
  <2> QED BY <2>1, <2>2
<1> QED BY <1>1, <1>2 DEF MatrixInv

\* Matrix.RedactTo: no value that was found leaves as it was, whatever matrix was
\* accepted, but a year where years are kept and a word that is only respelt; a flow
\* that restores sends what can be resolved; nothing is blocked without cause.
THEOREM MatrixNoneAsIs == Policy!Spec => []Policy!NoneAsIs
<1>1. Policy!Init => MatrixInv
  BY DEF Policy!Init, MatrixInv, Policy!NoneAsIs, OntologyWorks, Policy!NoOntology
<1>2. MatrixInv /\ [Policy!Next]_(Policy!vars) => MatrixInv'
  <2> SUFFICES ASSUME MatrixInv, [Policy!Next]_(Policy!vars) PROVE MatrixInv'
    OBVIOUS
  <2>1. CASE UNCHANGED Policy!vars
    <3>1. /\ flows' = flows /\ ontology' = ontology /\ shown' = shown /\ matrix' = matrix
      BY <2>1 DEF Policy!vars
    <3> QED BY <3>1 DEF MatrixInv, Policy!NoneAsIs, Policy!Respelt, Policy!KeepsYear
  <2> QED BY <2>1, MatrixLoads, MatrixRedacts DEF Policy!Next
<1> QED BY <1>1, <1>2, PTL DEF Policy!Spec, MatrixInv

-----------------------------------------------------------------------------
(***************************************************************************)
(* The telemetry firewall (Telemetry).                                     *)
(***************************************************************************)
\* What stands for a number.
Stands == {"gone", "caller", "own", "t1", "t2"}

\* A part of a text, and two parts joined.
LEMMA Slice ==
  ASSUME NEW V, NEW u \in Seq(V), NEW m \in Nat \ {0}, NEW n \in Nat, m <= n + 1, n <= Len(u)
  PROVE  /\ SubSeq(u, m, n) \in Seq(V) /\ Len(SubSeq(u, m, n)) = (n + 1) - m
         /\ \A k \in 1 .. (n + 1) - m : SubSeq(u, m, n)[k] = u[(m + k) - 1]
OBVIOUS

LEMMA Join ==
  ASSUME NEW V, NEW s \in Seq(V), NEW t \in Seq(V)
  PROVE  /\ s \o t \in Seq(V) /\ Len(s \o t) = Len(s) + Len(t)
         /\ \A k \in 1 .. Len(s) + Len(t) : (s \o t)[k] = IF k <= Len(s) THEN s[k] ELSE t[k - Len(s)]
OBVIOUS

LEMMA Single ==
  ASSUME NEW V, NEW x \in V
  PROVE <<x>> \in Seq(V) /\ Len(<<x>>) = 1 /\ <<x>>[1] = x
OBVIOUS

\* truncateAtRune leaves no half of a rune.
LEMMA TruncatedRaw ==
  ASSUME NEW t, RawText(t)
  PROVE  RawText(Firewall!TruncateAtRune(t))
<1> DEFINE n == MaxValueBytes
<1>0. n \in Nat \ {0} /\ t \in Seq(TextAtoms) /\ OneNumber(t) /\ RunesWhole(t) /\ Len(t) \in Nat
  BY TelemetryAssumption DEF RawText
<1>1. CASE Len(t) <= n
  BY <1>1 DEF Firewall!TruncateAtRune
<1>2. CASE ~(Len(t) <= n)
  <2> DEFINE m == IF t[n + 1] = "r2" THEN n - 1 ELSE n
             u == SubSeq(t, 1, m)
  <2>1. Firewall!TruncateAtRune(t) = u
    BY <1>2 DEF Firewall!TruncateAtRune, Firewall!IsContinuation
  <2>2. m \in Nat /\ m < Len(t)
    BY <1>0, <1>2
  <2>3. u \in Seq(TextAtoms) /\ Len(u) = m /\ \A i \in 1 .. m : u[i] = t[i]
    <3>1. 1 \in Nat \ {0} /\ 1 <= m + 1 /\ m <= Len(t) /\ (m + 1) - 1 = m /\ \A i \in 1 .. m : (1 + i) - 1 = i
      BY <1>0, <2>2
    <3> HIDE DEF m
    <3> QED BY <1>0, <2>2, <3>1, Slice
  <2> HIDE DEF u
  <2>4. OneNumber(u)
    <3>1. Firewall!Numbers(u) \subseteq Firewall!Numbers(t)
      <4> SUFFICES ASSUME NEW i \in 1 .. m - 1, u[i] = "p1", u[i + 1] = "p2"
                   PROVE  i \in Firewall!Numbers(t)
        BY <2>3 DEF Firewall!Numbers
      <4>1. i \in 1 .. Len(t) - 1 /\ i \in 1 .. m /\ i + 1 \in 1 .. m
        BY <1>0, <2>2
      <4> QED BY <2>3, <4>1 DEF Firewall!Numbers
    <3> QED BY <1>0, <3>1 DEF OneNumber
  <2>5. RunesWhole(u)
    <3> SUFFICES ASSUME NEW i \in 1 .. m
                 PROVE  /\ u[i] = "r1" => i < m /\ u[i + 1] = "r2"
                        /\ u[i] = "r2" => 1 < i /\ u[i - 1] = "r1"
      BY <2>3 DEF RunesWhole
    <3>1. i \in 1 .. Len(t) /\ u[i] = t[i]
      BY <1>0, <2>2, <2>3
    <3>2. ASSUME u[i] = "r1" PROVE i < m /\ u[i + 1] = "r2"
      <4>1. i < Len(t) /\ t[i + 1] = "r2"
        BY <1>0, <3>1, <3>2 DEF RunesWhole
      <4>2. i # m
        <5>1. CASE t[n + 1] = "r2"
          <6>1. n + 1 \in 1 .. Len(t) /\ n \in 1 .. Len(t) /\ (n + 1) - 1 = n /\ m + 1 = n
            BY <1>0, <1>2, <5>1
          <6>2. t[n] = "r1"
            BY <1>0, <5>1, <6>1 DEF RunesWhole
          <6> QED BY <4>1, <6>1, <6>2
        <5>2. CASE t[n + 1] # "r2"
          <6>1. m = n
            BY <5>2
          <6> QED BY <4>1, <5>2, <6>1
        <5> QED BY <5>1, <5>2
      <4> HIDE DEF m
      <4>3. i < m /\ i + 1 \in 1 .. m
        BY <2>2, <4>2
      <4> QED BY <2>3, <4>1, <4>3
    <3>3. ASSUME u[i] = "r2" PROVE 1 < i /\ u[i - 1] = "r1"
      <4>1. 1 < i /\ t[i - 1] = "r1"
        BY <1>0, <3>1, <3>3 DEF RunesWhole
      <4> HIDE DEF m
      <4>2. i - 1 \in 1 .. m
        BY <2>2, <4>1
      <4> QED BY <2>3, <4>1, <4>2
    <3> QED BY <3>2, <3>3
  <2> QED BY <2>1, <2>3, <2>4, <2>5 DEF RawText
<1> QED BY <1>1, <1>2

\* A number is cut out and something put where it was.
CutAt(u, i, x) == SubSeq(u, 1, i - 1) \o <<x>> \o SubSeq(u, i + 2, Len(u))
LEMMA Cut ==
  ASSUME NEW V, NEW u \in Seq(V), NEW x \in V, NEW i \in 1 .. Len(u) - 1,
         NEW w, w = CutAt(u, i, x)
  PROVE  /\ w \in Seq(V) /\ Len(w) = Len(u) - 1
         /\ \A k \in 1 .. Len(w) : w[k] = IF k < i THEN u[k] ELSE IF k = i THEN x ELSE u[k + 1]
<1> DEFINE a == SubSeq(u, 1, i - 1)
           c == SubSeq(u, i + 2, Len(u))
           b == a \o <<x>>
<1>0. Len(u) \in Nat /\ i \in Nat \ {0} /\ i <= Len(u) - 1
  OBVIOUS
<1>1. a \in Seq(V) /\ Len(a) = i - 1 /\ \A k \in 1 .. i - 1 : a[k] = u[k]
  <2>1. /\ i - 1 \in Nat /\ 1 <= (i - 1) + 1 /\ i - 1 <= Len(u) /\ ((i - 1) + 1) - 1 = i - 1
        /\ \A k \in 1 .. i - 1 : (1 + k) - 1 = k
    BY <1>0
  <2> QED BY <2>1, Slice
<1>2. /\ c \in Seq(V) /\ Len(c) = (Len(u) + 1) - (i + 2)
      /\ \A k \in 1 .. (Len(u) + 1) - (i + 2) : c[k] = u[((i + 2) + k) - 1]
  <2>1. i + 2 \in Nat \ {0} /\ i + 2 <= Len(u) + 1 /\ Len(u) <= Len(u)
    BY <1>0
  <2> QED BY <1>0, <2>1, Slice
<1> HIDE DEF a, c
<1>3. b \in Seq(V) /\ Len(b) = i /\ \A k \in 1 .. i : b[k] = IF k < i THEN u[k] ELSE x
  <2>1. <<x>> \in Seq(V) /\ Len(<<x>>) = 1 /\ <<x>>[1] = x
    BY Single
  <2>2. /\ b \in Seq(V) /\ Len(b) = (i - 1) + 1
        /\ \A k \in 1 .. (i - 1) + 1 : b[k] = IF k <= i - 1 THEN a[k] ELSE <<x>>[k - (i - 1)]
    <3> DEFINE o == <<x>>
    <3> HIDE DEF o
    <3>1. /\ a \o o \in Seq(V) /\ Len(a \o o) = Len(a) + Len(o)
          /\ \A k \in 1 .. Len(a) + Len(o) :
               (a \o o)[k] = IF k <= Len(a) THEN a[k] ELSE o[k - Len(a)]
      BY <1>1, <2>1, Join DEF o
    <3>2. b = a \o o
      BY DEF o
    <3>3. Len(a) = i - 1 /\ Len(o) = 1
      BY <1>1, <2>1 DEF o
    <3> HIDE DEF b
    <3> QED BY <3>1, <3>2, <3>3 DEF o
  <2> HIDE DEF b
  <2>3. (i - 1) + 1 = i
    BY <1>0
  <2>4. ASSUME NEW k \in 1 .. i PROVE b[k] = IF k < i THEN u[k] ELSE x
    <3>1. CASE k < i
      <4>1. k \in 1 .. i - 1 /\ k <= i - 1
        BY <1>0, <3>1
      <4> QED BY <1>1, <2>2, <2>3, <3>1, <4>1
    <3>2. CASE ~(k < i)
      <4>1. k = i /\ ~(k <= i - 1) /\ k - (i - 1) = 1
        BY <1>0, <3>2
      <4> QED BY <2>1, <2>2, <2>3, <3>2, <4>1
    <3> QED BY <3>1, <3>2
  <2> QED BY <2>2, <2>3, <2>4
<1>4. w = b \o c
  BY DEF a, b, c, CutAt
<1> HIDE DEF b
<1>5. w \in Seq(V) /\ Len(w) = Len(u) - 1
  <2>1. Len(w) = i + ((Len(u) + 1) - (i + 2)) /\ w \in Seq(V)
    BY <1>2, <1>3, <1>4, Join
  <2> QED BY ONLY <1>0, <2>1
<1>6. ASSUME NEW k \in 1 .. Len(w)
      PROVE  w[k] = IF k <= i THEN b[k] ELSE c[k - i]
  <2>1. k \in 1 .. Len(b) + Len(c)
    <3>1. Len(b) + Len(c) = Len(w)
      BY <1>2, <1>3, <1>4, Join
    <3> QED BY <3>1
  <2> QED BY <1>2, <1>3, <1>4, <2>1, Join
<1>7. ASSUME NEW k \in 1 .. Len(w)
      PROVE  w[k] = IF k < i THEN u[k] ELSE IF k = i THEN x ELSE u[k + 1]
  <2>1. CASE k <= i
    <3>1. k \in 1 .. i /\ (~(k < i) => k = i)
      BY <1>0, <2>1
    <3> QED BY <1>3, <1>6, <2>1, <3>1
  <2>2. CASE ~(k <= i)
    <3>1. /\ k - i \in 1 .. (Len(u) + 1) - (i + 2) /\ ((i + 2) + (k - i)) - 1 = k + 1
          /\ ~(k < i) /\ k # i
      <4>1. k \in Nat /\ k <= Len(u) - 1
        BY ONLY <1>0, <1>5, k \in 1 .. Len(w)
      <4> QED BY ONLY <1>0, <4>1, <2>2
    <3> QED BY <1>2, <1>6, <2>2, <3>1
  <2> QED BY <2>1, <2>2
<1> QED BY <1>5, <1>7

\* A value behind the walk.
Washed(t, x) ==
  /\ t \in Seq(TextAtoms \cup Stands) /\ Firewall!Numbers(t) = {}
  /\ \A i \in 1 .. Len(t) : t[i] \in TextAtoms \cup {x}
  /\ t # <<>> => t[Len(t)] # "r1"

LEMMA RawWashed ==
  ASSUME NEW t, RawText(t), Firewall!Replacement \in Stands
  PROVE  Washed(Firewall!Redacted(t), Firewall!Replacement)
<1> DEFINE x == Firewall!Replacement
           w == Firewall!Redacted(t)
<1>0. t \in Seq(TextAtoms) /\ OneNumber(t) /\ RunesWhole(t) /\ Len(t) \in Nat /\ x \in Stands
  BY DEF RawText
<1>1. \A i \in 1 .. Len(t) : t[i] \in TextAtoms
  BY <1>0
<1>2. t # <<>> => Len(t) \in 1 .. Len(t) /\ t[Len(t)] # "r1"
  <2>1. t # <<>> => Len(t) \in 1 .. Len(t) /\ ~(Len(t) < Len(t))
    BY <1>0
  <2> QED BY <1>0, <2>1 DEF RunesWhole
<1>3. t \in Seq(TextAtoms \cup Stands)
  BY <1>0
<1>4. CASE Firewall!Numbers(t) = {}
  <2>1. w = t
    BY <1>4 DEF Firewall!Redacted
  <2> QED BY <1>1, <1>2, <1>3, <1>4, <2>1 DEF Washed
<1>5. CASE Firewall!Numbers(t) # {}
  <2> DEFINE i == CHOOSE i \in Firewall!Numbers(t) : TRUE
  <2>1. i \in Firewall!Numbers(t)
    BY <1>5
  <2>2. w = CutAt(t, i, x)
    BY <1>5 DEF Firewall!Redacted, CutAt
  <2> HIDE DEF w, x, i
  <2>3. i \in 1 .. Len(t) - 1
    BY <2>1 DEF Firewall!Numbers
  <2>4. x \in TextAtoms \cup Stands
    BY <1>0
  <2>5. /\ w \in Seq(TextAtoms \cup Stands) /\ Len(w) = Len(t) - 1
        /\ \A k \in 1 .. Len(w) : w[k] = IF k < i THEN t[k] ELSE IF k = i THEN x ELSE t[k + 1]
    <3> DEFINE V == TextAtoms \cup Stands
    <3>1. t \in Seq(V) /\ x \in V
      BY <1>3, <2>4
    <3> HIDE DEF V
    <3>2. /\ w \in Seq(V) /\ Len(w) = Len(t) - 1
          /\ \A k \in 1 .. Len(w) : w[k] = IF k < i THEN t[k] ELSE IF k = i THEN x ELSE t[k + 1]
      BY <3>1, <2>2, <2>3, Cut
    <3> QED BY <3>2 DEF V
  <2>6. x \notin {"p1", "p2", "r1"}
    BY <1>0 DEF Stands
  <2>7. Firewall!Numbers(w) = {}
    <3> SUFFICES ASSUME NEW k \in 1 .. Len(w) - 1, w[k] = "p1", w[k + 1] = "p2" PROVE FALSE
      BY DEF Firewall!Numbers
    <3>0. k \in 1 .. Len(w) /\ k + 1 \in 1 .. Len(w) /\ k \in Nat /\ i \in Nat
      BY <1>0, <2>3, <2>5
    <3>1. k # i /\ k + 1 # i
      BY <2>5, <2>6, <3>0
    <3>2. CASE k + 1 < i
      <4>1. k < i /\ k \in 1 .. Len(t) - 1
        BY <1>0, <2>5, <3>0, <3>2
      <4>2. k \in Firewall!Numbers(t)
        BY <2>5, <3>0, <3>2, <4>1 DEF Firewall!Numbers
      <4> QED BY <1>0, <2>1, <3>1, <4>2 DEF OneNumber
    <3>3. CASE k > i
      <4>1. ~(k < i) /\ ~(k + 1 < i) /\ k + 1 # i /\ k + 1 \in 1 .. Len(t) - 1 /\ k + 1 + 1 = (k + 1) + 1
        BY <1>0, <2>5, <3>0, <3>3
      <4>2. k + 1 \in Firewall!Numbers(t)
        BY <2>5, <3>0, <3>1, <4>1 DEF Firewall!Numbers
      <4>3. k + 1 # i
        BY <4>1
      <4> QED BY <1>0, <2>1, <4>2, <4>3 DEF OneNumber
    <3> QED BY <3>0, <3>1, <3>2, <3>3
  <2>8. ASSUME NEW k \in 1 .. Len(w) PROVE w[k] \in TextAtoms \cup {x}
    <3>1. k \in 1 .. Len(t) /\ k + 1 \in 1 .. Len(t)
      BY <1>0, <2>5
    <3> QED BY <1>1, <2>5, <3>1
  <2>9. ASSUME w # <<>> PROVE w[Len(w)] # "r1"
    <3>1. Len(w) \in 1 .. Len(w) /\ Len(w) + 1 = Len(t) /\ ~(Len(w) < i)
      BY <1>0, <2>3, <2>5, <2>9
    <3>2. w[Len(w)] = x \/ w[Len(w)] = t[Len(t)]
      BY <2>5, <3>1
    <3>3. t # <<>>
      BY <1>0, <2>3
    <3> QED BY <1>2, <2>6, <3>2, <3>3
  <2> QED BY <2>5, <2>7, <2>8, <2>9 DEF Washed, w, x
<1> QED BY <1>4, <1>5

\* Of the fields of a data point only an exemplar's are not where RedactOTLPJSON looks.
LEMMA Tuples ==
  ASSUME NEW V, NEW a \in V, NEW b \in V, NEW c \in V, NEW d \in V
  PROVE  /\ <<a, b>> \in Seq(V) /\ <<a, b, c>> \in Seq(V) /\ <<a, b, c, d>> \in Seq(V)
         /\ Len(<<a, b>>) = 2 /\ Len(<<a, b, c>>) = 3 /\ Len(<<a, b, c, d>>) = 4
<1>1. <<a, b>> \in Seq(V) /\ Len(<<a, b>>) = 2
  OBVIOUS
<1>2. <<a, b, c>> \in Seq(V) /\ Len(<<a, b, c>>) = 3
  OBVIOUS
<1>3. <<a, b, c, d>> \in Seq(V) /\ Len(<<a, b, c, d>>) = 4
  OBVIOUS
<1> QED BY <1>1, <1>2, <1>3

LEMMA OnlyExemplars ==
  ASSUME NEW p \in Firewall!Places("filteredAttributes"), p \notin Firewall!Places("attributes")
  PROVE  DOMAIN p = 1 .. 7 /\ p[7] = "filteredAttributes"
<1> DEFINE metric == <<"resourceMetrics", "scopeMetrics", "metrics">>
<1>1. PICK q \in Firewall!PointParts("filteredAttributes") : p = metric \o q /\ q \notin Firewall!PointParts("attributes")
  BY DEF Firewall!Places, Firewall!Scoped
<1>2. PICK k \in Firewall!Kinds : q = <<k, "dataPoints", "exemplars", "filteredAttributes">>
  BY <1>1 DEF Firewall!PointParts
<1> DEFINE V == {k, "dataPoints", "exemplars", "filteredAttributes", "resourceMetrics", "scopeMetrics", "metrics"}
<1>3. /\ k \in V /\ "dataPoints" \in V /\ "exemplars" \in V /\ "filteredAttributes" \in V
      /\ "resourceMetrics" \in V /\ "scopeMetrics" \in V /\ "metrics" \in V
  OBVIOUS
<1> HIDE DEF V
<1>4. q \in Seq(V) /\ Len(q) = 4 /\ q[4] = "filteredAttributes"
  BY <1>2, <1>3, Tuples
<1>5. metric \in Seq(V) /\ Len(metric) = 3
  BY <1>3, Tuples
<1> HIDE DEF metric
<1>6. p \in Seq(V) /\ Len(p) = 7 /\ p[7] = "filteredAttributes"
  <2>1. 7 \in 1 .. 7 /\ 3 + 4 = 7 /\ ~(7 <= 3) /\ 7 - 3 = 4
    OBVIOUS
  <2>2. /\ p \in Seq(V) /\ Len(p) = Len(metric) + Len(q)
        /\ \A i \in 1 .. Len(metric) + Len(q) : p[i] = IF i <= Len(metric) THEN metric[i] ELSE q[i - Len(metric)]
    BY <1>1, <1>4, <1>5, Join
  <2>3. p[7] = q[4]
    BY <1>4, <1>5, <2>1, <2>2
  <2> QED BY <1>4, <1>5, <2>1, <2>2, <2>3
<1> QED BY <1>6

LEMMA NamedExemplars ==
  ASSUME NEW name, Firewall!Named(name) = "filteredAttributes"
  PROVE  name = "filteredAttributes"
<1>1. \A n \in DOMAIN Firewall!Spelt : Firewall!Spelt[n] # "filteredAttributes"
  BY DEF Firewall!Spelt
<1> QED BY <1>1 DEF Firewall!Named

LEMMA UnwalkedExemplar ==
  ASSUME NEW v, v.at \in Seq(STRING), Fielded(carried, v), carried \in {"json", "pdata"},
         v.isText, ~Firewall!Walked(v)
  PROVE  Firewall!NoExemplars(v)
<1>1. carried = "json" /\ ~Firewall!JsonWalk(v)
  BY DEF Firewall!Walked, Firewall!PdataWalk, Fielded, InField
<1> DEFINE p == [i \in DOMAIN v.at |-> Firewall!Named(v.at[i])]
<1> DEFINE c == [i \in DOMAIN v.at |-> Canonical(v.at[i])]
<1>0. \A name : Canonical(name) = Firewall!Named(name)
  BY DEF Canonical, Firewall!Named
<1>2. p \in Firewall!Places("filteredAttributes") /\ p \notin Firewall!Places("attributes")
  <2>1. c = p
    BY <1>0, Zenon
  <2>2. c \in Firewall!Places("attributes") \cup Firewall!Places("filteredAttributes")
    BY <1>1 DEF Fielded, InField
  <2>3. p \notin Firewall!Places("attributes")
    BY <1>1 DEF Firewall!JsonWalk
  <2> QED BY <2>1, <2>2, <2>3, Zenon
<1>3. DOMAIN p = DOMAIN v.at /\ \A i \in DOMAIN v.at : p[i] = Firewall!Named(v.at[i])
  OBVIOUS
<1> HIDE DEF p
<1>4. DOMAIN v.at = 1 .. 7 /\ p[7] = "filteredAttributes"
  BY <1>2, <1>3, OnlyExemplars
<1>5. Len(v.at) = 7 /\ 7 \in DOMAIN v.at
  <2>1. PICK n \in Nat : n = Len(v.at) /\ 1 .. n = 1 .. 7
    <3>1. Len(v.at) \in Nat /\ DOMAIN v.at = 1 .. Len(v.at)
      OBVIOUS
    <3> QED BY <1>4, <3>1
  <2>2. 7 \in 1 .. n /\ n \in 1 .. n
    BY <2>1
  <2>3. n <= 7 /\ 7 <= n
    BY ONLY <2>1, <2>2
  <2>4. n = 7
    BY <2>3
  <2> QED BY <2>1, <2>2, <2>4, <1>4
<1>6. v.at[7] = "filteredAttributes"
  BY <1>3, <1>4, <1>5, NamedExemplars
<1> QED BY <1>1, <1>5, <1>6 DEF Firewall!NoExemplars, Firewall!Last

\* What is on the skip list is a key of attributes; no name has one.
LEMMA SkippedKey ==
  ASSUME NEW v, v.at \in Seq(STRING), Fielded(carried, v), Firewall!Skipped(v)
  PROVE  /\ Firewall!FlattenSeq(v.keys) \in {<<"error", "type">>}
         /\ Firewall!Last(v.at) # "name"
<1> DEFINE o == Firewall!Own(v.at)
           f == Firewall!FlattenSeq(v.keys)
           k == o \o f
           V == STRING \cup {"status", "message", "body", "event", "name"}
<1>1. k = <<"error", "type">> /\ f \in Seq(V) /\ (Firewall!Last(v.at) = "name" => f = <<>>)
  <2>1. f \in Seq(STRING)
    BY DEF Fielded
  <2> QED BY <2>1 DEF Firewall!Skipped, Firewall!Key, Fielded
<1>2. \/ o = <<>> /\ Firewall!Last(v.at) # "name"
      \/ o = <<>> /\ Firewall!Last(v.at) = "name"
      \/ o = <<"status", "message">> \/ o = <<"body">> \/ o = <<"event", "name">>
  BY DEF Firewall!Own
<1>0. /\ "status" \in V /\ "message" \in V /\ "body" \in V /\ "event" \in V /\ "name" \in V
  OBVIOUS
<1> HIDE DEF o, f, V
<1>3. ASSUME o = <<>> PROVE k = f
  BY <1>1, <1>3
<1>4. ASSUME NEW s \in Seq(V), o = s, Len(s) # 0, s[1] # "error" PROVE FALSE
  <2>1. 1 \in 1 .. Len(s) + Len(f) /\ 1 <= Len(s)
    BY <1>1, <1>4
  <2>2. k[1] = s[1]
    BY <1>1, <1>4, <2>1, Join
  <2>3. k[1] = "error"
    BY <1>1
  <2> QED BY <1>4, <2>2, <2>3
<1>5. CASE o = <<"body">>
  <2>1. <<"body">> \in Seq(V) /\ Len(<<"body">>) # 0 /\ <<"body">>[1] # "error"
    BY <1>0, Single
  <2> QED BY <1>4, <1>5, <2>1
<1>6. CASE o = <<"status", "message">>
  <2>1. <<"status", "message">>[1] # "error"
    OBVIOUS
  <2>2. <<"status", "message">> \in Seq(V) /\ Len(<<"status", "message">>) # 0
    BY <1>0, Tuples
  <2> QED BY <1>4, <1>6, <2>1, <2>2
<1>7. CASE o = <<"event", "name">>
  <2>1. <<"event", "name">>[1] # "error"
    OBVIOUS
  <2>2. <<"event", "name">> \in Seq(V) /\ Len(<<"event", "name">>) # 0
    BY <1>0, Tuples
  <2> QED BY <1>4, <1>7, <2>1, <2>2
<1>8. CASE o = <<>> /\ Firewall!Last(v.at) = "name"
  <2>1. f = <<>> /\ f = <<"error", "type">>
    BY <1>1, <1>3, <1>8
  <2> QED BY <2>1
<1>9. CASE o = <<>> /\ Firewall!Last(v.at) # "name"
  BY <1>1, <1>3, <1>9 DEF f
<1> QED BY <1>2, <1>5, <1>6, <1>7, <1>8, <1>9

\* A value is rewritten where it stands.
LEMMA PutOne ==
  ASSUME NEW V, NEW s \in Seq(V), NEW j \in 1 .. Len(s), NEW x \in V, NEW q, q = [s EXCEPT ![j] = x]
  PROVE  /\ q \in Seq(V) /\ Len(q) = Len(s) /\ s[j] \in V
         /\ \A k \in 1 .. Len(s) : q[k] = IF k = j THEN x ELSE s[k]
OBVIOUS

LEMMA ElementIn == ASSUME NEW V, NEW s \in Seq(V), NEW j \in 1 .. Len(s) PROVE s[j] \in V
OBVIOUS

Batches == BatchOf(TextAtoms \cup Stands)
ResourceType == [tenant : Attributes, values : Seq(ValuesOf(TextAtoms \cup Stands))]

Puts(p, r, j, x, q) == q = [p EXCEPT ![r].values[j].text = x]
PutAt(p, r, j, x, q) ==
  /\ Len(q) = Len(p)
  /\ \A i \in 1 .. Len(p) :
       /\ q[i].tenant = p[i].tenant /\ Len(q[i].values) = Len(p[i].values)
       /\ \A k \in 1 .. Len(p[i].values) :
            q[i].values[k] = IF i = r /\ k = j THEN [p[i].values[k] EXCEPT !.text = x]
                             ELSE p[i].values[k]

LEMMA PutText ==
  ASSUME NEW p \in Batches, NEW r \in 1 .. Len(p), NEW j \in 1 .. Len(p[r].values),
         NEW x \in Seq(TextAtoms \cup Stands), NEW q, Puts(p, r, j, x, q)
  PROVE  q \in Batches /\ PutAt(p, r, j, x, q)
<1> DEFINE T == ValuesOf(TextAtoms \cup Stands)
           v == [p[r].values[j] EXCEPT !.text = x]
           s == [p[r].values EXCEPT ![j] = v]
           m == [p[r] EXCEPT !.values = s]
<1>0. p \in Seq(ResourceType)
  BY DEF Batches, BatchOf, ResourceType
<1>1. p[r] \in ResourceType
  BY <1>0, ElementIn
<1>2. p[r].values \in Seq(T) /\ p[r].tenant \in Attributes
  BY <1>1 DEF ResourceType
<1>3. p[r].values[j] \in T
  <2> HIDE DEF T
  <2> QED BY <1>2, ElementIn
<1>4. v \in T
  BY <1>3 DEF ValuesOf
<1>5. q = [p EXCEPT ![r] = m]
  BY DEF Puts
<1> HIDE DEF v, T
<1>6. s \in Seq(T) /\ Len(s) = Len(p[r].values)
      /\ \A k \in 1 .. Len(s) : s[k] = IF k = j THEN v ELSE p[r].values[k]
  <2> DEFINE w == p[r].values
  <2>1. w \in Seq(T) /\ j \in 1 .. Len(w) /\ s = [w EXCEPT ![j] = v]
    BY <1>2
  <2> HIDE DEF s, w
  <2>2. /\ s \in Seq(T) /\ Len(s) = Len(w)
        /\ \A k \in 1 .. Len(w) : s[k] = IF k = j THEN v ELSE w[k]
    BY <1>4, <2>1, PutOne
  <2> QED BY <2>2 DEF w
<1> HIDE DEF s
<1>7. m \in ResourceType /\ m.tenant = p[r].tenant /\ m.values = s
  BY <1>1, <1>6 DEF ResourceType, T
<1> HIDE DEF m
<1>8. q \in Seq(ResourceType) /\ Len(q) = Len(p) /\ \A i \in 1 .. Len(p) : q[i] = IF i = r THEN m ELSE p[i]
  <2> HIDE DEF ResourceType
  <2>1. m \in ResourceType
    BY <1>7
  <2>2. r \in 1 .. Len(p)
    OBVIOUS
  <2> QED BY ONLY <1>0, <1>5, <2>1, <2>2, PutOne
<1>9. ASSUME NEW i \in 1 .. Len(p), NEW k \in 1 .. Len(p[i].values)
      PROVE  q[i].values[k] = IF i = r /\ k = j THEN [p[i].values[k] EXCEPT !.text = x] ELSE p[i].values[k]
  <2>1. CASE i = r
    <3>1. q[i].values = s /\ p[i].values = p[r].values
      BY <1>7, <1>8, <2>1
    <3>2. s[k] = IF k = j THEN v ELSE p[r].values[k]
      BY <1>6, <2>1
    <3> QED BY <2>1, <3>1, <3>2 DEF v
  <2>2. CASE i # r
    BY <1>8, <2>2
  <2> QED BY <2>1, <2>2
<1>10. ASSUME NEW i \in 1 .. Len(p) PROVE q[i].tenant = p[i].tenant /\ Len(q[i].values) = Len(p[i].values)
  BY <1>6, <1>7, <1>8
<1>11. q \in Batches
  BY <1>8 DEF Batches, BatchOf, ResourceType
<1> QED BY <1>8, <1>9, <1>10, <1>11 DEF PutAt

\* What is a resource's value behind the walk.
Clean(r, v) ==
  v.isText =>
    /\ Firewall!Numbers(v.text) # {} =>
         \/ Firewall!NoExemplars(v)
         \/ Firewall!FlattenSeq(v.keys) \in {<<"error", "type">>} /\ Firewall!Last(v.at) # "name"
    /\ Firewall!ToSet(v.text) \cap (Firewall!Tenants \cup {"minted"}) \subseteq {Firewall!Tenant(r)}
    /\ v.text # <<>> => Firewall!Last(v.text) # "r1"

LEMMA RawTenants ==
  ASSUME NEW t, RawText(t)
  PROVE  /\ Firewall!ToSet(t) \cap (Firewall!Tenants \cup {"minted"}) = {}
         /\ t # <<>> => Firewall!Last(t) # "r1"
<1>1. t \in Seq(TextAtoms) /\ RunesWhole(t) /\ Len(t) \in Nat
  BY DEF RawText
<1>2. \A i \in DOMAIN t : t[i] \notin Firewall!Tenants \cup {"minted"}
  BY <1>1 DEF TextAtoms, Firewall!Tenants
<1>3. t # <<>> => Len(t) \in 1 .. Len(t) /\ ~(Len(t) < Len(t))
  BY <1>1
<1> QED BY <1>1, <1>2, <1>3 DEF Firewall!ToSet, Firewall!Last, RunesWhole

LEMMA UntouchedClean ==
  ASSUME NEW r, NEW v, v.at \in Seq(STRING), RawText(v.text), Fielded(carried, v),
         carried \in {"json", "pdata"},
         v.isText => ~Firewall!Walked(v) \/ Firewall!Skipped(v) \/ v.text = <<>>
  PROVE  Clean(r, v)
<1> SUFFICES ASSUME v.isText PROVE Clean(r, v)
  BY DEF Clean
<1>1. Firewall!Numbers(v.text) # {} =>
        \/ Firewall!NoExemplars(v)
        \/ Firewall!FlattenSeq(v.keys) \in {<<"error", "type">>} /\ Firewall!Last(v.at) # "name"
  <2>1. v.text = <<>> => Firewall!Numbers(v.text) = {}
    BY DEF Firewall!Numbers
  <2> QED BY <2>1, UnwalkedExemplar, SkippedKey
<1> QED BY <1>1, RawTenants DEF Clean

LEMMA RedactedClean ==
  ASSUME NEW r, NEW v, NEW t, RawText(t), Firewall!Replacement \in {"gone", Firewall!Tenant(r)},
         Firewall!Tenant(r) \in Firewall!Tenants, v.text = Firewall!Redacted(t)
  PROVE  Clean(r, v) /\ v.text \in Seq(TextAtoms \cup Stands)
<1>1. Firewall!Replacement \in Stands
  BY DEF Stands, Firewall!Tenants
<1>2. Washed(v.text, Firewall!Replacement)
  BY <1>1, RawWashed
<1>3. v.text \in Seq(TextAtoms \cup Stands) /\ Firewall!Numbers(v.text) = {}
  BY <1>2 DEF Washed
<1>4. Firewall!ToSet(v.text) \cap (Firewall!Tenants \cup {"minted"}) \subseteq {Firewall!Tenant(r)}
  <2>1. \A i \in DOMAIN v.text : v.text[i] \in TextAtoms \cup {Firewall!Replacement}
    BY <1>2, <1>3 DEF Washed
  <2>2. (TextAtoms \cup {"gone"}) \cap (Firewall!Tenants \cup {"minted"}) = {}
    BY DEF TextAtoms, Firewall!Tenants
  <2> QED BY <2>1, <2>2 DEF Firewall!ToSet
<1>5. v.text # <<>> => Firewall!Last(v.text) # "r1"
  BY <1>2 DEF Washed, Firewall!Last
<1> QED BY <1>3, <1>4, <1>5 DEF Clean

\* The walk: what is behind it is clean, what is before it as it came, until an error.
Nobody == {"", "invalid"}
Configs   == [tenant : {"", "own"}, attribute : BOOLEAN, failureMode : {"drop", "forward"}]
Behind(i, k) == i < at.resource \/ (i = at.resource /\ k < at.value)
TelemetryTypes ==
  /\ payload \in Batches /\ carried \in {"json", "pdata"} /\ config \in Configs
  /\ \A i \in 1 .. Len(payload) : \A k \in 1 .. Len(payload[i].values) :
       Fielded(carried, payload[i].values[k])
  /\ at \in [resource : Nat \ {0}, value : Nat \ {0}]
  /\ walkErr \in BOOLEAN
  /\ state \in {"new", "refused", "resolving", "walking", "sent", "dropped"}
TelemetryFlow ==
  state \in {"resolving", "walking"} =>
    flow.default \in {"hash", "drop"} /\ flow.byType \in {"none", "hash", "drop"}
Wash ==
  ~walkErr =>
    \A i \in 1 .. Len(payload) : \A k \in 1 .. Len(payload[i].values) :
      IF Behind(i, k) THEN Clean(payload[i], payload[i].values[k])
      ELSE RawText(payload[i].values[k].text)
TelemetryState ==
  /\ state = "new" => at.resource = 1 /\ at.value = 1 /\ ~walkErr
  /\ state = "resolving" => at.value = 1 /\ ~walkErr
  /\ state = "walking" =>
       /\ at.resource <= Len(payload) /\ tenant = Firewall!Tenant(payload[at.resource])
       /\ tenant \in Firewall!Tenants
  /\ state = "sent" => Firewall!GivenUp \/ (~walkErr /\ at.resource > Len(payload))
TelemetryInv == TelemetryTypes /\ TelemetryFlow /\ Wash /\ TelemetryState

LEMMA SeqShape == ASSUME NEW V, NEW s \in Seq(V) PROVE Len(s) \in Nat /\ DOMAIN s = 1 .. Len(s)
OBVIOUS

LEMMA BatchShape ==
  ASSUME NEW p \in Batches
  PROVE  /\ Len(p) \in Nat /\ DOMAIN p = 1 .. Len(p)
         /\ \A i \in 1 .. Len(p) :
              /\ p[i].tenant \in Attributes
              /\ Len(p[i].values) \in Nat /\ DOMAIN p[i].values = 1 .. Len(p[i].values)
              /\ \A k \in 1 .. Len(p[i].values) : p[i].values[k].at \in Seq(STRING)
<1>1. p \in Seq(ResourceType)
  BY DEF Batches, BatchOf, ResourceType
<1>2. Len(p) \in Nat /\ DOMAIN p = 1 .. Len(p)
  <2> HIDE DEF ResourceType
  <2> QED BY <1>1
<1>3. ASSUME NEW i \in 1 .. Len(p)
      PROVE  /\ p[i].tenant \in Attributes
             /\ Len(p[i].values) \in Nat /\ DOMAIN p[i].values = 1 .. Len(p[i].values)
             /\ \A k \in 1 .. Len(p[i].values) : p[i].values[k].at \in Seq(STRING)
  <2>1. p[i] \in ResourceType
    BY <1>1, ElementIn
  <2> DEFINE T == ValuesOf(TextAtoms \cup Stands)
             w == p[i].values
  <2>2. p[i].tenant \in Attributes /\ w \in Seq(T)
    BY <2>1 DEF ResourceType
  <2>3. ASSUME NEW x \in T PROVE x.at \in Seq(STRING)
    BY DEF ValuesOf
  <2> HIDE DEF T, w
  <2>4. Len(w) \in Nat /\ DOMAIN w = 1 .. Len(w)
    BY <2>2, SeqShape
  <2>5. \A k \in 1 .. Len(w) : w[k].at \in Seq(STRING)
    BY <2>2, <2>3, ElementIn
  <2> QED BY <2>2, <2>4, <2>5 DEF w
<1> QED BY <1>2, <1>3

LEMMA BatchValue ==
  ASSUME NEW p \in Batches, NEW i \in 1 .. Len(p), NEW k \in 1 .. Len(p[i].values)
  PROVE  p[i].values[k] \in ValuesOf(TextAtoms \cup Stands)
<1>1. p \in Seq(ResourceType)
  BY DEF Batches, BatchOf, ResourceType
<1>2. p[i] \in ResourceType
  BY <1>1, ElementIn
<1>3. p[i].values \in Seq(ValuesOf(TextAtoms \cup Stands))
  BY <1>2 DEF ResourceType
<1> QED BY <1>3, ElementIn

LEMMA BatchIndex ==
  ASSUME NEW p \in Batches, NEW i \in 1 .. Len(p), NEW k \in 1 .. Len(p[i].values)
  PROVE  i \in Nat \ {0} /\ k \in Nat \ {0}
<1>1. Len(p) \in Nat /\ Len(p[i].values) \in Nat
  BY BatchShape
<1>2. ASSUME NEW n \in Nat, NEW j \in 1 .. n PROVE j \in Nat \ {0}
  OBVIOUS
<1> QED BY <1>1, <1>2

\* A batch of raw texts is one of texts.
LEMMA RawBatch ==
  ASSUME NEW p \in BatchOf(TextAtoms)
  PROVE  p \in Batches
<1> DEFINE A == ValuesOf(TextAtoms)
           T == ValuesOf(TextAtoms \cup Stands)
           R == [tenant : Attributes, values : Seq(A)]
<1>1. A \subseteq T
  <2>1. Seq(TextAtoms) \subseteq Seq(TextAtoms \cup Stands)
    <3> DEFINE U == TextAtoms \cup Stands
    <3>1. TextAtoms \subseteq U
      OBVIOUS
    <3> HIDE DEF U
    <3> QED BY <3>1
  <2> QED BY <2>1 DEF ValuesOf
<1>2. Seq(A) \subseteq Seq(T)
  <2> HIDE DEF A, T
  <2> QED BY <1>1
<1>3. R \subseteq ResourceType
  <2> HIDE DEF A
  <2> QED BY <1>2 DEF ResourceType
<1>4. p \in Seq(R)
  BY DEF BatchOf
<1>5. p \in Seq(ResourceType)
  <2> HIDE DEF R, ResourceType
  <2> QED BY <1>3, <1>4
<1> QED BY <1>5 DEF Batches, BatchOf, ResourceType

LEMMA TelemetryStarts == Firewall!Init => TelemetryInv
<1> SUFFICES ASSUME Firewall!Init PROVE TelemetryInv
  OBVIOUS
<1>1. PICK p \in Payloads : carried = p.way /\ payload = p.batch
  BY Zenon DEF Firewall!Init
<1>2. carried \in {"json", "pdata"} /\ payload \in Batches
  BY <1>1, RawBatch, TelemetryAssumption
<1>3. \A i \in 1 .. Len(payload) : \A k \in 1 .. Len(payload[i].values) :
        RawText(payload[i].values[k].text) /\ Fielded(carried, payload[i].values[k])
  BY <1>1, <1>2, BatchShape, TelemetryAssumption
<1>4. config \in Configs
  BY Zenon DEF Firewall!Init, Configs
<1>5. at = [resource |-> 1, value |-> 1] /\ walkErr = FALSE /\ state = "new"
  BY Zenon DEF Firewall!Init
<1>6. at \in [resource : Nat \ {0}, value : Nat \ {0}] /\ at.resource = 1 /\ at.value = 1
  BY <1>5
<1>7. Wash
  <2>1. ASSUME NEW i \in 1 .. Len(payload), NEW k \in 1 .. Len(payload[i].values) PROVE ~Behind(i, k)
    <3>1. i \in Nat \ {0} /\ k \in Nat \ {0}
      BY <1>2, BatchIndex
    <3> QED BY <1>6, <3>1 DEF Behind
  <2> QED BY <1>3, <2>1 DEF Wash
<1> QED BY <1>2, <1>3, <1>4, <1>5, <1>6, <1>7 DEF TelemetryInv, TelemetryTypes, TelemetryFlow, TelemetryState

LEMMA TelemetryBuilt ==
  ASSUME TelemetryInv, Firewall!New \/ Firewall!Build
  PROVE  TelemetryInv'
<1>1. /\ state = "new" /\ state' \in {"refused", "resolving"}
      /\ UNCHANGED <<carried, payload, at, tenant, walkErr>>
  BY Zenon DEF Firewall!New, Firewall!Build
<1>2. config' \in Configs
  BY Zenon DEF Firewall!New, Firewall!Build, TelemetryInv, TelemetryTypes, Configs
<1>3. state' = "resolving" =>
        flow'.default \in {"hash", "drop"} /\ flow'.byType \in {"none", "hash", "drop"}
  <2>1. CASE Firewall!New
    <3> SUFFICES ASSUME state' = "resolving"
                 PROVE  flow'.default \in {"hash", "drop"} /\ flow'.byType \in {"none", "hash", "drop"}
      OBVIOUS
    <3>1. PICK f \in [default : Firewall!Operators, byType : Firewall!Operators, restores : BOOLEAN] :
            ~Firewall!Refuses(f) /\ flow' = [default |-> f.default, byType |-> f.byType]
      BY <2>1 DEF Firewall!New
    <3>2. f.default \in Firewall!Operators /\ f.byType \in Firewall!Operators
      OBVIOUS
    <3>3. f.default \notin {"none", "mask"} /\ f.byType # "mask"
      BY <3>1 DEF Firewall!Refuses, Firewall!MaskingOperators
    <3> QED BY <3>1, <3>2, <3>3 DEF Firewall!Operators
  <2>2. CASE Firewall!Build
    <3> SUFFICES ASSUME state' = "resolving"
                 PROVE  flow'.default \in {"hash", "drop"} /\ flow'.byType \in {"none", "hash", "drop"}
      OBVIOUS
    <3>1. PICK strategy \in Firewall!Operators :
            strategy \in {"hash", "drop"} /\ flow' = [default |-> strategy, byType |-> "none"]
      BY <2>2, Zenon DEF Firewall!Build
    <3> QED BY <3>1
  <2> QED BY <2>1, <2>2
<1>4. ~walkErr /\ at.resource = 1 /\ at.value = 1
  BY <1>1 DEF TelemetryInv, TelemetryState
<1>5. Wash'
  <2>1. ASSUME NEW i \in 1 .. Len(payload), NEW k \in 1 .. Len(payload[i].values)
        PROVE  ~Behind(i, k) /\ ~Behind(i, k)' /\ RawText(payload[i].values[k].text)
    <3>1. i \in Nat \ {0} /\ k \in Nat \ {0}
      <4>1. payload \in Batches
        BY DEF TelemetryInv, TelemetryTypes
      <4> QED BY <4>1, BatchIndex
    <3>2. ~Behind(i, k) /\ ~Behind(i, k)'
      BY <1>1, <1>4, <3>1 DEF Behind
    <3> QED BY <1>4, <3>2 DEF TelemetryInv, Wash
  <2> QED BY <1>1, <2>1 DEF Wash
<1> QED BY <1>1, <1>2, <1>3, <1>4, <1>5 DEF TelemetryInv, TelemetryTypes, TelemetryFlow, TelemetryState

LEMMA TelemetryResolves ==
  ASSUME TelemetryInv, Firewall!Resolve
  PROVE  TelemetryInv'
<1>1. /\ state = "resolving" /\ state' \in {"sent", "dropped", "walking"}
      /\ UNCHANGED <<carried, payload, config, flow, at, walkErr>>
  BY Zenon DEF Firewall!Resolve, Firewall!Failed
<1>2. ~walkErr /\ at.value = 1 /\ at.resource \in Nat \ {0}
  BY <1>1 DEF TelemetryInv, TelemetryTypes, TelemetryState
<1>3. TelemetryTypes' /\ TelemetryFlow'
  BY <1>1 DEF TelemetryInv, TelemetryTypes, TelemetryFlow
<1>4. Wash'
  <2>1. \A r, v : Clean(r, v)' <=> Clean(r, v)
    BY <1>1 DEF Clean, Firewall!Tenant, Firewall!NoExemplars
  <2>2. \A i, k : Behind(i, k)' <=> Behind(i, k)
    BY <1>1 DEF Behind
  <2>3. payload' = payload /\ Wash /\ ~walkErr
    BY <1>1, <1>2 DEF TelemetryInv
  <2> QED BY <2>1, <2>2, <2>3 DEF Wash
<1>5. TelemetryState'
  <2>1. CASE at.resource > Len(payload)
    <3>1. state' = "sent"
      BY <2>1, Zenon DEF Firewall!Resolve
    <3> QED BY <1>1, <1>2, <2>1, <3>1 DEF TelemetryState
  <2>2. CASE ~(at.resource > Len(payload))
    <3> DEFINE r == payload[at.resource]
    <3>0. at.resource \in 1 .. Len(payload) /\ at.resource <= Len(payload) /\ DOMAIN payload = 1 .. Len(payload)
      <4>1. Len(payload) \in Nat /\ DOMAIN payload = 1 .. Len(payload)
        BY BatchShape DEF TelemetryInv, TelemetryTypes
      <4>2. PICK n \in Nat : n = Len(payload)
        BY <4>1, Zenon
      <4>3. at.resource \in 1 .. n /\ at.resource <= n
        BY <1>2, <2>2, <4>2
      <4> QED BY <4>1, <4>2, <4>3
    <3>1. tenant' = Firewall!TenantFor(r) /\ state' = IF tenant' \in Nobody THEN Firewall!Failed ELSE "walking"
      BY <2>2, Zenon DEF Firewall!Resolve, Firewall!Resource, Nobody
    <3>2. r.tenant \in Attributes
      BY <3>0, BatchShape DEF TelemetryInv, TelemetryTypes
    <3>3. /\ carried \in {"json", "pdata"} /\ config.attribute \in BOOLEAN
          /\ config.tenant \in {"", "own"} /\ config.failureMode \in {"drop", "forward"}
      BY Zenon DEF TelemetryInv, TelemetryTypes, Configs
    <3> HIDE DEF r
    <3>4. /\ Firewall!TenantFor(r) = Firewall!Tenant(r)
          /\ Firewall!Tenant(r) \in Firewall!Tenants \cup Nobody
      <4>1. CASE carried = "json"
        BY <4>1 DEF Firewall!TenantFor, Firewall!Tenant, Firewall!Tenants
      <4>2. CASE carried = "pdata" /\ config.attribute
        BY <3>2, <3>3, <4>2, Zenon DEF Firewall!TenantFor, Firewall!Tenant, Firewall!Tenants, Attributes, Nobody
      <4>3. CASE carried = "pdata" /\ ~config.attribute
        BY <3>2, <3>3, <4>3, Zenon DEF Firewall!TenantFor, Firewall!Tenant, Firewall!Tenants, Attributes, Nobody
      <4> QED BY <3>3, <4>1, <4>2, <4>3, Zenon
    <3>5. Firewall!Tenant(r)' = Firewall!Tenant(r)
      BY <1>1 DEF Firewall!Tenant, r
    <3>6. CASE tenant' \notin Nobody
      <4>1. state' = "walking" /\ tenant' \in Firewall!Tenants
        BY <3>1, <3>4, <3>6
      <4> QED BY <1>1, <3>0, <3>1, <3>4, <3>5, <4>1 DEF TelemetryState, r
    <3>7. CASE tenant' \in Nobody
      <4>1. Firewall!Tenant(r) \notin Firewall!Tenants /\ r \in Firewall!ToSet(payload)
        BY <3>0, <3>1, <3>4, <3>7, Zenon DEF Nobody, Firewall!Tenants, Firewall!ToSet, r
      <4>2. state' = "sent" => config.failureMode = "forward"
        BY <3>1, <3>7 DEF Firewall!Failed
      <4>3. state' = "sent" => Firewall!GivenUp
        BY <4>1, <4>2 DEF Firewall!GivenUp
      <4>4. Firewall!GivenUp => Firewall!GivenUp'
        BY <1>1, Zenon DEF Firewall!GivenUp, Firewall!Tenant
      <4>5. state' \in {"sent", "dropped"}
        BY <3>1, <3>7 DEF Firewall!Failed
      <4> QED BY <4>3, <4>4, <4>5 DEF TelemetryState
    <3> QED BY <3>6, <3>7
  <2> QED BY <2>1, <2>2
<1> QED BY <1>3, <1>4, <1>5 DEF TelemetryInv

\* The field at the walk.
LEMMA StandsFor ==
  ASSUME flow.default \in {"hash", "drop"}, flow.byType \in {"none", "hash", "drop"}
  PROVE  Firewall!Replacement \in {"gone", tenant}
<1>1. Firewall!Operator \in {"hash", "drop"}
  BY DEF Firewall!Operator
<1> QED BY <1>1 DEF Firewall!Replacement

LEMMA TelemetryWalks ==
  ASSUME TelemetryInv, Firewall!Walk
  PROVE  TelemetryInv'
<1> DEFINE r == at.resource
           j == at.value
           v == payload[r].values[j]
<1>1. /\ state = "walking" /\ j <= Len(payload[r].values) /\ Firewall!Field(v)
      /\ at' = [at EXCEPT !.value = @ + 1]
      /\ UNCHANGED <<carried, config, flow, tenant, state>>
  BY DEF Firewall!Walk, Firewall!Resource
<1>2. /\ payload \in Batches /\ carried \in {"json", "pdata"} /\ at \in [resource : Nat \ {0}, value : Nat \ {0}]
      /\ r \in Nat \ {0} /\ j \in Nat \ {0} /\ r <= Len(payload)
      /\ tenant = Firewall!Tenant(payload[r]) /\ tenant \in Firewall!Tenants
  BY <1>1 DEF TelemetryInv, TelemetryTypes, TelemetryState
<1>3. Len(payload) \in Nat /\ Len(payload[r].values) \in Nat /\ r \in 1 .. Len(payload)
  <2>1. Len(payload) \in Nat
    BY <1>2, BatchShape
  <2>2. r \in 1 .. Len(payload)
    BY <1>2, <2>1
  <2> QED BY <1>2, <2>1, <2>2, BatchShape
<1>4. j \in 1 .. Len(payload[r].values)
  BY <1>1, <1>2, <1>3
<1>5. v.at \in Seq(STRING) /\ Fielded(carried, v)
  BY <1>2, <1>3, <1>4, BatchShape DEF TelemetryInv, TelemetryTypes
<1>6. /\ at' \in [resource : Nat \ {0}, value : Nat \ {0}]
      /\ at'.resource = r /\ at'.value = j + 1
  BY <1>1, <1>2
<1>7. \A i, k : k \in Nat /\ i \in Nat => (Behind(i, k)' <=> Behind(i, k) \/ (i = r /\ k = j))
  BY <1>2, <1>6 DEF Behind
<1>8. ~Behind(r, j)
  BY <1>2 DEF Behind
<1>9. \A i, k : Behind(i, k) => ~(i = r /\ k = j)
  BY <1>2 DEF Behind
<1>10. TelemetryFlow'
  BY <1>1 DEF TelemetryInv, TelemetryFlow
<1>11. \A w, x : Clean(w, x)' <=> Clean(w, x)
  BY <1>1 DEF Clean, Firewall!Tenant, Firewall!NoExemplars
<1>12. CASE UNCHANGED <<payload, truncated>> /\ walkErr' = TRUE
  <2>1. TelemetryTypes'
    BY <1>1, <1>6, <1>12 DEF TelemetryInv, TelemetryTypes
  <2>2. Wash'
    BY <1>12 DEF Wash
  <2>3. TelemetryState'
    <3>1. Firewall!Tenant(payload[r])' = Firewall!Tenant(payload[r])
      BY <1>1, <1>12, <1>6 DEF Firewall!Tenant
    <3> QED BY <1>1, <1>2, <1>6, <1>12, <3>1 DEF TelemetryState
  <2> QED BY <1>10, <2>1, <2>2, <2>3 DEF TelemetryInv
<1>13. CASE /\ UNCHANGED <<payload, walkErr, truncated>>
            /\ walkErr \/ (~walkErr /\ (v.isText => ~Firewall!Walked(v) \/ Firewall!Skipped(v) \/ v.text = <<>>))
  <2>1. TelemetryTypes'
    BY <1>1, <1>6, <1>13 DEF TelemetryInv, TelemetryTypes
  <2>2. Wash'
    <3> SUFFICES ASSUME ~walkErr, NEW i \in 1 .. Len(payload), NEW k \in 1 .. Len(payload[i].values)
                 PROVE  IF Behind(i, k)' THEN Clean(payload[i], payload[i].values[k])
                        ELSE RawText(payload[i].values[k].text)
      BY <1>11, <1>13 DEF Wash
    <3>1. i \in Nat /\ k \in Nat
      BY <1>2, BatchIndex
    <3>2. IF Behind(i, k) THEN Clean(payload[i], payload[i].values[k])
          ELSE RawText(payload[i].values[k].text)
      BY DEF TelemetryInv, Wash
    <3>3. CASE i = r /\ k = j
      <4>1. RawText(v.text)
        BY <1>8, <3>2, <3>3
      <4>2. Clean(payload[r], v)
        BY <1>2, <1>5, <1>13, <4>1, UntouchedClean
      <4> QED BY <1>7, <3>1, <3>3, <4>2
    <3>4. CASE ~(i = r /\ k = j)
      BY <1>7, <3>1, <3>2, <3>4
    <3> QED BY <3>3, <3>4
  <2>3. TelemetryState'
    <3>1. Firewall!Tenant(payload[r])' = Firewall!Tenant(payload[r])
      BY <1>1, <1>13, <1>6 DEF Firewall!Tenant
    <3> QED BY <1>1, <1>2, <1>6, <1>13, <3>1 DEF TelemetryState
  <2> QED BY <1>10, <2>1, <2>2, <2>3 DEF TelemetryInv
<1> DEFINE t == Firewall!TruncateAtRune(v.text)
           w == Firewall!Redacted(t)
<1>14. CASE walkErr' = walkErr /\ ~walkErr /\ payload' = [payload EXCEPT ![r].values[j].text = w]
  <2>1. RawText(v.text)
    BY <1>3, <1>4, <1>8, <1>14 DEF TelemetryInv, Wash
  <2>2. RawText(t)
    BY <2>1, TruncatedRaw
  <2>3. Firewall!Replacement \in {"gone", tenant}
    BY <1>1, StandsFor DEF TelemetryInv, TelemetryFlow
  <2>4. w \in Seq(TextAtoms \cup Stands)
    <3>1. Firewall!Replacement \in Stands
      BY <1>2, <2>3 DEF Stands, Firewall!Tenants
    <3>2. Washed(w, Firewall!Replacement)
      BY <2>2, <3>1, RawWashed
    <3> HIDE DEF w
    <3> QED BY <3>2 DEF Washed
  <2> HIDE DEF t, w
  <2>5. PICK q \in Batches :
          /\ q = payload' /\ Len(q) = Len(payload)
          /\ \A i \in 1 .. Len(payload) :
              /\ q[i].tenant = payload[i].tenant /\ Len(q[i].values) = Len(payload[i].values)
              /\ \A k \in 1 .. Len(payload[i].values) :
                   q[i].values[k] = IF i = r /\ k = j THEN [payload[i].values[k] EXCEPT !.text = w]
                                    ELSE payload[i].values[k]
    <3>1. payload' = [payload EXCEPT ![r].values[j].text = w]
      BY <1>14
    <3>2. payload \in Batches /\ r \in 1 .. Len(payload) /\ j \in 1 .. Len(payload[r].values)
      BY <1>2, <1>3, <1>4
    <3> HIDE DEF r, j
    <3>3. Puts(payload, r, j, w, payload')
      BY <3>1 DEF Puts
    <3>4. payload' \in Batches /\ PutAt(payload, r, j, w, payload')
      BY ONLY <2>4, <3>2, <3>3, PutText
    <3> QED BY <3>4 DEF PutAt
  <2> DEFINE x == [v EXCEPT !.text = w]
  <2>6. x.text = w /\ x.at = v.at /\ x.keys = v.keys /\ x.isText = v.isText
    <3>1. v \in ValuesOf(TextAtoms \cup Stands)
      BY <1>2, <1>3, <1>4, BatchValue
    <3> HIDE DEF v
    <3> QED BY <3>1 DEF ValuesOf
  <2>7. q[r].values[j] = x
    BY <1>3, <1>4, <2>5
  <2> HIDE DEF x
  <2>8. Fielded(carried, x)
    BY <1>5, <2>6 DEF Fielded
  <2>9. TelemetryTypes'
    <3>1. \A i \in 1 .. Len(payload) : \A k \in 1 .. Len(payload[i].values) : Fielded(carried, q[i].values[k])
      BY <2>5, <2>7, <2>8 DEF TelemetryInv, TelemetryTypes
    <3>2. \A i \in 1 .. Len(q) : \A k \in 1 .. Len(q[i].values) : Fielded(carried, q[i].values[k])
      BY <2>5, <3>1
    <3> QED BY <1>1, <1>6, <1>14, <2>5, <3>2 DEF TelemetryInv, TelemetryTypes
  <2>10. Wash'
    <3> SUFFICES ASSUME NEW i \in 1 .. Len(payload), NEW k \in 1 .. Len(payload[i].values)
                 PROVE  IF Behind(i, k)' THEN Clean(q[i], q[i].values[k])
                        ELSE RawText(q[i].values[k].text)
      BY <1>11, <2>5 DEF Wash
    <3>1. i \in Nat /\ k \in Nat
      BY <1>2, BatchIndex
    <3>2. \A y : Clean(q[i], y) <=> Clean(payload[i], y)
      BY <2>5, Zenon DEF Clean, Firewall!Tenant
    <3>3. CASE i = r /\ k = j
      <4>1. Clean(q[r], x)
        <5>1. Firewall!Tenant(q[r]) = tenant
          BY <1>2, <1>3, <2>5, Zenon DEF Firewall!Tenant
        <5> QED BY <1>2, <2>2, <2>3, <2>6, <5>1, RedactedClean DEF w
      <4> QED BY <1>7, <2>7, <3>1, <3>3, <4>1
    <3>4. CASE ~(i = r /\ k = j)
      <4>1. q[i].values[k] = payload[i].values[k]
        BY <2>5, <3>4
      <4>2. IF Behind(i, k) THEN Clean(payload[i], payload[i].values[k])
            ELSE RawText(payload[i].values[k].text)
        BY <1>14 DEF TelemetryInv, Wash
      <4> QED BY <1>7, <3>1, <3>2, <3>4, <4>1, <4>2
    <3> QED BY <3>3, <3>4
  <2>11. TelemetryState'
    <3>1. Firewall!Tenant(q[r]) = tenant
      BY <1>2, <1>3, <2>5, Zenon DEF Firewall!Tenant
    <3>2. \A y : Firewall!Tenant(y)' = Firewall!Tenant(y)
      BY <1>1 DEF Firewall!Tenant
    <3>3. at'.resource = r /\ payload' = q /\ Len(q) = Len(payload)
      BY <1>6, <2>5
    <3>4. Firewall!Tenant(payload[at.resource])' = tenant
      BY <3>1, <3>2, <3>3
    <3> QED BY <1>1, <1>2, <3>3, <3>4 DEF TelemetryState
  <2> QED BY <1>10, <2>9, <2>10, <2>11 DEF TelemetryInv
<1> HIDE DEF v
<1> QED BY <1>1, <1>12, <1>13, <1>14 DEF Firewall!Field, Firewall!Walked, TelemetryInv, TelemetryTypes

LEMMA TelemetryEndsResource ==
  ASSUME TelemetryInv, Firewall!EndOfResource
  PROVE  TelemetryInv'
<1>1. /\ state = "walking" /\ at.value > Len(payload[at.resource].values)
      /\ at' = [resource |-> at.resource + 1, value |-> 1]
      /\ state' = IF walkErr THEN Firewall!Failed ELSE "resolving"
      /\ UNCHANGED <<carried, payload, config, flow, tenant, walkErr, truncated>>
  BY DEF Firewall!EndOfResource, Firewall!Resource
<1>2. /\ payload \in Batches /\ at.resource \in Nat \ {0} /\ at.value \in Nat \ {0}
      /\ walkErr \in BOOLEAN
  BY DEF TelemetryInv, TelemetryTypes
<1>3. at' \in [resource : Nat \ {0}, value : Nat \ {0}] /\ at'.resource = at.resource + 1 /\ at'.value = 1
  BY <1>1, <1>2
<1>4. Firewall!Failed \in {"sent", "dropped"} /\ (Firewall!Failed = "sent" => config.failureMode = "forward")
  BY DEF Firewall!Failed
<1>5. TelemetryTypes'
  BY <1>1, <1>3, <1>4 DEF TelemetryInv, TelemetryTypes
<1>6. TelemetryFlow'
  BY <1>1, <1>4 DEF TelemetryInv, TelemetryFlow
<1>7. Wash'
  <2> SUFFICES ASSUME ~walkErr, NEW i \in 1 .. Len(payload), NEW k \in 1 .. Len(payload[i].values)
               PROVE  IF Behind(i, k)' THEN Clean(payload[i], payload[i].values[k])
                      ELSE RawText(payload[i].values[k].text)
    <3>1. \A r, v : Clean(r, v)' <=> Clean(r, v)
      BY <1>1, Zenon DEF Clean, Firewall!Tenant, Firewall!NoExemplars
    <3> QED BY <1>1, <3>1 DEF Wash
  <2>1. i \in Nat \ {0} /\ k \in Nat \ {0} /\ Len(payload[i].values) \in Nat /\ k <= Len(payload[i].values)
    <3>1. Len(payload[i].values) \in Nat /\ i \in Nat \ {0} /\ k \in Nat \ {0}
      BY <1>2, BatchShape, BatchIndex
    <3> QED BY <3>1
  <2>2. Behind(i, k)' <=> Behind(i, k)
    <3>1. i = at.resource => k < at.value
      BY <1>1, <1>2, <2>1
    <3>2. Behind(i, k)' <=> i < at.resource + 1
      BY <1>3, <2>1 DEF Behind
    <3> QED BY <1>2, <2>1, <3>1, <3>2 DEF Behind
  <2> QED BY <2>2 DEF TelemetryInv, Wash
<1>8. TelemetryState'
  <2>1. Firewall!GivenUp' <=> Firewall!GivenUp
    BY <1>1 DEF Firewall!GivenUp, Firewall!Tenant
  <2>2. CASE walkErr
    <3>1. state' = "sent" => Firewall!GivenUp
      BY <1>1, <1>4, <2>2 DEF Firewall!GivenUp
    <3> QED BY <1>1, <1>4, <2>1, <2>2, <3>1 DEF TelemetryState
  <2>3. CASE ~walkErr
    BY <1>1, <1>3, <2>3 DEF TelemetryState
  <2> QED BY <2>2, <2>3
<1> QED BY <1>5, <1>6, <1>7, <1>8 DEF TelemetryInv

\* RedactOTLPJSON, the processor: nobody's number leaves whole, and what stands for it is
\* of the tenant of its own resource, unless the batch was to be forwarded as it is.
THEOREM TelemetryNothingWhole == Firewall!Spec => []Firewall!NothingWhole
<1>1. TelemetryInv /\ [Firewall!Next]_(Firewall!vars) => TelemetryInv'
  <2> SUFFICES ASSUME TelemetryInv, [Firewall!Next]_(Firewall!vars) PROVE TelemetryInv'
    OBVIOUS
  <2>1. CASE UNCHANGED Firewall!vars
    <3>1. UNCHANGED <<carried, payload, config, flow, at, tenant, walkErr, truncated, state>>
      BY <2>1 DEF Firewall!vars
    <3>2. \A r, v : Clean(r, v)' <=> Clean(r, v)
      BY <3>1 DEF Clean, Firewall!Tenant, Firewall!NoExemplars
    <3>3. \A i, k : Behind(i, k)' <=> Behind(i, k)
      BY <3>1 DEF Behind
    <3>4. Wash'
      BY <3>1, <3>2, <3>3 DEF TelemetryInv, Wash
    <3>5. TelemetryTypes' /\ TelemetryFlow'
      BY <3>1 DEF TelemetryInv, TelemetryTypes, TelemetryFlow
    <3>6. TelemetryState'
      BY <3>1, Zenon DEF TelemetryInv, TelemetryState, Firewall!GivenUp, Firewall!Tenant
    <3> QED BY <3>4, <3>5, <3>6 DEF TelemetryInv
  <2> QED BY <2>1, TelemetryBuilt, TelemetryResolves, TelemetryWalks, TelemetryEndsResource DEF Firewall!Next
<1>2. TelemetryInv => Firewall!NothingWhole
  <2> SUFFICES ASSUME TelemetryInv, state = "sent", ~Firewall!GivenUp,
                      NEW r \in Firewall!ToSet(payload), NEW v \in Firewall!ToSet(r.values)
               PROVE  Clean(r, v)
    BY DEF Firewall!NothingWhole, Clean
  <2>1. ~walkErr /\ at.resource > Len(payload) /\ payload \in Batches /\ at.resource \in Nat \ {0} /\ Wash
    BY DEF TelemetryInv, TelemetryState, TelemetryTypes
  <2>2. PICK i \in 1 .. Len(payload) : r = payload[i]
    BY <2>1, BatchShape DEF Firewall!ToSet
  <2>3. PICK k \in 1 .. Len(payload[i].values) : v = payload[i].values[k]
    BY <2>1, <2>2, BatchShape DEF Firewall!ToSet
  <2>4. Behind(i, k)
    <3>1. Len(payload) \in Nat
      BY <2>1, BatchShape
    <3> QED BY <2>1, <3>1 DEF Behind
  <2> QED BY <2>1, <2>2, <2>3, <2>4 DEF Wash
<1> QED BY TelemetryStarts, <1>1, <1>2, PTL DEF Firewall!Spec

-----------------------------------------------------------------------------
(***************************************************************************)
(* What there is to find, along the whole path: a behaviour of the path is *)
(* one of the part that it is of.                                          *)
(***************************************************************************)
LEMMA PathStays ==
  ASSUME [PathNext]_<<part, vars, documentVars, scannerVars, streamVars, detectionVars, nerVars,
                      chunkVars, rosterVars, matrixVars, numberVars, auditVars, telemetryVars>>
  PROVE  part' = part
BY DEF PathNext

LEMMA DetectSteps ==
  ASSUME part = "detection",
         [PathNext]_<<part, vars, documentVars, scannerVars, streamVars, detectionVars, nerVars,
                      chunkVars, rosterVars, matrixVars, numberVars, auditVars, telemetryVars>>
  PROVE  [Detect!Next]_(Detect!vars)
<1>1. CASE PathNext
  BY <1>1 DEF PathNext
<1>2. CASE UNCHANGED detectionVars
  BY <1>2 DEF detectionVars, Detect!vars
<1> QED BY <1>1, <1>2

LEMMA ChunksSteps ==
  ASSUME part = "chunks",
         [PathNext]_<<part, vars, documentVars, scannerVars, streamVars, detectionVars, nerVars,
                      chunkVars, rosterVars, matrixVars, numberVars, auditVars, telemetryVars>>
  PROVE  [Chunks!Next]_(Chunks!vars)
<1>1. CASE PathNext
  BY <1>1 DEF PathNext
<1>2. CASE UNCHANGED chunkVars
  BY <1>2 DEF chunkVars, Chunks!vars
<1> QED BY <1>1, <1>2

LEMMA RosterSteps ==
  ASSUME part = "roster",
         [PathNext]_<<part, vars, documentVars, scannerVars, streamVars, detectionVars, nerVars,
                      chunkVars, rosterVars, matrixVars, numberVars, auditVars, telemetryVars>>
  PROVE  [Roster!Next]_(Roster!vars)
<1>1. CASE PathNext
  BY <1>1 DEF PathNext
<1>2. CASE UNCHANGED rosterVars
  BY <1>2 DEF rosterVars, Roster!vars
<1> QED BY <1>1, <1>2

LEMMA PolicySteps ==
  ASSUME part = "matrix",
         [PathNext]_<<part, vars, documentVars, scannerVars, streamVars, detectionVars, nerVars,
                      chunkVars, rosterVars, matrixVars, numberVars, auditVars, telemetryVars>>
  PROVE  [Policy!Next]_(Policy!vars)
<1>1. CASE PathNext
  BY <1>1 DEF PathNext
<1>2. CASE UNCHANGED matrixVars
  BY <1>2 DEF matrixVars, Policy!vars
<1> QED BY <1>1, <1>2

LEMMA FirewallSteps ==
  ASSUME part = "telemetry",
         [PathNext]_<<part, vars, documentVars, scannerVars, streamVars, detectionVars, nerVars,
                      chunkVars, rosterVars, matrixVars, numberVars, auditVars, telemetryVars>>
  PROVE  [Firewall!Next]_(Firewall!vars)
<1>1. CASE PathNext
  BY <1>1 DEF PathNext
<1>2. CASE UNCHANGED telemetryVars
  BY <1>2 DEF telemetryVars, Firewall!vars
<1> QED BY <1>1, <1>2

LEMMA DetectPart == PathSpec /\ part = "detection" => []NothingVanishes
<1> DEFINE Of == part = "detection"
<1>1. PathInit /\ Of => Detect!Init
  BY Zenon DEF PathInit
<1>2. Of /\ [PathNext]_<<part, vars, documentVars, scannerVars, streamVars, detectionVars, nerVars,
                      chunkVars, rosterVars, matrixVars, numberVars, auditVars, telemetryVars>>
        => [Detect!Next]_(Detect!vars) /\ Of'
  BY DetectSteps, PathStays
<1>3. Detect!Spec => []Detect!NothingVanishes
  BY DetectNothingVanishes, ScanAssumption
<1>4. Of /\ Detect!NothingVanishes => NothingVanishes
  BY DEF NothingVanishes
<1> HIDE DEF Of
<1>5. PathSpec /\ Of => []NothingVanishes
  BY <1>1, <1>2, <1>3, <1>4, PTL DEF PathSpec, Detect!Spec
<1> QED BY <1>5 DEF Of

LEMMA ChunksPart == PathSpec /\ part = "chunks" => []NothingVanishes
<1> DEFINE Of == part = "chunks"
<1>1. PathInit /\ Of => Chunks!Init
  BY Zenon DEF PathInit
<1>2. Of /\ [PathNext]_<<part, vars, documentVars, scannerVars, streamVars, detectionVars, nerVars,
                      chunkVars, rosterVars, matrixVars, numberVars, auditVars, telemetryVars>>
        => [Chunks!Next]_(Chunks!vars) /\ Of'
  BY ChunksSteps, PathStays
<1>3. Chunks!Spec => []Chunks!ChunkedFindsAll
  BY ChunksFindAll, ScanAssumption DEF Fit
<1>4. Of /\ Chunks!ChunkedFindsAll => NothingVanishes
  BY DEF NothingVanishes
<1> HIDE DEF Of
<1>5. PathSpec /\ Of => []NothingVanishes
  BY <1>1, <1>2, <1>3, <1>4, PTL DEF PathSpec, Chunks!Spec
<1> QED BY <1>5 DEF Of

LEMMA RosterPart == PathSpec /\ part = "roster" => []NothingVanishes
<1> DEFINE Of == part = "roster"
<1>1. PathInit /\ Of => Roster!Init
  BY Zenon DEF PathInit
<1>2. Of /\ [PathNext]_<<part, vars, documentVars, scannerVars, streamVars, detectionVars, nerVars,
                      chunkVars, rosterVars, matrixVars, numberVars, auditVars, telemetryVars>>
        => [Roster!Next]_(Roster!vars) /\ Of'
  BY RosterSteps, PathStays
<1>3. Roster!Spec => []Roster!FindsEveryTerm
  BY RosterFindsEveryTerm, ScanAssumption
<1>4. Of /\ Roster!FindsEveryTerm => NothingVanishes
  BY DEF NothingVanishes
<1> HIDE DEF Of
<1>5. PathSpec /\ Of => []NothingVanishes
  BY <1>1, <1>2, <1>3, <1>4, PTL DEF PathSpec, Roster!Spec
<1> QED BY <1>5 DEF Of

LEMMA PolicyPart == PathSpec /\ part = "matrix" => []NothingVanishes
<1> DEFINE Of == part = "matrix"
<1>1. PathInit /\ Of => Policy!Init
  BY Zenon DEF PathInit
<1>2. Of /\ [PathNext]_<<part, vars, documentVars, scannerVars, streamVars, detectionVars, nerVars,
                      chunkVars, rosterVars, matrixVars, numberVars, auditVars, telemetryVars>>
        => [Policy!Next]_(Policy!vars) /\ Of'
  BY PolicySteps, PathStays
<1>3. Policy!Spec => []Policy!NoneAsIs
  BY MatrixNoneAsIs
<1>4. Of /\ Policy!NoneAsIs => NothingVanishes
  BY DEF NothingVanishes
<1> HIDE DEF Of
<1>5. PathSpec /\ Of => []NothingVanishes
  BY <1>1, <1>2, <1>3, <1>4, PTL DEF PathSpec, Policy!Spec
<1> QED BY <1>5 DEF Of

LEMMA FirewallPart == PathSpec /\ part = "telemetry" => []NothingVanishes
<1> DEFINE Of == part = "telemetry"
<1>1. PathInit /\ Of => Firewall!Init
  BY DEF PathInit
<1>2. Of /\ [PathNext]_<<part, vars, documentVars, scannerVars, streamVars, detectionVars, nerVars,
                      chunkVars, rosterVars, matrixVars, numberVars, auditVars, telemetryVars>>
        => [Firewall!Next]_(Firewall!vars) /\ Of'
  BY FirewallSteps, PathStays
<1>3. Firewall!Spec => []Firewall!NothingWhole
  BY TelemetryNothingWhole
<1>4. Of /\ Firewall!NothingWhole => NothingVanishes
  BY DEF NothingVanishes
<1> HIDE DEF Of
<1>5. PathSpec /\ Of => []NothingVanishes
  BY <1>1, <1>2, <1>3, <1>4, PTL DEF PathSpec, Firewall!Spec
<1> QED BY <1>5 DEF Of

LEMMA OtherParts ==
  PathSpec /\ part \notin {"detection", "chunks", "roster", "matrix", "telemetry", "numbers"}
    => []NothingVanishes
<1> DEFINE Other == part \notin {"detection", "chunks", "roster", "matrix", "telemetry", "numbers"}
<1>1. Other /\ [PathNext]_<<part, vars, documentVars, scannerVars, streamVars, detectionVars, nerVars,
                      chunkVars, rosterVars, matrixVars, numberVars, auditVars, telemetryVars>>
        => Other'
  BY PathStays
<1>2. Other => NothingVanishes
  BY DEF NothingVanishes
<1> HIDE DEF Other
<1>3. PathSpec /\ Other => []NothingVanishes
  BY <1>1, <1>2, PTL DEF PathSpec
<1> QED BY <1>3 DEF Other

\* What there is to find is found, in one text, in chunks and by a roster; it is replaced
\* in the text that leaves, by what its flow's strategy makes of it; and nobody's number
\* leaves whole in the telemetry (Redactor.RedactTo, Matrix.RedactTo, ChunkedScanner,
\* FindAll, RedactOTLPJSON).  What a check digit admits is left to the run.
THEOREM RunNothingVanishes == PathSpec => [](part # "numbers" => NothingVanishes)
<1> DEFINE Of == part = "numbers"
<1>1. Of /\ [PathNext]_<<part, vars, documentVars, scannerVars, streamVars, detectionVars, nerVars,
                      chunkVars, rosterVars, matrixVars, numberVars, auditVars, telemetryVars>>
        => Of'
  BY PathStays
<1>2. \/ part = "detection" \/ part = "chunks" \/ part = "roster" \/ part = "matrix"
      \/ part = "telemetry" \/ Of
      \/ part \notin {"detection", "chunks", "roster", "matrix", "telemetry", "numbers"}
  OBVIOUS
<1>3. Of => (part # "numbers" => NothingVanishes)
  OBVIOUS
<1>4. NothingVanishes => (part # "numbers" => NothingVanishes)
  OBVIOUS
<1> HIDE DEF Of
<1>5. PathSpec /\ Of => [](part # "numbers" => NothingVanishes)
  BY <1>1, <1>3, PTL DEF PathSpec
<1> QED BY <1>2, <1>4, <1>5, DetectPart, ChunksPart, RosterPart, PolicyPart, FirewallPart, OtherParts, PTL

(***************************************************************************)
(* What SessionVaultProofs shows of one part, in every behaviour of the    *)
(* path.                                                                   *)
(***************************************************************************)
\* Every audit event is in the queue, with the worker, delivered, or counted as dropped
\* (HTTPSink.Emit, run, deliver, Close).
THEOREM RunAuditAccounted == PathSpec => []AuditAccounted
<1>1. PathInit => Siem!Init
  BY DEF PathInit
<1>2. [PathNext]_<<part, vars, documentVars, scannerVars, streamVars, detectionVars, nerVars,
                   chunkVars, rosterVars, matrixVars, numberVars, auditVars, telemetryVars>>
        => [Siem!Next]_(Siem!vars)
  BY DEF PathNext, auditVars, Siem!vars
<1>3. PathSpec => Siem!Spec
  BY <1>1, <1>2, PTL DEF PathSpec, Siem!Spec
<1> QED BY <1>3, SinkAccounted, PTL DEF AuditAccounted

\* The NER service is kept from requests only after so many failures in a row
\* (RemoteNERDetector.Detect, recordFailure, recordSuccess).
THEOREM RunOpenForCause == PathSpec => []OpenForCause
<1>1. PathInit => Ner!Init
  BY DEF PathInit
<1>2. [PathNext]_<<part, vars, documentVars, scannerVars, streamVars, detectionVars, nerVars,
                   chunkVars, rosterVars, matrixVars, numberVars, auditVars, telemetryVars>>
        => [Ner!Next]_(Ner!vars)
  BY DEF PathNext, nerVars, Ner!vars
<1>3. PathSpec => Ner!Spec
  BY <1>1, <1>2, PTL DEF PathSpec, Ner!Spec
<1> QED BY <1>3, NerOpenForCause, PTL DEF OpenForCause

\* The data lines of an event stay together (Scanner.Next, finishEvent).
THEOREM RunEventsWhole == PathSpec => []EventsWhole
<1>1. PathInit => Scanner!Init
  BY DEF PathInit
<1>2. [PathNext]_<<part, vars, documentVars, scannerVars, streamVars, detectionVars, nerVars,
                   chunkVars, rosterVars, matrixVars, numberVars, auditVars, telemetryVars>>
        => [Scanner!Next]_(Scanner!vars)
  BY DEF PathNext, scannerVars, Scanner!vars
<1>3. PathSpec => Scanner!Spec
  BY <1>1, <1>2, PTL DEF PathSpec, Scanner!Spec
<1> QED BY <1>3, ScannerEventsWhole, PTL DEF EventsWhole

\* The stream's part of a behaviour of the path is one of its own.
LEMMA PathStream == PathSpec => Stream!Spec
<1>1. PathInit => Stream!Init
  BY DEF PathInit
<1>2. [PathNext]_<<part, vars, documentVars, scannerVars, streamVars, detectionVars, nerVars,
                   chunkVars, rosterVars, matrixVars, numberVars, auditVars, telemetryVars>>
        => [Stream!Next]_(Stream!vars)
  BY DEF PathNext, streamVars, Stream!vars, Stream!texts, Stream!tools
<1> QED BY <1>1, <1>2, PTL DEF PathSpec, Stream!Spec

\* A call's fragments reach the client before the frame that ends the call
\* (absorbToolCalls, flushToolCalls, renderReleased).
THEOREM RunCallsComplete == PathSpec => []CallsComplete
  BY PathStream, StreamCallsComplete, PTL DEF CallsComplete

\* What has been streamed and what is still held back, put together, are what the text
\* so far restores to (StreamRestorer.Feed, Flush).
THEOREM RunRestoredSoFar == PathSpec => []RestoredSoFar
  BY PathStream, StreamRestoredSoFar, PTL DEF RestoredSoFar

=============================================================================
