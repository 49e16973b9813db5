--------------------------- MODULE MCSessionVault ---------------------------
(* What becomes of one request, part by part; each behaviour is of one part *)
(* of the path.                                                             *)
(*   vault: two types that share their values ("a person and a company with *)
(*     the same name"), two values, three goroutines: every interleaving of *)
(*     two first sights of one entity, of two of a type, and of a Purge.    *)
(*   document: up to two leaves of the bodies in the project's own corpus   *)
(*     (payload_corpus_test.go) and of what those bodies hold beside them.  *)
(*   scanner: every answer of up to five lines.                             *)
(*   stream: two paths of text cut at every place, and tool calls of both   *)
(*     forms.                                                               *)
(*   detection: every text with so many places and things to find, in each  *)
(*     of the assemblies; ner: two requests, a cache of one answer.         *)
(*   chunks: every text, of the longest those that begin with a space;      *)
(*   roster: every set of terms, every text.                                *)
(*   matrix: every configuration of one or two flows, every kind of value. *)
(*   numbers: numbers of each kind that has check digits, with every slip.  *)
(*   audit: five events, a queue and a batch of two.                        *)
(*   telemetry: two resources, a value at every place the walkers name.     *)
EXTENDS SessionParts

CONSTANTS TextLength, MaxFound,           \* of Detection
          PassageLength, ChunkSize, Margin, ContextWindow,
          Bytes, MaxTerm, MaxTerms, MaxText,
          Payloads, MaxValueBytes         \* of Telemetry

\* NewChunkedScanner refuses a margin of a chunk or more, and asks for one wider than
\* the longest match.
ASSUME ScanAssumption ==
  /\ TextLength \in Nat /\ IsFiniteSet(Bytes)
  /\ {PassageLength, ChunkSize, Margin, ContextWindow} \subseteq Nat
  /\ 3 <= Margin /\ Margin < ChunkSize /\ ContextWindow <= Margin

VARIABLES part,
  way, doc, rule, times, result,
  assembly, settled, guesses, step, found, judged, replaced, lost,
  passage, results, merged,
  terms, trie, fail, suffixLink, level, phase, read, cur, out,
  matrix, flows, ontology, shown,
  validator, number, slip, verdict,
  carried, payload, config, flow, at, tenant, walkErr, truncated, state

documentVars == <<way, doc, rule, times, result>>
detectionVars == <<assembly, settled, guesses, step, found, judged, replaced, lost>>
chunkVars     == <<passage, results, merged>>
rosterVars    == <<terms, trie, fail, suffixLink, level, phase, read, cur, out>>
matrixVars    == <<matrix, flows, ontology, shown>>
numberVars    == <<validator, number, slip, verdict>>
telemetryVars == <<carried, payload, config, flow, at, tenant, walkErr, truncated, state>>

-----------------------------------------------------------------------------
Leaf(path, kind, prose) == [path |-> path, kind |-> kind, prose |-> prose]
Prose(path) == Leaf(path, "string", TRUE)
Token(path) == Leaf(path, "string", FALSE)
Message == <<"messages", "0">>
Block   == Message \o <<"content", "0">>
Fn      == <<"tools", "0", "function">>
Schema  == Fn \o <<"parameters", "properties", "a">>
Choice  == <<"choices", "0">>

RequestLeaves == {
  Prose(Message \o <<"content">>), Prose(Block \o <<"text">>), Prose(Block \o <<"content">>),
  Prose(Block \o <<"content", "1", "text">>), Prose(Block \o <<"input", "k">>),
  Leaf(Message \o <<"tool_calls", "0", "function", "arguments">>, "json", TRUE),
  Leaf(Message \o <<"tool_calls", "0", "function", "arguments">>, "string", TRUE),
  Leaf(Message \o <<"function_call", "arguments">>, "json", TRUE),
  Leaf(<<"messages", "1", "content">>, "json", TRUE),
  Prose(Fn \o <<"description">>), Prose(<<"tools", "1", "description">>),
  Prose(Schema \o <<"description">>), Prose(Schema \o <<"items", "b", "description">>),
  Prose(Fn \o <<"parameters", "properties", "description", "description">>),
  Prose(<<"prompt">>), Prose(<<"input">>), Prose(<<"input", "0">>),
  Leaf(<<"input", "0">>, "number", FALSE), Prose(<<"input", "0", "content", "0", "text">>),
  Prose(<<"system">>), Prose(<<"system", "1", "text">>),
  Token(Message \o <<"role">>), Token(Message \o <<"tool_call_id">>), Token(<<"model">>),
  Token(Message \o <<"tool_calls", "0", "function", "name">>), Token(Block \o <<"type">>),
  Token(Block \o <<"tool_use_id">>), Token(Schema \o <<"type">>), Token(Schema \o <<"enum", "0">>) }

AnswerLeaves == {
  Prose(Choice \o <<"delta", "content">>), Prose(Choice \o <<"delta", "reasoning_content">>),
  Prose(Choice \o <<"message", "content">>), Prose(<<"delta", "text">>),
  Prose(Choice \o <<"message", "reasoning_content">>),
  Leaf(Choice \o <<"message", "tool_calls", "0", "function", "arguments">>, "json", TRUE),
  Leaf(Choice \o <<"message", "function_call", "arguments">>, "json", TRUE),
  Leaf(Choice \o <<"message", "function_call", "arguments">>, "string", TRUE),
  Prose(<<"output", "0", "content", "0", "text">>), Prose(<<"content_block", "text">>),
  Prose(<<"content", "0", "text">>), Prose(<<"content", "0", "input", "k">>),
  Token(<<"content", "0", "name">>), Token(Choice \o <<"finish_reason">>), Token(<<"id">>) }

IsTree(leaves) ==
  \A a, b \in leaves : a # b =>
    \/ Len(a.path) > Len(b.path)
    \/ SubSeq(b.path, 1, Len(a.path)) # a.path
Pairs(leaves) == {d \in {{a, b} : a, b \in leaves} : IsTree(d)}
Corpus == [way : {"request"}, leaves : Pairs(RequestLeaves)]
            \cup [way : {"answer"}, leaves : Pairs(AnswerLeaves)]

\* Telemetry: a value at each place, in each spelling or under each key, behind one of
\* its resource's attributes; and another resource.
User      == <<<<"user">>>>
ErrorKeys == {<<<<"error", "type">>>>, <<<<"error">>, <<"type">>>>, <<<<"user">>, <<"error", "type">>>>}
Number    == <<"p1", "p2">>
Said == {<<>>, <<"x">>, Number, <<"x">> \o Number, Number \o <<"x">>, <<"x", "r1", "r2">>}
Value(place, keys, said) == [at |-> place, keys |-> keys, isText |-> TRUE, text |-> said]
Walker == INSTANCE Telemetry WITH   \* for the places it names
  way <- carried, batch <- payload, Payloads <- {}, SkipKeys <- {}
SpanAttributes == <<"resourceSpans", "scopeSpans", "spans", "attributes">>
SpanName       == <<"resourceSpans", "scopeSpans", "spans", "name">>
OtherSpellings == {<<"resource_logs", "scope_logs", "log_records", "body">>,
  <<"resource_spans", "instrumentationLibrarySpans", "spans", "events", "attributes">>,
  <<"resource_metrics", "scope_metrics", "metrics", "exponential_histogram", "data_points", "attributes">>}
HasKeys(place)  == place[Len(place)] \in {"attributes", "filteredAttributes"}
Labelled(place) == Value(place, IF HasKeys(place) THEN User ELSE <<>>, Number)
SomeValues ==
  {Labelled(place) : place \in Walker!Places("filteredAttributes")}
    \cup {Value(SpanAttributes, keys, said) : keys \in ErrorKeys \cup {User}, said \in Said}
    \cup {Value(SpanName, <<>>, said) : said \in Said}
    \cup {[Labelled(SpanAttributes) EXCEPT !.isText = FALSE]}
Owner(v) == Labelled(<<Head(v.at), "resource", "attributes">>)
Load(v, a, b) == <<[tenant |-> a, values |-> <<Owner(v), v>>], [tenant |-> b, values |-> <<Owner(v)>>]>>
Loads ==
  [way : {"json"}, batch : {Load(v, "", "") : v \in SomeValues \cup {Labelled(p) : p \in OtherSpellings}}]
    \cup [way : {"pdata"},
          batch : {Load(v, a, b) : v \in SomeValues, a \in {"t1", "", "invalid"}, b \in {"t2", ""}}]

Firewall == INSTANCE Telemetry WITH
  way <- carried, batch <- payload, SkipKeys <- {<<"error", "type">>}

\* A batch that nobody has walked: each value in a field of OTLP, a span's or a metric's
\* name under no key; texts of whole runes, with one number of somebody's at the most.
TextAtoms == {"x", "p1", "p2", "r1", "r2"}
OneNumber(t)  == \A i, j \in Firewall!Numbers(t) : i = j
RunesWhole(t) ==
  \A i \in 1 .. Len(t) :
    /\ t[i] = "r1" => i < Len(t) /\ t[i + 1] = "r2"
    /\ t[i] = "r2" => 1 < i /\ t[i - 1] = "r1"
RawText(t) == t \in Seq(TextAtoms) /\ OneNumber(t) /\ RunesWhole(t)
\* What OTLP calls a field, whichever of the two spellings names it.
Canonical(name) == IF name \in DOMAIN Firewall!Spelt THEN Firewall!Spelt[name] ELSE name
InField(format, place) ==
  IF format = "pdata" THEN place \in Firewall!Places("filteredAttributes")
  ELSE [i \in DOMAIN place |-> Canonical(place[i])]
         \in Firewall!Places("attributes") \cup Firewall!Places("filteredAttributes")
Fielded(format, v) ==
  /\ InField(format, v.at)
  /\ Firewall!FlattenSeq(v.keys) \in Seq(STRING)
  /\ Firewall!Last(v.at) = "name" => Firewall!FlattenSeq(v.keys) = <<>>
ValuesOf(atoms) == [at : Seq(STRING), keys : Seq(Seq(STRING)), isText : BOOLEAN, text : Seq(atoms)]
Attributes == {"t1", "t2", "", "invalid"}
BatchOf(atoms)  == Seq([tenant : Attributes, values : Seq(ValuesOf(atoms))])
ASSUME TelemetryAssumption ==
  /\ MaxValueBytes \in Nat \ {0}
  /\ \A p \in Payloads :
       /\ p.way \in {"json", "pdata"} /\ p.batch \in BatchOf(TextAtoms)
       /\ \A r \in DOMAIN p.batch : \A i \in DOMAIN p.batch[r].values :
            RawText(p.batch[r].values[i].text) /\ Fielded(p.way, p.batch[r].values[i])

\* What is issued, but for the characters that check it.
Issue(name, v) == [kind |-> name, of |-> v]
Bodies ==
  {Issue("luhn", <<d, e, 5>>) : d \in 0 .. 9, e \in {0, 9, 4}}
    \cup {Issue("bank_card", <<4, 0, 0, 8, 2, 1, 7, 3, 5, 0, 0>>),
          Issue("card_network", <<4, 1, 1, 1, 1, 1, 1, 1, 1, 1, 1, 1, 1, 1, 1>>),
          Issue("card_network", <<6, 2, 2, 1, 2, 6, 0, 0, 0, 0, 0, 0, 0, 0, 0, 0>>),
          Issue("cn_id_card", <<1, 1, 0, 1, 0, 1, 1, 9, 9, 0, 0, 3, 0, 7, 8, 5, 1>>),
          Issue("cn_id_card", <<4, 4, 0, 3, 0, 6, 2, 0, 0, 0, 1, 2, 3, 1, 9, 2, 7>>),
          Issue("cn_uscc", <<9, 1, 1, 1, 0, 1, 0, 8, 22, 10, 0, 1, 10, 11, 12, 13, 7>>),
          Issue("iban", <<16, 11, 32, 14, 28, 29, 1, 2, 3, 4, 5, 6, 9, 8, 7, 6, 5, 4, 3, 2>>),
          Issue("iban", <<13, 14, 3, 7, 0, 4, 0, 0, 4, 4, 0, 5, 3, 2, 0, 1, 3, 0, 0, 0>>),
          Issue("iban", <<23, 24, 8, 6, 0, 1, 1, 1, 1, 7, 9, 4, 7>>),
          Issue("it_codice_fiscale", <<27, 28, 28, 22, 27, 10, 8, 5, 29, 1, 0, 10, 5, 6, 2>>),
          Issue("de_steuer_id", <<8, 6, 0, 9, 5, 7, 4, 2, 7, 1>>),
          Issue("de_steuer_id", <<1, 2, 3, 4, 5, 6, 7, 8, 9, 1>>),
          Issue("es_dni", <<1, 2, 3, 4, 5, 6, 7, 8>>), Issue("es_dni", <<33, 1, 2, 3, 4, 5, 6, 7>>)}

Ph  == <<"ph1", "ph2", "ph3">>
Tok == <<"tok1", "tok2", "tok3">>
TwoPaths == {"content", "reasoning"}
Incomplete == <<"ph1", "ph2", "x", "x">>
TwoStreams ==   \* texts of the content; the reasoning is short
  {[p \in TwoPaths |-> IF p = "content" THEN t ELSE Ph] :
     t \in {Ph \o <<"x">> \o Ph, Tok \o Ph, <<"(">> \o Ph \o <<")">>,
            <<"[", "tick">> \o Ph \o <<"blank", "tick">>, Incomplete \o Ph}}

Document == INSTANCE Documents WITH Documents <- Corpus
Detect   == INSTANCE Detection WITH Length <- TextLength
Chunks   == INSTANCE ChunkedScan WITH text <- passage, Length <- PassageLength
Roster   == INSTANCE AhoCorasick WITH queue <- level, stage <- phase, text <- read
Numbers  == INSTANCE CheckDigits WITH kind <- validator
Policy   == INSTANCE Matrix WITH stage <- matrix, sent <- shown

-----------------------------------------------------------------------------
\* The parts that a behaviour is not of stay as they began, in one state.
Parts == {"vault", "document", "scanner", "stream", "detection", "ner", "chunks", "roster",
          "matrix", "numbers", "audit", "telemetry"}
PathInit ==
  /\ part \in Parts
  /\ Init /\ Scanner!Init /\ Siem!Init /\ Ner!Init
  /\ part # "ner" => ~failOpen /\ about = [r \in Asking |-> CHOOSE t \in Asked : TRUE]
  /\ IF part = "document" THEN Document!Init
     ELSE way = "request" /\ doc = {} /\ rule = 1 /\ times = <<>> /\ result = "open"
  /\ Stream!Init /\ text \in Streams
  /\ part # "stream" => text = CHOOSE s \in Streams : TRUE
  /\ IF part = "detection" THEN Detect!Init
     ELSE assembly = "core" /\ settled = {} /\ guesses = {} /\ step = "fast" /\ found = {}
          /\ judged = {} /\ replaced = {} /\ lost = {}
  /\ IF part = "chunks"
     THEN Chunks!Init /\ (PassageLength - 1 \in DOMAIN passage => passage[0] = "space")
     ELSE passage = <<>> /\ results = <<>> /\ merged = {}
  /\ IF part = "roster" THEN Roster!Init
     ELSE terms = {} /\ trie = {} /\ fail = <<>> /\ suffixLink = <<>> /\ level = <<>>
          /\ phase = "new" /\ read = <<>> /\ cur = <<>> /\ out = {}
  /\ Policy!Init
  /\ IF part = "numbers" THEN Numbers!Init
     ELSE validator = "luhn" /\ number = <<>> /\ slip = "none" /\ verdict = "open"
  /\ IF part = "telemetry" THEN Firewall!Init
     ELSE carried = "json" /\ payload = <<>> /\ config = <<>> /\ flow = <<>> /\ at = <<>>
          /\ tenant = "" /\ walkErr = FALSE /\ truncated = 0 /\ state = "new"

PathNext ==
  /\ UNCHANGED part
  /\ \/ /\ part = "vault" /\ Next
        /\ UNCHANGED <<documentVars, scannerVars, streamVars, detectionVars, nerVars,
                      chunkVars, rosterVars, matrixVars, numberVars, auditVars, telemetryVars>>
     \/ /\ part = "document" /\ Document!Next
        /\ UNCHANGED <<vars, scannerVars, streamVars, detectionVars, nerVars,
                      chunkVars, rosterVars, matrixVars, numberVars, auditVars, telemetryVars>>
     \/ /\ part = "scanner" /\ Scanner!Next
        /\ UNCHANGED <<vars, documentVars, streamVars, detectionVars, nerVars,
                      chunkVars, rosterVars, matrixVars, numberVars, auditVars, telemetryVars>>
     \/ /\ part = "stream" /\ Stream!Next
        /\ UNCHANGED <<vars, documentVars, scannerVars, detectionVars, nerVars,
                      chunkVars, rosterVars, matrixVars, numberVars, auditVars, telemetryVars>>
     \/ /\ part = "detection" /\ Detect!Next
        /\ UNCHANGED <<vars, documentVars, scannerVars, streamVars, nerVars,
                      chunkVars, rosterVars, matrixVars, numberVars, auditVars, telemetryVars>>
     \/ /\ part = "ner" /\ Ner!Next
        /\ UNCHANGED <<vars, documentVars, scannerVars, streamVars, detectionVars,
                      chunkVars, rosterVars, matrixVars, numberVars, auditVars, telemetryVars>>
     \/ /\ part = "chunks" /\ Chunks!Next
        /\ UNCHANGED <<vars, documentVars, scannerVars, streamVars, detectionVars,
                      nerVars, rosterVars, matrixVars, numberVars, auditVars, telemetryVars>>
     \/ /\ part = "roster" /\ Roster!Next
        /\ UNCHANGED <<vars, documentVars, scannerVars, streamVars, detectionVars,
                      nerVars, chunkVars, matrixVars, numberVars, auditVars, telemetryVars>>
     \/ /\ part = "matrix" /\ Policy!Next
        /\ UNCHANGED <<vars, documentVars, scannerVars, streamVars, detectionVars,
                      nerVars, chunkVars, rosterVars, numberVars, auditVars, telemetryVars>>
     \/ /\ part = "numbers" /\ Numbers!Next
        /\ UNCHANGED <<vars, documentVars, scannerVars, streamVars, detectionVars,
                      nerVars, chunkVars, rosterVars, matrixVars, auditVars, telemetryVars>>
     \/ /\ part = "audit" /\ Siem!Next
        /\ UNCHANGED <<vars, documentVars, scannerVars, streamVars, detectionVars,
                      nerVars, chunkVars, rosterVars, matrixVars, numberVars, telemetryVars>>
     \/ /\ part = "telemetry" /\ Firewall!Next
        /\ UNCHANGED <<vars, documentVars, scannerVars, streamVars, detectionVars,
                      nerVars, chunkVars, rosterVars, matrixVars, numberVars, auditVars>>

PathSpec == PathInit /\ [][PathNext]_<<part, vars, documentVars, scannerVars, streamVars, detectionVars,
                                     nerVars, chunkVars, rosterVars, matrixVars, numberVars, auditVars, telemetryVars>>

\* The leaves of a body that is passed on (Documents.TransformedOnce).
TransformedOnce == Document!TransformedOnce
\* Events keep their lines, with what is held of the one that is read
\* (SseScanner.Scanned, EventsWhole).
EventsWhole == Scanner!Scanned /\ Scanner!EventsWhole
\* The text of a streamed answer, with what its buffers hold (StreamRestore.Buffers,
\* RestoredSoFar), and the types.
RestoredSoFar == Stream!TypeOK /\ Stream!Buffers /\ Stream!RestoredSoFar
\* The tool calls of a streamed answer, with what the barrier holds of them
\* (StreamRestore.Barrier, CallsComplete).
CallsComplete == Stream!Barrier /\ Stream!CallsComplete
\* No half of a literal is emitted (StreamRestore.NoHalfEmitted).
NoHalfEmitted == Stream!NoHalfEmitted
\* What there is to find is found, in one text, in chunks and by a roster, and is
\* replaced in the text that leaves, by what its flow's strategy makes of it; and a
\* number that was issued passes its check, and none leaves whole in the telemetry
\* (Detection.NothingVanishes, ChunkedScan.ChunkedFindsAll, AhoCorasick.FindsEveryTerm,
\* Matrix.NoneAsIs, CheckDigits.IssuedRecognised, Telemetry.NothingWhole).
NothingVanishes ==
  CASE part = "detection" -> Detect!NothingVanishes
    [] part = "chunks" -> Chunks!ChunkedFindsAll
    [] part = "roster" -> Roster!FindsEveryTerm
    [] part = "matrix" -> Policy!NoneAsIs
    [] part = "numbers" -> Numbers!IssuedRecognised
    [] part = "telemetry" -> Firewall!NothingWhole
    [] OTHER -> TRUE
\* The NER service is kept from requests for cause (RemoteNer.IInv, OpenForCause).
OpenForCause == Ner!IInv /\ Ner!OpenForCause
\* Audit events on their way to a SIEM (Audit.IInv, AuditAccounted).
AuditAccounted == Siem!IInv /\ Siem!AuditAccounted
=============================================================================
