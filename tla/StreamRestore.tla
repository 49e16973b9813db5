---------------------------- MODULE StreamRestore ----------------------------
(***************************************************************************)
(* One streamed answer on its way back to the client: Handler.stream feeds *)
(* each event to document.StreamRestorer, which keeps one hold-back buffer *)
(* per text path (anonymize.StreamUnredactor) and holds the arguments of a *)
(* tool call behind a barrier until the call is complete.                  *)
(*                                                                         *)
(* A text is a sequence of atoms: a word "x" (which no letter, digit or    *)
(* underscore begins), a wrapper or blank that a model may put round a     *)
(* placeholder, or a placeholder (or token) in three pieces, the half of   *)
(* its literal, the other half, and the rest. Frames may cut between any   *)
(* two atoms.                                                              *)
(***************************************************************************)
EXTENDS Naturals, Sequences, FiniteSets, SequencesExt

CONSTANTS Paths, Body,       \* structural paths of text; the one Flush writes to
          Texts,             \* the texts an upstream may stream along a path
          Window,            \* maxPlaceholderLen, in atoms
          Calls, Anthropic,  \* tool calls, and those in Anthropic's form
          Whole              \* fragments of a complete tool call

VARIABLES
  text,     \* what the upstream streams along each path
  taken,    \* how much of it has arrived
  buf,      \* StreamUnredactor.buffer
  got,      \* what the client has read along each path
  tail,     \* the extra frame of Flush
  sent,     \* fragments of each call that have arrived
  held,     \* StreamRestorer.toolArgs
  order,    \* toolOrder
  pending,  \* pendingFrames
  given,    \* fragments of each call the client has read
  stopped,  \* calls the upstream has ended
  end,      \* "open", "done", "eof", "gone", "failed"
  half,     \* history: paths where half a literal was emitted
  torn,     \* history: paths where a wrapped placeholder was emitted in two pieces
  early,    \* history: calls that ended before the client had all of them
  broke     \* history: the token store has failed

texts == <<text, taken, buf, got, tail, half, torn>>
tools == <<sent, held, order, pending, given, stopped, early>>
vars  == <<texts, tools, end, broke>>

-----------------------------------------------------------------------------
\* The two markers that can be restored: their pieces, what ends them, the value.
Markers == {"ph", "tok"}
Piece(m, i) == CASE m = "ph"  -> <<"ph1", "ph2", "ph3">>[i]
                 [] m = "tok" -> <<"tok1", "tok2", "tok3">>[i]
Value(m) == IF m = "ph" THEN "PH" ELSE "TOK"

\* What a model puts round a placeholder; a backtick opens and closes, and "["
\* is also the beginning of a token's literal.
Openers  == {"(", "tick", "["}
Closers  == {")", "tick"}
Wrapping == Openers \cup Closers \cup {"blank"}

Atoms == {"x"} \cup Wrapping \cup {Piece(m, i) : m \in Markers, i \in 1 .. 3}
Readable == Atoms \cup {Value(m) : m \in Markers}

MarkerAt(s, i, m) == i < Len(s) /\ s[i] = Piece(m, 1) /\ s[i + 1] = Piece(m, 2)

\* completePlaceholderRe wants one more character, completeTokenRe does not.
CompleteFrom(s, i, m) ==
  \E j \in i .. Len(s) :
    /\ s[j] = Piece(m, 3)
    /\ m = "ph" => j < Len(s) /\ s[j + 1] \in {"x", "tok1"} \cup Wrapping

\* How much of s may be emitted as far as marker m is concerned. Only the end of
\* the buffer is searched. Where that end begins inside a rune of a word, ToUpper
\* makes three bytes of each that is left of the rune: the place found is behind
\* the marker's beginning (shift), and what follows is never complete.
Searched(s) == {i \in 1 .. Len(s) : i > Len(s) - Window}
Shifts(s) == {0} \cup (IF Len(s) > Window /\ s[Len(s) - Window + 1] = "x" THEN {1} ELSE {})
Begins(m) == IF m = "tok" THEN {"tok1", "["} ELSE {"ph1"}
HoldPoint(s, m, shift) ==
  LET at == {i \in Searched(s) : MarkerAt(s, i, m)} IN
  IF at # {} THEN LET last == CHOOSE i \in at : \A j \in at : j <= i IN
                  IF shift = 0 /\ CompleteFrom(s, last, m) THEN Len(s) ELSE last - 1 + shift
  ELSE IF s # <<>> /\ Last(s) \in Begins(m) THEN Len(s) - 1 ELSE Len(s)

HoldPlaceholders(s, shift) == HoldPoint(s, "ph", shift)   \* mutant: tokens are not held back
SafePrefix(s, shift) ==
  IF HoldPoint(s, "ph", shift) < HoldPoint(s, "tok", shift) THEN HoldPoint(s, "ph", shift)
                                                            ELSE HoldPoint(s, "tok", shift)

\* Unredact: from left to right, every marker that is there in one piece becomes its
\* value, a placeholder with the wrappers round it where it has both.
WholeAt(s, i, m) == MarkerAt(s, i, m) /\ i + 2 <= Len(s) /\ s[i + 2] = Piece(m, 3)
Wrapped(s, i, j) ==
  /\ s[i] \in Openers /\ s[j] \in Closers
  /\ \E k \in i + 1 .. j - 3 :
       WholeAt(s, k, "ph") /\ \A l \in (i + 1 .. k - 1) \cup (k + 3 .. j - 1) : s[l] = "blank"
Unredact(s) ==
  LET from[n \in 0 .. Len(s)] ==   \* what the last n atoms become
        LET i == Len(s) - n + 1
            closers == {j \in i .. Len(s) : Wrapped(s, i, j)}
            markers == {m \in Markers : WholeAt(s, i, m)}
        IN IF n = 0 THEN <<>>
           ELSE IF closers # {} THEN <<Value("ph")>> \o from[Len(s) - CHOOSE j \in closers : TRUE]
           ELSE IF markers # {} THEN <<Value(CHOOSE m \in markers : TRUE)>> \o from[n - 3]
           ELSE <<s[i]>> \o from[n - 1]
  IN from[Len(s)]

\* A wrapped placeholder goes over the n-th atom's end.
Tears(s, n) == \E i \in 1 .. n, j \in n + 1 .. Len(s) : Wrapped(s, i, j)

Emit(s, shift) == SubSeq(s, 1, SafePrefix(s, shift))
Keep(s, shift) == SubSeq(s, SafePrefix(s, shift) + 1, Len(s))
AsksStore(s) == "TOK" \in ToSet(Unredact(s))

-----------------------------------------------------------------------------
Init ==
  /\ text \in [Paths -> Texts] /\ taken = [p \in Paths |-> 0]
  /\ buf = [p \in Paths |-> <<>>] /\ got = [p \in Paths |-> <<>>] /\ tail = <<>>
  /\ sent = [c \in Calls |-> 0] /\ held = [c \in Calls |-> 0] /\ order = <<>>
  /\ pending = <<>> /\ given = [c \in Calls |-> 0] /\ stopped = {}
  /\ end = "open" /\ half = {} /\ torn = {} /\ early = {} /\ broke = FALSE

Chunk(p, n) == SubSeq(text[p], taken[p] + 1, taken[p] + n)

\* The calls of keys that are in S, in the order of the barrier.
Only(keys, S) ==
  LET upTo[i \in 0 .. Len(keys)] ==
        IF i = 0 THEN <<>>
        ELSE IF keys[i] \in S THEN Append(upTo[i - 1], keys[i]) ELSE upTo[i - 1]
  IN upTo[Len(keys)]

\* absorbToolCalls, absorbAnthropicToolCalls: a fragment goes to the barrier.
Absorb(c) ==
  /\ sent' = [sent EXCEPT ![c] = @ + 1]
  /\ order' = IF held[c] = 0 THEN Append(order, c) ELSE order

\* renderReleased: the OpenAI calls in one frame, an Anthropic call in a frame
\* of its own; the first frame is returned, the others wait in pendingFrames.
Rendered(keys) ==
  LET calls   == {c \in ToSet(keys) : held[c] > 0}
      waiting == pending \o Only(keys, calls \cap Anthropic)
      openai  == calls \ Anthropic
  IN IF keys = <<>> THEN [frame |-> {}, wait |-> pending]
     ELSE IF openai # {} THEN [frame |-> openai, wait |-> waiting]
     ELSE IF waiting # <<>> THEN [frame |-> {Head(waiting)}, wait |-> Tail(waiting)]
     ELSE [frame |-> {}, wait |-> <<>>]

\* What is released comes before the frame that released it.
ReadAfter(frame, keys, stops) ==   \* mutant: after it
  /\ given' = [c \in Calls |-> IF c \in frame THEN sent[c] ELSE given[c]]
  /\ early' = early \cup {c \in stops : given[c] < sent[c]}
Read(frame, keys, stops) ==
  /\ given' = [c \in Calls |-> IF c \in frame THEN sent[c] ELSE given[c]]
  /\ early' = early \cup {c \in stops : given'[c] < sent[c]}

Release(keys, stops) ==
  LET out == Rendered(keys) IN
  /\ held' = [c \in Calls |-> IF c \in ToSet(keys) THEN 0 ELSE held[c]]
  /\ pending' = out.wait /\ Read(out.frame, keys, stops)

\* The tool part of a frame: none, a fragment, or the end of some calls.
NoTool == UNCHANGED tools

Fragment(c) ==
  /\ c \notin stopped /\ sent[c] < Whole
  /\ Absorb(c) /\ held' = [held EXCEPT ![c] = @ + 1]
  /\ UNCHANGED <<pending, given, stopped, early>>

\* finish_reason releases every OpenAI call of the choice, content_block_stop one.
EndOf(keys, stops) ==
  /\ stops # {} /\ stops \cap stopped = {}
  /\ stopped' = stopped \cup stops
  /\ Release(keys, stops) /\ UNCHANGED <<sent, order>>
Finish == EndOf(Only(order, Calls \ Anthropic), Calls \ Anthropic)
BlockStop(c) ==
  c \in Anthropic /\ EndOf(IF held[c] > 0 THEN <<c>> ELSE <<>>, {c})

\* A frame with a piece of text (of n atoms) for one path.
Frame(p, n) ==
  /\ end = "open" /\ taken' = [taken EXCEPT ![p] = @ + n]
  /\ LET s == buf[p] \o Chunk(p, n) IN \E shift \in Shifts(s) :
     /\ buf' = [buf EXCEPT ![p] = Keep(s, shift)]
     /\ got' = [got EXCEPT ![p] = @ \o Unredact(Emit(s, shift))]
     /\ half' = IF Emit(s, shift) # <<>> /\ Last(Emit(s, shift)) \in {"ph1", "tok1"}
                THEN half \cup {p} ELSE half
     /\ torn' = IF Tears(text[p], taken'[p] - Len(buf'[p])) THEN torn \cup {p} ELSE torn
  /\ NoTool \/ (\E c \in Calls : Fragment(c) \/ BlockStop(c)) \/ Finish
  /\ UNCHANGED <<text, tail, end, broke>>

\* The store fails: the frame is passed on as it came in, but what the buffer
\* and the barrier took from it is not given back, and nothing is released.
FrameFails(p, n) ==
  /\ end = "open" /\ taken' = [taken EXCEPT ![p] = @ + n]
  /\ LET s == buf[p] \o Chunk(p, n) IN \E shift \in Shifts(s) :
     /\ AsksStore(Emit(s, shift))
     /\ buf' = [buf EXCEPT ![p] = Keep(s, shift)]
     /\ got' = [got EXCEPT ![p] = @ \o Chunk(p, n)]
  /\ \/ NoTool
     \/ \E c \in Calls : Fragment(c)
     \/ /\ Calls \ Anthropic # {} /\ stopped \subseteq Anthropic
        /\ stopped' = stopped \cup (Calls \ Anthropic)
        /\ early' = early \cup {c \in Calls \ Anthropic : held[c] > 0}
        /\ UNCHANGED <<sent, held, order, pending, given>>
  /\ broke' = TRUE
  /\ UNCHANGED <<text, tail, half, torn, end>>

\* [DONE]: one frame of FlushToolCalls, then one with what the buffers still
\* hold, in whatever order the map yields them.
Orders == {o \in [1 .. Cardinality(Paths) -> Paths] : \A p \in Paths : \E i \in DOMAIN o : o[i] = p}
FlushText ==
  \/ /\ \E o \in Orders : tail' = FlattenSeq([i \in DOMAIN o |-> Unredact(buf[o[i]])])
     /\ end' = "done" /\ UNCHANGED broke
  \/ /\ \E p \in Paths : AsksStore(buf[p])
     /\ end' = "failed" /\ broke' = TRUE /\ UNCHANGED tail
Done ==
  /\ end = "open"
  /\ Release(Only(order, {c \in Calls : held[c] > 0}), {})
  /\ FlushText
  /\ buf' = [p \in Paths |-> <<>>]
  /\ UNCHANGED <<text, taken, got, half, torn, sent, order, stopped>>

\* The upstream ends without [DONE], or the client is gone.
Ends ==
  /\ end = "open" /\ end' \in {"eof", "gone"}
  /\ UNCHANGED <<texts, tools, broke>>

Next ==
  \/ \E p \in Paths : \E n \in 0 .. Len(text[p]) - taken[p] : Frame(p, n) \/ FrameFails(p, n)
  \/ Done \/ Ends

Spec == Init /\ [][Next]_vars

-----------------------------------------------------------------------------
TypeOK ==
  /\ text \in [Paths -> Seq(Atoms)] /\ taken \in [Paths -> Nat]
  /\ buf \in [Paths -> Seq(Atoms)] /\ got \in [Paths -> Seq(Readable)]
  /\ sent \in [Calls -> 0 .. Whole] /\ held \in [Calls -> 0 .. Whole]
  /\ given \in [Calls -> 0 .. Whole]
  /\ order \in Seq(Calls) /\ pending \in Seq(Anthropic) /\ stopped \subseteq Calls
  /\ half \subseteq Paths /\ torn \subseteq Paths /\ broke \in BOOLEAN
  /\ end \in {"open", "done", "eof", "gone", "failed"}

\* What a text reads like without its wrappers and blanks: all that a client can
\* tell of a path where a wrapped placeholder was torn.
Same(p, s, t) == IF p \in torn THEN Only(s, Readable \ Wrapping) = Only(t, Readable \ Wrapping)
                               ELSE s = t

\* The buffer of a path is the rest of what has arrived; as long as no half of a
\* literal was emitted it begins with a marker, or what was emitted ends in none.
Emitted(p) == SubSeq(text[p], 1, taken[p] - Len(buf[p]))
Closed(s) == \A m \in Markers :
               /\ s # <<>> => s[Len(s)] # Piece(m, 1)
               /\ Len(s) > 1 => ~ MarkerAt(s, Len(s) - 1, m)
Buffers ==
  end = "open" => \A p \in Paths :
    /\ Len(buf[p]) <= taken[p] /\ taken[p] <= Len(text[p])
    /\ buf[p] = SubSeq(text[p], taken[p] - Len(buf[p]) + 1, taken[p])
    /\ ~broke /\ p \notin torn => ~Tears(text[p], taken[p] - Len(buf[p]))
    /\ ~broke /\ p \notin half =>
         /\ Same(p, got[p], Unredact(Emitted(p)))
         /\ IF buf[p] = <<>> THEN Closed(Emitted(p)) ELSE Head(buf[p]) \in {"ph1", "tok1", "["}

\* What is held of a call has arrived and has its place in toolOrder; nothing
\* waits between two frames, and an ended call has nothing left to give.
Barrier ==
  /\ \A c \in Calls : held[c] <= sent[c] /\ (held[c] > 0 => c \in ToSet(order))
  /\ end = "open" => pending = <<>>
  /\ end = "open" /\ ~broke =>
       \A c \in Calls : given[c] + held[c] = sent[c] /\ (c \in stopped => held[c] = 0)

\* What the client has read of a path is the restored beginning of what was
\* streamed along it and the buffer is the rest, whatever the frames: nothing is
\* lost, repeated or left as a placeholder ("ANONYMIZED_NA" + "ME_0"), and the
\* last frame of the answer brings the rest.  Where a wrapped placeholder was sent
\* in two pieces its wrapper stays, and nothing else differs: "(Zhang)" for
\* "Zhang".  Not so after the store failed, nor where half a literal was sent
\* behind a complete placeholder or at the edge of the searched end.
Arrived(p) == SubSeq(text[p], 1, taken[p])
RestoredSoFar ==
  ~broke =>
    /\ \A p \in Paths \ half :
         end = "open" => Same(p, got[p] \o Unredact(buf[p]), Unredact(Arrived(p)))
    /\ end = "done" /\ half = {}
         /\ (\A p \in Paths \ {Body} : p \notin torn /\ got[p] = Unredact(Arrived(p)))
       => Same(Body, got[Body] \o tail, Unredact(Arrived(Body)))

\* The client is never told that a call is complete before it has all of its
\* arguments, reads every fragment once, and at the end of the answer has what
\* the barrier held, except for Anthropic calls behind another call.
Open == {c \in Calls : sent[c] > 0 /\ c \notin stopped}
CallsComplete ==
  ~broke =>
    /\ early = {}
    /\ \A c \in Calls : c \notin ToSet(pending) => given[c] + held[c] = sent[c]
    /\ end = "done" /\ (Cardinality(Open) < 2 \/ Open \cap Anthropic = {})
         => given = sent

IInv == TypeOK /\ Buffers /\ RestoredSoFar /\ Barrier /\ CallsComplete

\* Only what "provably contains no partial placeholder" is emitted (redactor.go).
NoHalfEmitted == half = {}
=============================================================================
