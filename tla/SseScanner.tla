----------------------------- MODULE SseScanner -----------------------------
(***************************************************************************)
(* internal/proxy/sse.go and the loop of Handler.stream around it: lines   *)
(* of an SSE answer become events, and events are written to the client.   *)
(* A line is one of its forms; data lines carry the number of their line,  *)
(* so that one that is lost, repeated or out of its event is seen.         *)
(***************************************************************************)
EXTENDS Naturals, Sequences, FiniteSets, SequencesExt

CONSTANTS MaxLines, \* bound on the lines of an answer
          MaxSize   \* DefaultMaxEventSize, in data lines

VARIABLES
  lines,    \* the lines read so far
  dataBuf,  \* Scanner.dataBuf: the line numbers in it, 0 for a comment
  comment,  \* Event.Comment
  hasField, \* a line of the event was read
  err,      \* Scanner.err: "none", "EOF", "read" or ErrEventTooLarge
  outs      \* the events written

vars == <<lines, dataBuf, comment, hasField, err, outs>>

Forms == {"data", "DONE", "field", "other", "comment", "blank"}

Init ==
  /\ lines = <<>> /\ dataBuf = <<>> /\ comment = FALSE /\ hasField = FALSE
  /\ err = "none" /\ outs = <<>>

Number == Len(lines) + 1
IsDone == Len(dataBuf) = 1 /\ Head(dataBuf) > 0 /\ lines[Head(dataBuf)] = "DONE"

\* WriteEvent: a comment as it is, else a line for every line of the data.
WriteEvent == IF comment THEN <<0>> ELSE dataBuf

\* finishEvent, and what stream does with the event: a comment is written as it
\* is, [DONE] ends the answer, everything else goes to the restorer.
FinishKeepsBuf ==   \* mutant: the buffer is not reset for the next event
  /\ outs' = Append(outs, WriteEvent)
  /\ hasField' = FALSE /\ comment' = FALSE /\ UNCHANGED dataBuf
finishEvent ==
  /\ outs' = Append(outs, WriteEvent)
  /\ hasField' = FALSE /\ comment' = FALSE /\ dataBuf' = <<>>

Field(form) ==
  /\ hasField' = TRUE /\ UNCHANGED outs
  /\ CASE form = "comment" -> dataBuf' = <<0>> /\ comment' = TRUE /\ UNCHANGED err
       [] form \in {"data", "DONE"} ->
            /\ IF Len(dataBuf) < MaxSize
               THEN dataBuf' = Append(dataBuf, Number) /\ UNCHANGED err
               ELSE err' = "large" /\ UNCHANGED dataBuf
            /\ UNCHANGED comment
       [] OTHER -> UNCHANGED <<dataBuf, comment, err>>

Line(form) ==
  /\ err = "none" /\ Len(lines) < MaxLines
  /\ lines' = Append(lines, form)
  /\ IF form # "blank" THEN Field(form)
     ELSE IF hasField
     THEN finishEvent /\ err' = IF ~comment /\ IsDone THEN "DONE" ELSE "none"
     ELSE UNCHANGED <<dataBuf, comment, hasField, err, outs>>

\* The last event needs no blank line, unless the connection broke.
End ==
  /\ err = "none" /\ UNCHANGED lines
  /\ \/ hasField /\ err' = "EOF" /\ finishEvent
     \/ /\ err' \in {"read"} \cup (IF hasField THEN {} ELSE {"EOF"})
        /\ UNCHANGED <<dataBuf, comment, hasField, outs>>

Next == (\E form \in Forms : Line(form)) \/ End
Spec == Init /\ [][Next]_vars

-----------------------------------------------------------------------------
TypeOK ==
  /\ lines \in Seq(Forms) /\ dataBuf \in Seq(Nat) /\ outs \in Seq(Seq(Nat))
  /\ comment \in BOOLEAN /\ hasField \in BOOLEAN
  /\ err \in {"none", "EOF", "DONE", "read", "large"}

\* The events of the answer, read off its lines: runs between blank lines.
Blanks == {i \in DOMAIN lines : lines[i] = "blank"}
EventOf(i) == {j \in DOMAIN lines \ Blanks : \A b \in Blanks : (b < i) = (b < j)}
Ended(i) == \E b \in Blanks : i < b
Current == {j \in DOMAIN lines \ Blanks : ~Ended(j)}
IsData(i) == lines[i] \in {"data", "DONE"}
Commented(i) == \E j \in EventOf(i) : lines[j] = "comment"
Rising(s) == \A i, j \in DOMAIN s : i < j => s[i] < s[j]

\* As long as lines are read the scanner holds the lines since the last blank one:
\* their data in the order they came in, unless a comment has overwritten them.
Scanned ==
  /\ err = "none" =>
       /\ hasField = (Current # {})
       /\ comment = \E j \in Current : lines[j] = "comment"
       /\ ~comment => Rising(dataBuf) /\ ToSet(dataBuf) = {j \in Current : IsData(j)}
  /\ \A k \in DOMAIN outs : \A i \in ToSet(outs[k]) \ {0} : Ended(i) \/ err = "EOF"

\* Every data line of an event without a comment is written once, in its place,
\* with the other data lines of its event and no others, unless the event was
\* not complete when the connection broke or grew too large.
EventsWhole ==
  /\ \A k \in DOMAIN outs : \A i \in ToSet(outs[k]) \ {0} :
       /\ Rising(outs[k]) /\ ToSet(outs[k]) = {j \in EventOf(i) : IsData(j)}
       /\ \A m \in DOMAIN outs : m > k => \A j \in ToSet(outs[m]) \ {0} : i < j
  /\ (UNION {ToSet(outs[k]) : k \in DOMAIN outs}) \ {0}
       = {i \in DOMAIN lines : IsData(i) /\ ~Commented(i) /\ (Ended(i) \/ err = "EOF")}
=============================================================================
