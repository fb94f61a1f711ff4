----------------------------- MODULE SseParser -----------------------------
(***************************************************************************)
(* What the gateway reads out of a streamed body on its way to the client: *)
(* the line buffer and the parsers of server/src/router.rs.                *)
(*                                                                         *)
(* A line on the wire is a number of parts and a newline, so that a chunk  *)
(* may end before, inside and after it.  Of a line only that is kept which *)
(* the parsers tell apart: its field; for an event line, whether it names  *)
(* response.completed; for a data line, whether its JSON has that type,    *)
(* the tokens it reports (0: none) and the reason for finishing it gives;  *)
(* and which of its parts begin inside a multi-byte character.             *)
(***************************************************************************)
EXTENDS Naturals, Sequences, SequencesExt

CONSTANT MaxCarry  \* MAX_CARRY, in parts of a line

ASSUME ParserAssumption == MaxCarry \in Nat \ {0}

Protocols == {"chat", "messages", "responses"}

Newline == [part |-> 0]
Parts(line) == [i \in 1..line.length |-> [part |-> i, line |-> line]]
IsNewline(p) == p.part = 0
Inside(p) == ~IsNewline(p) /\ p.part \in p.line.inside

\* The bytes of a body: its lines, blank ones (<<>>) included.
Wire(lines) ==
    FlattenSeq([i \in DOMAIN lines |->
        (IF lines[i] = <<>> THEN <<>> ELSE Parts(lines[i])) \o <<Newline>>])

\* TokenUsage::default() and no finish reason.
Nothing == [usage |-> 0, reason |-> ""]

\* A fragment is neither an event nor a data line to any parser: the rest of a
\* line never looks like one.
Fragment == [field |-> "other"]
LineOf(text) ==
    IF /\ text # <<>>
       /\ text[1].part = 1
       /\ Len(text) = text[1].line.length
    THEN text[1].line
    ELSE Fragment
----------------------------------------------------------------------------
\* A reader is in the middle of a line (text), after an event line that
\* named response.completed or not (event), with what it has found.
\* Chat and messages: the last usage of a span, but its first finish reason.
UsageOf(found, line) == IF line.usage > 0 THEN line.usage ELSE found.usage
FirstReason(found, line) == IF found.reason = "" THEN line.reason ELSE found.reason

ReadLine(r) ==
    LET line == LineOf(r.text)
    IN  [r EXCEPT !.text = <<>>,
                  !.found = IF line.field # "data" THEN @
                            ELSE [usage  |-> UsageOf(@, line),
                                  reason |-> FirstReason(@, line)]]

\* The Responses API: data counts if its type, or the event line before it,
\* says response.completed; data and blank lines end an event.
LastReason(found, line) == IF line.reason = "" THEN found.reason ELSE line.reason

ReadResponsesLine(r) ==
    LET line == LineOf(r.text)
    IN  CASE r.text = <<>> -> [r EXCEPT !.event = FALSE]
          [] line.field = "event" -> [r EXCEPT !.text = <<>>, !.event = line.completed]
          [] line.field = "data" ->
                [r EXCEPT !.text = <<>>,
                          !.event = FALSE,
                          !.found = IF r.event \/ line.completed
                                    THEN [usage  |-> UsageOf(@, line),
                                          reason |-> LastReason(@, line)]
                                    ELSE @]
          [] OTHER -> [r EXCEPT !.text = <<>>]

Read(protocol, r) ==
    IF protocol = "responses" THEN ReadResponsesLine(r) ELSE ReadLine(r)

ReadPart(protocol, r, p) ==
    IF IsNewline(p) THEN Read(protocol, r) ELSE [r EXCEPT !.text = Append(@, p)]

\* What a reader of a span has after each of its parts.
Start == [text |-> <<>>, event |-> FALSE, found |-> Nothing]
Readings(protocol, span) ==
    LET r[i \in 0..Len(span)] ==
            IF i = 0 THEN Start ELSE ReadPart(protocol, r[i - 1], span[i])
    IN  r

\* The last line may have no newline.
Ended(protocol, r) == (IF r.text = <<>> THEN r ELSE Read(protocol, r)).found
ReadLines(protocol, span) == Ended(protocol, Readings(protocol, span)[Len(span)])

\* from_utf8 rejects all of a span for a line that is no UTF-8, and for a
\* character that the span begins or ends inside.
NotUtf8(span) ==
    \E i \in DOMAIN span :
        LET p == span[i]
        IN  /\ ~IsNewline(p)
            /\ \/ p.line.field = "binary"
               \/ i = 1 /\ Inside(p)
               \/ i = Len(span) /\ p.part + 1 \in p.line.inside

Parse(protocol, span) ==
    IF NotUtf8(span) THEN Nothing ELSE ReadLines(protocol, span)

\* What a later span holds replaces what an earlier one held.
Found(old, new) ==
    [usage  |-> IF new.usage > 0 THEN new.usage ELSE old.usage,
     reason |-> IF new.reason # "" THEN new.reason ELSE old.reason]
----------------------------------------------------------------------------
\* Position of the last newline, 0 if there is none.
LastNewline(bytes) == SelectLastInSeq(bytes, IsNewline)

\* Mutant: each chunk is parsed by itself.
PushChunk(protocol, state, chunk) ==
    [carry |-> <<>>, found |-> Found(state.found, Parse(protocol, chunk))]

\* The lines a chunk completes are parsed; the tail is kept for the next one,
\* unless it has grown past MaxCarry: then it is dropped where it ends, and
\* the rest of its line comes with the next span.
Push(protocol, state, chunk) ==
    LET bytes == state.carry \o chunk
        nl == LastNewline(bytes)
        tail == SubSeq(bytes, nl + 1, Len(bytes))
    IN  [carry |-> IF Len(tail) > MaxCarry THEN <<>> ELSE tail,
         found |-> Found(state.found, Parse(protocol, SubSeq(bytes, 1, nl)))]

Flush(protocol, state) ==
    [carry |-> <<>>, found |-> Found(state.found, Parse(protocol, state.carry))]
============================================================================
