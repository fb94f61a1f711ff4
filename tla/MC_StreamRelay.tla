-------------------------- MODULE MC_StreamRelay --------------------------
EXTENDS StreamRelay

CONSTANTS s1, s2

Data(length, inside, completed, usage, reason) ==
    [field |-> "data", length |-> length, inside |-> inside,
     completed |-> completed, usage |-> usage, reason |-> reason]
Event(completed) ==
    [field |-> "event", length |-> 1, inside |-> {}, completed |-> completed]

Delta == Data(1, {}, FALSE, 0, "")
Long == Data(4, {3}, FALSE, 0, "")
Usage == Data(1, {}, FALSE, 1, "")
Final == Data(2, {2}, FALSE, 2, "stop")
Completed == Data(1, {}, TRUE, 2, "completed")
Binary == [field |-> "binary", length |-> 1, inside |-> {}]

Unended(lines) == Front(Wire(lines))

Body(protocol, bytes) == [protocol |-> protocol, bytes |-> bytes]

\* A line that outgrows the buffer before one that does not, without a last
\* newline, both with a character that a chunk may end inside; an event of the
\* Responses API; a line that is no UTF-8.
LongBodies ==
    {Body("messages", Unended(<<Long, Usage, Final>>)),
     Body("responses", Wire(<<Event(TRUE), Completed>>)),
     Body("chat", Unended(<<Binary, Usage>>))}

Flat == Body("responses", Wire(<<Event(TRUE), Final>>))

BodiesValue == s1 :> LongBodies @@ s2 :> {Body("chat", Unended(<<Delta>>))}
FlatValue == s1 :> {Flat} @@ s2 :> {Body("chat", Unended(<<Delta>>))}
===========================================================================
