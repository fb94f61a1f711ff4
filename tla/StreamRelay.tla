---------------------------- MODULE StreamRelay ----------------------------
(***************************************************************************)
(* The tasks that relay streamed bodies (the tokio::spawn of route_chat,   *)
(* route_messages and route_responses in server/src/router.rs), each with  *)
(* its line buffer, its bounded channel to the client and its access       *)
(* record, and the shutdown of server/src/server.rs, which waits for all   *)
(* of them before the access log is flushed.                               *)
(*                                                                         *)
(* Gateway has what surrounds a stream: limits, retries, breakers, token   *)
(* charges.  Here a request is one POST and its streamed body.             *)
(***************************************************************************)
EXTENDS SseParser, AccessLog

CONSTANTS Bodies,     \* [stream -> what its upstream may be sending]
          RelaySize   \* capacity of the channel to the client

Streams == DOMAIN Bodies

\* Part n of a line stands n after a newline, or after the beginning; a newline
\* ends a whole line, and no line begins inside a character.
InLines(bytes) ==
    \A i \in DOMAIN bytes :
        LET p == bytes[i]
            k == i - p.part
        IN  IF IsNewline(p)
            THEN i = 1 \/ IsNewline(bytes[i - 1]) \/ bytes[i - 1].part = bytes[i - 1].line.length
            ELSE /\ p.line.length \in Nat /\ p.line.inside \subseteq 2..p.line.length
                 /\ p.part \in 1..p.line.length /\ k \in Nat
                 /\ k = 0 \/ IsNewline(bytes[k])
                 /\ \A j \in k + 1..i : ~IsNewline(bytes[j])
                 /\ p.line = bytes[k + 1].line

ASSUME RelayAssumption ==
    /\ Streams = Records
    /\ \A s \in Streams : \A b \in Bodies[s] :
          /\ b.protocol \in Protocols
          /\ b.bytes \in Seq(ToSet(b.bytes)) /\ b.bytes # <<>>
          /\ InLines(b.bytes)
    /\ RelaySize \in Nat \ {0}

VARIABLES task,    \* [stream -> its task]
          client,  \* [stream -> the connection of its client]
          server   \* serve(): serving, draining, flushing, exited

vars == <<task, client, server, logVars>>

\* pc: not requested; POST under way; awaiting a chunk; a chunk or an error
\* to be sent to the client; body over; done; handler dropped.
Idle == [pc |-> "idle", protocol |-> "chat", body |-> <<>>, taken |-> 0,
         item |-> <<>>, buffer |-> [carry |-> <<>>, found |-> Nothing]]

\* The channel to the client and what the client has taken from it.
NoClient == [state |-> "none", channel |-> <<>>, got |-> <<>>]

StreamError == <<[part |-> 3]>>

Received(s) == SubSeq(task[s].body, 1, task[s].taken)

RelayTypeOK ==
    /\ \A s \in Streams :
          /\ task[s].pc \in {"idle", "posting", "reading", "sending", "failing",
                             "ending", "done", "dropped"}
          /\ task[s].taken \in 0..Len(task[s].body)
          /\ Len(task[s].buffer.carry) <= MaxCarry
          /\ LastNewline(task[s].buffer.carry) = 0
          /\ task[s].pc = "done" => task[s].buffer.carry = <<>>
          /\ client[s].state \in {"none", "open", "served", "answered", "broken", "gone"}
          /\ Len(client[s].channel) <= RelaySize
    /\ server \in {"serving", "draining", "flushing", "exited"}

TypeOK == LogTypeOK /\ RelayTypeOK

Init ==
    /\ task = [s \in Streams |-> Idle]
    /\ client = [s \in Streams |-> NoClient]
    /\ server = "serving"
    /\ LogInit
----------------------------------------------------------------------------
\* emit_access_log: a line to the log, and the record to the sink.
EmitAccessLog(s) == TrySend(s)

Open(s) == client[s].state = "open"

\* A request comes in; while the server drains, on a connection it had.
Accept(s) ==
    /\ server \in {"serving", "draining"}
    /\ task[s].pc = "idle"
    /\ \E b \in Bodies[s] :
          task' = [task EXCEPT ![s].pc = "posting", ![s].protocol = b.protocol,
                               ![s].body = b.bytes]
    /\ client' = [client EXCEPT ![s].state = "open"]
    /\ UNCHANGED <<server, logVars>>

\* Headers with a success status: the task is spawned, the client answered.
Spawn(s) ==
    /\ task[s].pc = "posting"
    /\ task' = [task EXCEPT ![s].pc = "reading"]
    /\ UNCHANGED <<client, server, logVars>>

\* No success: the handler emits a record and answers.
Refused(s) ==
    /\ task[s].pc = "posting"
    /\ task' = [task EXCEPT ![s].pc = "done"]
    /\ client' = [client EXCEPT ![s].state = "answered"]
    /\ EmitAccessLog(s)
    /\ UNCHANGED server

\* The next chunk, however the network has cut it.
Receive(s) ==
    LET t == task[s]
    IN  /\ t.pc = "reading"
        /\ \E n \in t.taken + 1 .. Len(t.body) :
             LET chunk == SubSeq(t.body, t.taken + 1, n)
             IN  task' = [task EXCEPT ![s].pc = "sending",
                                      ![s].taken = n,
                                      ![s].item = chunk,
                                      ![s].buffer = Push(t.protocol, t.buffer, chunk)]
        /\ UNCHANGED <<client, server, logVars>>

\* Mutant: the client is not told.
BreakSilently(s) ==
    /\ task[s].pc = "reading"
    /\ task' = [task EXCEPT ![s].pc = "ending"]
    /\ UNCHANGED <<client, server, logVars>>

\* The connection to the upstream breaks, or request_timeout_secs is up.
Break(s) ==
    /\ task[s].pc = "reading"
    /\ task' = [task EXCEPT ![s].pc = "failing", ![s].item = StreamError]
    /\ UNCHANGED <<client, server, logVars>>

\* The upstream has ended its body.
EndOfBody(s) ==
    /\ task[s].pc = "reading"
    /\ task[s].taken = Len(task[s].body)
    /\ task' = [task EXCEPT ![s].pc = "ending"]
    /\ UNCHANGED <<client, server, logVars>>

\* tx.send(..).await: there is room in the channel.
Send(s) ==
    /\ task[s].pc \in {"sending", "failing"}
    /\ Open(s)
    /\ Len(client[s].channel) < RelaySize
    /\ client' = [client EXCEPT ![s].channel = Append(@, task[s].item)]
    /\ task' = [task EXCEPT ![s].pc = IF @ = "sending" THEN "reading" ELSE "ending",
                            ![s].item = <<>>]
    /\ UNCHANGED <<server, logVars>>

\* Mutant: an error waits for room whether anybody will make some or not.
SendFailsButErrors(s) ==
    /\ task[s].pc = "sending"
    /\ ~Open(s)
    /\ task' = [task EXCEPT ![s].pc = "ending", ![s].item = <<>>]
    /\ UNCHANGED <<client, server, logVars>>

\* The receiver is gone: the rest of the body is not read.
SendFails(s) ==
    /\ task[s].pc \in {"sending", "failing"}
    /\ ~Open(s)
    /\ task' = [task EXCEPT ![s].pc = "ending", ![s].item = <<>>]
    /\ UNCHANGED <<client, server, logVars>>

\* The line buffer is flushed, the record emitted, the sink dropped.
Finish(s) ==
    /\ task[s].pc = "ending"
    /\ task' = [task EXCEPT ![s].pc = "done",
                            ![s].buffer = Flush(task[s].protocol, task[s].buffer)]
    /\ EmitAccessLog(s)
    /\ UNCHANGED <<client, server>>
----------------------------------------------------------------------------
\* The client takes what is next; an error ends its response abruptly.
Take(s) ==
    /\ Open(s)
    /\ client[s].channel # <<>>
    /\ LET item == Head(client[s].channel)
       IN  \/ /\ item = StreamError
              /\ client' = [client EXCEPT ![s].state = "broken", ![s].channel = <<>>]
           \/ /\ item # StreamError
              /\ client' = [client EXCEPT ![s].channel = Tail(@), ![s].got = @ \o item]
    /\ UNCHANGED <<task, server, logVars>>

\* The channel is empty and its sender gone: the response is complete.
TakeEnd(s) ==
    /\ Open(s)
    /\ client[s].channel = <<>>
    /\ task[s].pc = "done"
    /\ client' = [client EXCEPT ![s].state = "served"]
    /\ UNCHANGED <<task, server, logVars>>

\* The connection is dropped, and with it the handler, if it still runs.
Disconnect(s) ==
    /\ Open(s)
    /\ client' = [client EXCEPT ![s].state = "gone", ![s].channel = <<>>]
    /\ task' = [task EXCEPT ![s].pc = IF @ = "posting" THEN "dropped" ELSE @]
    /\ UNCHANGED <<server, logVars>>

HangUp(s) == Disconnect(s)
----------------------------------------------------------------------------
\* SIGINT or SIGTERM.
Signal ==
    /\ server = "serving"
    /\ server' = "draining"
    /\ UNCHANGED <<task, client, logVars>>

\* serve() returns when no connection is left, or the grace period is up.
Served ==
    /\ server = "draining"
    /\ server' = "flushing"
    /\ UNCHANGED <<task, client, logVars>>

\* Whatever connections are left after that are closed.
Close(s) ==
    /\ server = "flushing"
    /\ Disconnect(s)

\* Nobody holds a LogSink: the server's own went with serve(), a handler's
\* goes with its connection, a task's when it is done.
SinksDropped ==
    /\ server = "flushing"
    /\ \A s \in Streams : task[s].pc \in {"idle", "done", "dropped"} /\ ~Open(s)

Writer == WriterStep(SinksDropped) /\ UNCHANGED <<task, client, server>>

\* log_writer.shutdown() has joined the writer; the process ends.
Exit ==
    /\ server = "flushing"
    /\ writer = "stopped"
    /\ server' = "exited"
    /\ UNCHANGED <<task, client, logVars>>

Upstream(s) == Spawn(s) \/ Refused(s) \/ Receive(s) \/ Break(s) \/ EndOfBody(s)
Relay(s) == Send(s) \/ SendFails(s) \/ Finish(s)
Task(s) == Upstream(s) \/ Relay(s)
Client(s) == Take(s) \/ TakeEnd(s) \/ HangUp(s)
Shutdown == Served \/ (\E s \in Streams : Close(s)) \/ Exit

Next == (\E s \in Streams : Accept(s) \/ Task(s) \/ Client(s))
        \/ Signal \/ Shutdown \/ Writer

\* The upstream answers or times out, tasks and the writer run, the grace
\* period ends.  No client is made to take anything, no signal to come.
Fairness == /\ \A s \in Streams : WF_vars(Task(s))
            /\ WF_vars(Shutdown)
            /\ WF_vars(Writer)

Spec == Init /\ [][Next]_vars
FairSpec == Spec /\ Fairness
----------------------------------------------------------------------------
\* The lines are UTF-8, and none has a character that a carry grown past
\* MaxCarry could be dropped inside.
Legible(bytes) ==
    \A i \in DOMAIN bytes :
        ~IsNewline(bytes[i]) =>
            /\ bytes[i].line.field # "binary"
            /\ Inside(bytes[i]) => bytes[i].part <= MaxCarry + 1

\* What the parsers look for stands on lines that fit the buffer, is said
\* once, and in the Responses API is typed by the data line itself.
DataLines(bytes) ==
    {bytes[i].line : i \in {k \in DOMAIN bytes :
        ~IsNewline(bytes[k]) /\ bytes[k].line.field = "data"}}
Telling(bytes) == {l \in DataLines(bytes) : l.usage > 0 \/ l.reason # ""}

Fits(bytes) == \A l \in Telling(bytes) : l.length <= MaxCarry
OneReason(bytes) == Cardinality({l.reason : l \in Telling(bytes)} \ {""}) <= 1
SelfDescribing(protocol, bytes) ==
    protocol = "responses" => \A l \in Telling(bytes) : l.completed

\* However the network cuts a body, inside a line or a character, the tokens
\* charged and the reason logged are those its lines hold, one by one, as far
\* as they were received (SseLineBuffer feeds the parsers complete lines, each
\* of them once).  The code keeps this only of bodies that are Legible: a carry
\* dropped inside a character takes the lines of the next span with it.
AnyCutReadsTheSame ==
    \A s \in Streams :
        LET bytes == Received(s)
        IN  /\ task[s].pc = "done"
            /\ Fits(bytes) /\ OneReason(bytes) /\ Legible(bytes)
            /\ SelfDescribing(task[s].protocol, bytes)
            => task[s].buffer.found = ReadLines(task[s].protocol, bytes)

\* The same for an event whose type stands only in its event line, as
\* DashScope sends it.  The test responses_sse_dashscope_full_sequence
\* (router.rs) asks for its tokens; the code misses them when a chunk ends
\* between the two lines.
FlatEventsAreRead ==
    \A s \in Streams :
        LET bytes == Received(s)
        IN  task[s].pc = "done" /\ Fits(bytes) /\ Legible(bytes)
            => task[s].buffer.found = ReadLines(task[s].protocol, bytes)

\* A client that is given a complete response has all of the body: what is
\* relayed is never reordered, and a body that broke off never looks whole.
ClientIsTold ==
    \A s \in Streams :
        /\ IsPrefix(client[s].got, task[s].body)
        /\ client[s].state = "served" => client[s].got = task[s].body

\* Each request that ran to its end has its record in one place: in the
\* channel, the batch or the table, or lost to a full channel or a failed
\* batch; and a clean exit leaves none in the first two.
RecordsAreKept ==
    /\ \A s \in Streams :
          LET way == queue \o buf \o stored
              rows == {i \in DOMAIN way : way[i] = s}
          IN  Cardinality(rows) + (IF s \in lost THEN 1 ELSE 0)
                = (IF task[s].pc = "done" THEN 1 ELSE 0)
    /\ server = "exited" => queue = <<>> /\ buf = <<>>

\* A shutdown comes to its end: shutdown().await waits for every task that
\* holds a LogSink, and no client that stopped reading, no upstream that
\* stopped sending and no failing database keeps it waiting for ever.
ShutdownEnds == server = "draining" ~> server = "exited"
============================================================================
