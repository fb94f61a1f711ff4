----------------------------- MODULE AccessLog -----------------------------
(***************************************************************************)
(* The way of an access record from a request to the database: the bounded *)
(* channel behind LogSink and the writer task of server/src/log_sink.rs.   *)
(*                                                                         *)
(* The database is SQLite or MySQL: the writer's third timer, which makes  *)
(* partitions, does something for PostgreSQL only.  The flush timer may    *)
(* fire at any moment.                                                     *)
(***************************************************************************)
EXTENDS Naturals, Sequences, FiniteSets, SequencesExt

CONSTANTS Records,      \* what may be sent
          ChannelSize,  \* CHANNEL_SIZE
          BatchSize     \* BATCH_SIZE

ASSUME LogAssumption ==
    /\ IsFiniteSet(Records)
    /\ ChannelSize \in Nat \ {0}
    /\ BatchSize \in Nat \ {0}

VARIABLES queue,    \* the channel
          buf,      \* the writer's batch
          writer,   \* what it is doing
          stored,   \* rows of access_log, in the order of insertion
          lost      \* history: records dropped, or in a batch that failed

logVars == <<queue, buf, writer, stored, lost>>

LogTypeOK ==
    /\ queue \in Seq(Records) /\ Len(queue) <= ChannelSize
    /\ buf \in Seq(Records) /\ Len(buf) <= BatchSize
    /\ writer \in {"waiting", "writing", "flushing", "stopped"}
    /\ writer = "waiting" => Len(buf) < BatchSize
    /\ writer \in {"writing", "flushing"} => buf # <<>>
    /\ stored \in Seq(Records)
    /\ lost \subseteq Records

LogInit ==
    /\ queue = <<>>
    /\ buf = <<>>
    /\ writer = "waiting"
    /\ stored = <<>>
    /\ lost = {}
----------------------------------------------------------------------------
\* A request sends its record, and drops it if the channel is full.
TrySend(record) ==
    \/ /\ Len(queue) < ChannelSize
       /\ queue' = Append(queue, record)
       /\ UNCHANGED <<buf, writer, stored, lost>>
    \/ /\ Len(queue) >= ChannelSize
       /\ lost' = lost \cup {record}
       /\ UNCHANGED <<queue, buf, writer, stored>>

\* Mutant: the batch is written when it has outgrown its size.
RecvPastFull ==
    /\ writer = "waiting"
    /\ queue # <<>>
    /\ queue' = Tail(queue)
    /\ buf' = Append(buf, Head(queue))
    /\ writer' = IF Len(buf) >= BatchSize THEN "writing" ELSE "waiting"
    /\ UNCHANGED <<stored, lost>>

\* The writer takes a record; a full batch is written at once.
Recv ==
    /\ writer = "waiting"
    /\ queue # <<>>
    /\ queue' = Tail(queue)
    /\ buf' = Append(buf, Head(queue))
    /\ writer' = IF Len(buf') >= BatchSize THEN "writing" ELSE "waiting"
    /\ UNCHANGED <<stored, lost>>

\* The flush timer.
FlushTick ==
    /\ writer = "waiting"
    /\ buf # <<>>
    /\ writer' = "writing"
    /\ UNCHANGED <<queue, buf, stored, lost>>

\* Mutant: what is buffered when the channel closes is not written.
DrainedUnflushed(closed) ==
    /\ writer = "waiting"
    /\ queue = <<>>
    /\ closed
    /\ writer' = "stopped"
    /\ UNCHANGED <<queue, buf, stored, lost>>

\* recv() says None: the channel is empty and every sender gone.
Drained(closed) ==
    /\ writer = "waiting"
    /\ queue = <<>>
    /\ closed
    /\ writer' = IF buf = <<>> THEN "stopped" ELSE "flushing"
    /\ UNCHANGED <<queue, buf, stored, lost>>

\* The database answers: all of the batch is in, or the error is logged and
\* the batch forgotten.
Inserted ==
    /\ writer \in {"writing", "flushing"}
    /\ \/ stored' = stored \o buf /\ UNCHANGED lost
       \/ lost' = lost \cup ToSet(buf) /\ UNCHANGED stored
    /\ buf' = <<>>
    /\ writer' = IF writer = "writing" THEN "waiting" ELSE "stopped"
    /\ UNCHANGED queue

WriterStep(closed) == Recv \/ FlushTick \/ Drained(closed) \/ Inserted
============================================================================
