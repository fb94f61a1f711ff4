------------------------- MODULE StreamRelayProofs -------------------------
(***************************************************************************)
(* For any number of streams, any bodies and any sizes of channels,        *)
(* batches and line buffers: what a client has of a body is a prefix of    *)
(* it, and all of it if its response ended as complete; the record of each *)
(* finished request is in exactly one place; and what a request is charged *)
(* does not depend on how the network cut its body into chunks.            *)
(***************************************************************************)
EXTENDS StreamRelay, FiniteSetTheorems, SequenceTheorems,
        WellFoundedInduction, TLAPS

Part == UNION {ToSet(b.bytes) : b \in UNION {Bodies[s] : s \in Streams}}
Chunks == Seq(Part) \cup {StreamError}
----------------------------------------------------------------------------
(* Sequences without repetition.                                           *)

Once(q) == \A i, j \in DOMAIN q : q[i] = q[j] => i = j

\* Nothing is not repeated.
LEMMA EmptyOnce == Once(<<>>) /\ ToSet(<<>>) = {}
  BY DEF Once, ToSet

\* A new element may be added at the end.
LEMMA AppendOnce ==
    ASSUME NEW S, NEW q \in Seq(S), NEW e \in S, Once(q), e \notin ToSet(q)
    PROVE  Once(Append(q, e)) /\ ToSet(Append(q, e)) = ToSet(q) \cup {e}
<1>1. /\ Append(q, e) \in Seq(S) /\ Len(Append(q, e)) = Len(q) + 1 /\ Len(q) \in Nat
      /\ \A i \in 1..Len(q) : Append(q, e)[i] = q[i]
      /\ Append(q, e)[Len(q) + 1] = e
      /\ DOMAIN q = 1..Len(q) /\ DOMAIN Append(q, e) = 1..Len(q) + 1
  BY AppendProperties, LenProperties
<1> DEFINE a == Append(q, e)
<1> HIDE DEF a
<1>2. \A i \in 1..Len(q) : q[i] # e
  BY <1>1 DEF ToSet
<1>3. 1..Len(q) + 1 = 1..Len(q) \cup {Len(q) + 1}
  BY <1>1
<1>4. Once(a)
  BY <1>1, <1>2, <1>3 DEF Once, a
<1>5. ToSet(a) = ToSet(q) \cup {e}
  BY <1>1, <1>3 DEF ToSet, a
<1> QED
  BY <1>4, <1>5 DEF a

\* Without its head it has all the others.
LEMMA TailOnce ==
    ASSUME NEW S, NEW q \in Seq(S), q # <<>>, Once(q)
    PROVE  /\ Once(Tail(q)) /\ Tail(q) \in Seq(S) /\ Head(q) \in S
           /\ Len(Tail(q)) = Len(q) - 1
           /\ ToSet(Tail(q)) = ToSet(q) \ {Head(q)} /\ Head(q) \in ToSet(q)
<1>1. /\ Tail(q) \in Seq(S) /\ Len(Tail(q)) = Len(q) - 1 /\ Len(q) \in Nat
      /\ \A i \in 1..Len(Tail(q)) : Tail(q)[i] = q[i + 1]
      /\ DOMAIN q = 1..Len(q) /\ DOMAIN Tail(q) = 1..Len(Tail(q))
      /\ Len(q) > 0 /\ Head(q) = q[1] /\ Head(q) \in S
  <2>1. Head(q) = q[1]
    OBVIOUS
  <2> QED
    BY <2>1, HeadTailProperties, LenProperties, EmptySeq
<1> DEFINE t == Tail(q)
           h == Head(q)
<1> HIDE DEF t, h
<1>2. Once(t)
  BY <1>1 DEF Once, t
<1>3. h \in ToSet(q)
  BY <1>1 DEF ToSet, h
<1>4. ToSet(t) \subseteq ToSet(q) \ {h}
  <2> SUFFICES ASSUME NEW i \in 1..Len(t)
               PROVE  t[i] \in ToSet(q) /\ t[i] # h
    BY <1>1 DEF ToSet, t
  <2>1. i + 1 \in 1..Len(q) /\ 1 \in 1..Len(q) /\ i + 1 # 1 /\ t[i] = q[i + 1]
    BY <1>1 DEF t
  <2> QED
    BY <1>1, <2>1 DEF Once, ToSet, h
<1>5. ToSet(q) \ {h} \subseteq ToSet(t)
  <2> SUFFICES ASSUME NEW i \in 1..Len(q), q[i] # h
               PROVE  q[i] \in ToSet(t)
    BY <1>1 DEF ToSet
  <2>1. i # 1 /\ i - 1 \in 1..Len(t) /\ q[i] = t[i - 1]
    BY <1>1 DEF t, h
  <2> QED
    BY <1>1, <2>1 DEF ToSet, t
<1> QED
  BY <1>1, <1>2, <1>3, <1>4, <1>5 DEF t, h

\* Two that share nothing, one after the other.
LEMMA ConcatOnce ==
    ASSUME NEW S, NEW p \in Seq(S), NEW q \in Seq(S), Once(p), Once(q),
           ToSet(p) \cap ToSet(q) = {}
    PROVE  /\ Once(p \o q) /\ p \o q \in Seq(S)
           /\ ToSet(p \o q) = ToSet(p) \cup ToSet(q)
<1> DEFINE r == p \o q
<1>1. /\ r \in Seq(S) /\ Len(r) = Len(p) + Len(q) /\ Len(p) \in Nat /\ Len(q) \in Nat
      /\ \A i \in 1..Len(p) + Len(q) :
            r[i] = IF i <= Len(p) THEN p[i] ELSE q[i - Len(p)]
      /\ DOMAIN p = 1..Len(p) /\ DOMAIN q = 1..Len(q) /\ DOMAIN r = 1..Len(p) + Len(q)
  BY ConcatProperties, LenProperties
<1> HIDE DEF r
<1>2. \A i \in 1..Len(p), j \in 1..Len(q) : p[i] # q[j]
  BY <1>1 DEF ToSet
<1>3. Once(r)
  <2> SUFFICES ASSUME NEW i \in 1..Len(p) + Len(q), NEW j \in 1..Len(p) + Len(q), r[i] = r[j]
               PROVE  i = j
    BY <1>1 DEF Once
  <2>1. CASE i <= Len(p) /\ j <= Len(p)
    BY <1>1, <2>1 DEF Once
  <2>2. CASE i <= Len(p) /\ j > Len(p)
    <3>1. i \in 1..Len(p) /\ j - Len(p) \in 1..Len(q)
      BY <1>1, <2>2
    <3> QED
      BY <1>1, <1>2, <2>2, <3>1
  <2>3. CASE i > Len(p) /\ j <= Len(p)
    <3>1. j \in 1..Len(p) /\ i - Len(p) \in 1..Len(q)
      BY <1>1, <2>3
    <3> QED
      BY <1>1, <1>2, <2>3, <3>1
  <2>4. CASE i > Len(p) /\ j > Len(p)
    <3>1. i - Len(p) \in 1..Len(q) /\ j - Len(p) \in 1..Len(q)
      BY <1>1, <2>4
    <3>2. q[i - Len(p)] = q[j - Len(p)]
      BY <1>1, <2>4
    <3>3. i - Len(p) = j - Len(p)
      BY <1>1, <3>1, <3>2 DEF Once
    <3> QED
      BY <1>1, <3>3
  <2> QED
    BY <1>1, <2>1, <2>2, <2>3, <2>4
<1>4. ToSet(r) \subseteq ToSet(p) \cup ToSet(q)
  <2> SUFFICES ASSUME NEW i \in 1..Len(p) + Len(q)
               PROVE  r[i] \in ToSet(p) \cup ToSet(q)
    BY <1>1 DEF ToSet
  <2>1. CASE i <= Len(p)
    <3>1. i \in 1..Len(p) /\ r[i] = p[i]
      BY <1>1, <2>1
    <3> QED
      BY <1>1, <3>1 DEF ToSet
  <2>2. CASE i > Len(p)
    <3>1. i - Len(p) \in 1..Len(q) /\ r[i] = q[i - Len(p)]
      BY <1>1, <2>2
    <3> QED
      BY <1>1, <3>1 DEF ToSet
  <2> QED
    BY <1>1, <2>1, <2>2
<1>5. ToSet(p) \subseteq ToSet(r)
  <2> SUFFICES ASSUME NEW i \in 1..Len(p) PROVE p[i] \in ToSet(r)
    BY <1>1 DEF ToSet
  <2>1. i \in 1..Len(p) + Len(q) /\ r[i] = p[i]
    BY <1>1
  <2> QED
    BY <1>1, <2>1 DEF ToSet
<1>6. ToSet(q) \subseteq ToSet(r)
  <2> SUFFICES ASSUME NEW i \in 1..Len(q) PROVE q[i] \in ToSet(r)
    BY <1>1 DEF ToSet
  <2>1. i + Len(p) \in 1..Len(p) + Len(q) /\ r[i + Len(p)] = q[i]
    BY <1>1
  <2> QED
    BY <1>1, <2>1 DEF ToSet
<1> QED
  BY <1>1, <1>3, <1>4, <1>5, <1>6 DEF r
----------------------------------------------------------------------------
(* The access log, whose records D have been sent.                         *)

LogOK(D) ==
    /\ LogTypeOK
    /\ Once(queue) /\ Once(buf) /\ Once(stored)
    /\ ToSet(queue) \cap ToSet(buf) = {}
    /\ ToSet(queue) \cap ToSet(stored) = {}
    /\ ToSet(buf) \cap ToSet(stored) = {}
    /\ lost \cap (ToSet(queue) \cup ToSet(buf) \cup ToSet(stored)) = {}
    /\ ToSet(queue) \cup ToSet(buf) \cup ToSet(stored) \cup lost = D

\* Nothing is recorded at the start.
LEMMA LogInitOK == LogInit => LogOK({})
  BY LogAssumption, EmptyOnce, EmptySeq DEF LogInit, LogOK, LogTypeOK

\* A record is sent, or lost.
LEMMA TrySendOK ==
    ASSUME NEW D, LogOK(D), NEW s \in Records, s \notin D, TrySend(s)
    PROVE  LogOK(D \cup {s})'
<1>1. CASE Len(queue) < ChannelSize /\ queue' = Append(queue, s)
           /\ UNCHANGED <<buf, writer, stored, lost>>
  <2>1. queue \in Seq(Records) /\ s \notin ToSet(queue) /\ Once(queue)
    BY DEF LogOK, LogTypeOK
  <2>2. /\ Once(queue') /\ ToSet(queue') = ToSet(queue) \cup {s}
        /\ queue' \in Seq(Records) /\ Len(queue') = Len(queue) + 1 /\ Len(queue) \in Nat
    BY <1>1, <2>1, AppendOnce, AppendProperties, LenProperties
  <2>3. LogTypeOK'
    BY <1>1, <2>2, LogAssumption DEF LogOK, LogTypeOK
  <2> QED
    BY <1>1, <2>2, <2>3 DEF LogOK
<1>2. CASE lost' = lost \cup {s} /\ UNCHANGED <<queue, buf, writer, stored>>
  BY <1>2 DEF LogOK, LogTypeOK
<1> QED
  BY <1>1, <1>2 DEF TrySend

\* A record goes from the channel to the batch.
LEMMA RecvOK ==
    ASSUME NEW D, LogOK(D), Recv
    PROVE  LogOK(D)'
<1> DEFINE h == Head(queue)
<1>1. /\ queue # <<>> /\ writer = "waiting" /\ queue' = Tail(queue)
      /\ buf' = Append(buf, h) /\ stored' = stored /\ lost' = lost
      /\ writer' = IF Len(buf') >= BatchSize THEN "writing" ELSE "waiting"
  BY DEF Recv
<1>2. /\ queue \in Seq(Records) /\ Once(queue) /\ buf \in Seq(Records) /\ Once(buf)
      /\ Len(buf) < BatchSize
  BY <1>1 DEF LogOK, LogTypeOK
<1>3. /\ Once(queue') /\ queue' \in Seq(Records) /\ h \in Records
      /\ Len(queue') = Len(queue) - 1 /\ Len(queue) \in Nat
      /\ ToSet(queue') = ToSet(queue) \ {h} /\ h \in ToSet(queue)
  BY <1>1, <1>2, TailOnce, LenProperties
<1> HIDE DEF h
<1>4. h \notin ToSet(buf)
  BY <1>3 DEF LogOK
<1>5. /\ Once(buf') /\ ToSet(buf') = ToSet(buf) \cup {h} /\ buf' # <<>>
      /\ buf' \in Seq(Records) /\ Len(buf') = Len(buf) + 1 /\ Len(buf) \in Nat
  BY <1>1, <1>2, <1>3, <1>4, AppendOnce, AppendProperties, LenProperties
<1>6. LogTypeOK'
  <2>1. Len(queue') <= ChannelSize /\ Len(buf') <= BatchSize
    BY <1>2, <1>3, <1>5, LogAssumption DEF LogOK, LogTypeOK
  <2>2. writer' \in {"waiting", "writing"} /\ (writer' = "waiting" => Len(buf') < BatchSize)
    BY <1>1, <1>5, LogAssumption
  <2> QED
    BY <1>1, <1>3, <1>5, <2>1, <2>2 DEF LogOK, LogTypeOK
<1> QED
  BY <1>1, <1>3, <1>5, <1>6 DEF LogOK

\* The batch goes into the table, or is lost.
LEMMA InsertedOK ==
    ASSUME NEW D, LogOK(D), Inserted
    PROVE  LogOK(D)'
<1>1. /\ buf' = <<>> /\ queue' = queue
      /\ writer' = IF writer = "writing" THEN "waiting" ELSE "stopped"
      /\ \/ stored' = stored \o buf /\ lost' = lost
         \/ lost' = lost \cup ToSet(buf) /\ stored' = stored
  BY DEF Inserted
<1>2. Once(buf') /\ ToSet(buf') = {} /\ buf' \in Seq(Records) /\ Len(buf') = 0
  BY <1>1, EmptyOnce, EmptySeq
<1>3. /\ Once(stored') /\ stored' \in Seq(Records)
      /\ \/ ToSet(stored') = ToSet(stored) \cup ToSet(buf) /\ lost' = lost
         \/ lost' = lost \cup ToSet(buf) /\ stored' = stored
  <2>1. /\ stored \in Seq(Records) /\ buf \in Seq(Records) /\ Once(stored) /\ Once(buf)
        /\ ToSet(stored) \cap ToSet(buf) = {}
    BY DEF LogOK, LogTypeOK
  <2>2. /\ Once(stored \o buf) /\ stored \o buf \in Seq(Records)
        /\ ToSet(stored \o buf) = ToSet(stored) \cup ToSet(buf)
    BY <2>1, ConcatOnce
  <2>3. CASE stored' = stored \o buf /\ lost' = lost
    BY <2>2, <2>3
  <2>4. CASE lost' = lost \cup ToSet(buf) /\ stored' = stored
    BY <2>1, <2>4
  <2> QED
    BY <1>1, <2>3, <2>4
<1>4. ToSet(buf) \subseteq Records
  <2>1. buf \in Seq(Records)
    BY DEF LogOK, LogTypeOK
  <2>2. DOMAIN buf = 1..Len(buf) /\ \A i \in 1..Len(buf) : buf[i] \in Records
    BY <2>1, ElementOfSeq, LenProperties
  <2> QED
    BY <2>2 DEF ToSet
<1>5. LogTypeOK'
  BY <1>1, <1>2, <1>3, <1>4, LogAssumption DEF LogOK, LogTypeOK
<1>6. queue' = queue /\ ToSet(queue') = ToSet(queue)
  BY <1>1
<1> QED
  BY <1>1, <1>2, <1>3, <1>5, <1>6 DEF LogOK

\* Every step of the writer keeps each record in one place.
LEMMA WriterOK ==
    ASSUME NEW D, LogOK(D), NEW closed \in BOOLEAN, WriterStep(closed)
    PROVE  LogOK(D)'
<1>1. CASE FlushTick
  BY <1>1 DEF FlushTick, LogOK, LogTypeOK
<1>2. CASE Drained(closed)
  BY <1>2 DEF Drained, LogOK, LogTypeOK
<1> QED
  BY <1>1, <1>2, RecvOK, InsertedOK DEF WriterStep
----------------------------------------------------------------------------
(* The line buffer.                                                        *)

\* A set of numbers that is not empty has its greatest.
LEMMA GreatestInRange ==
    ASSUME NEW n \in Nat, NEW I \in SUBSET (1..n), I # {}
    PROVE  Max(I) \in I /\ \A i \in I : i <= Max(I)
<1> DEFINE less == OpToRel(<, Nat)
           J == {n - i : i \in I}
<1>1. IsWellFoundedOn(less, Nat)
  BY NatLessThanWellFounded
<1>0. I \subseteq 1..n /\ \A i \in I : i \in Int /\ i <= n /\ n - i \in Nat
  OBVIOUS
<1>2. J \in SUBSET Nat /\ J # {}
  BY <1>0
<1> HIDE DEF less, J
<1>3. PICK x \in J : \A y \in J : ~ (<<y, x>> \in less)
  BY <1>1, <1>2, WFMin
<1>4. \A y \in J : x <= y
  <2>1. \A y \in J : ~ (y < x)
    BY <1>2, <1>3 DEF less, OpToRel
  <2> QED
    BY <1>2, <2>1
<1>5. PICK m \in I : x = n - m
  BY <1>3 DEF J
<1>6. \A i \in I : n - i \in J
  BY DEF J
<1>7. \A i \in I : m >= i
  <2> SUFFICES ASSUME NEW i \in I PROVE m >= i
    OBVIOUS
  <2>1. n - m <= n - i /\ i \in Int /\ m \in Int
    BY <1>0, <1>4, <1>5, <1>6
  <2> QED
    BY <2>1
<1>8. Max(I) \in I /\ \A i \in I : Max(I) >= i
  BY <1>7 DEF Max
<1>9. Max(I) \in Int /\ \A i \in I : i \in Int
  BY <1>0, <1>8
<1> QED
  BY <1>8, <1>9

\* No newline comes after the last.
LEMMA LastNewlineIsLast ==
    ASSUME NEW S, NEW bytes \in Seq(S)
    PROVE  /\ LastNewline(bytes) \in 0..Len(bytes)
           /\ \A i \in 1..Len(bytes) : IsNewline(bytes[i]) => i <= LastNewline(bytes)
           /\ LastNewline(bytes) # 0 => IsNewline(bytes[LastNewline(bytes)])
<1> DEFINE I == {i \in 1..Len(bytes) : IsNewline(bytes[i])}
<1>1. Len(bytes) \in Nat
  BY LenProperties
<1>2. LastNewline(bytes) = IF I # {} THEN Max(I) ELSE 0
  BY DEF LastNewline, SelectLastInSeq, SelectLastInSubSeq
<1>3. CASE I = {}
  BY <1>1, <1>2, <1>3
<1>4. CASE I # {}
  <2>1. I \in SUBSET (1..Len(bytes))
    OBVIOUS
  <2>2. Max(I) \in I /\ \A i \in I : i <= Max(I)
    <3> HIDE DEF I
    <3> QED
      BY <1>1, <1>4, <2>1, GreatestInRange
  <2> HIDE DEF I
  <2>3. LastNewline(bytes) = Max(I)
    BY <1>2, <1>4
  <2>4. /\ \A i \in 1..Len(bytes) : IsNewline(bytes[i]) => i \in I
        /\ \A i \in I : i \in 1..Len(bytes) /\ IsNewline(bytes[i])
    BY DEF I
  <2>5. Max(I) \in 1..Len(bytes) /\ IsNewline(bytes[Max(I)])
    BY <2>2, <2>4
  <2> QED
    BY <1>1, <2>2, <2>3, <2>4, <2>5
<1> QED
  BY <1>3, <1>4

\* What a chunk leaves in the buffer is the rest of an unfinished line.
LEMMA PushKeeps ==
    ASSUME NEW S, NEW protocol, NEW state, state.carry \in Seq(S), NEW chunk \in Seq(S)
    PROVE  /\ Push(protocol, state, chunk).carry \in Seq(S)
           /\ Len(Push(protocol, state, chunk).carry) <= MaxCarry
           /\ LastNewline(Push(protocol, state, chunk).carry) = 0
<1> DEFINE bytes == state.carry \o chunk
           nl == LastNewline(bytes)
           tail == SubSeq(bytes, nl + 1, Len(bytes))
<1>1. bytes \in Seq(S) /\ Len(bytes) \in Nat
  BY ConcatProperties, LenProperties
<1> HIDE DEF bytes
<1>2. /\ nl \in 0..Len(bytes)
      /\ \A i \in 1..Len(bytes) : IsNewline(bytes[i]) => i <= nl
  BY <1>1, LastNewlineIsLast
<1> HIDE DEF nl
<1>3. /\ tail \in Seq(S) /\ Len(tail) = Len(bytes) - nl
      /\ \A i \in 1..Len(tail) : tail[i] = bytes[nl + i]
  <2>1. \A i \in nl + 1..Len(bytes) : bytes[i] \in S
    BY <1>1, <1>2, ElementOfSeq
  <2>2. /\ tail \in Seq(S)
        /\ Len(tail) = IF nl + 1 <= Len(bytes) THEN Len(bytes) - (nl + 1) + 1 ELSE 0
        /\ \A i \in 1..Len(bytes) - (nl + 1) + 1 : tail[i] = bytes[nl + 1 + i - 1]
    BY <1>1, <1>2, <2>1, SubSeqProperties
  <2> HIDE DEF tail
  <2>3. Len(tail) = Len(bytes) - nl
    BY <1>1, <1>2, <2>2
  <2>4. \A i \in 1..Len(tail) : i \in 1..Len(bytes) - (nl + 1) + 1 /\ nl + 1 + i - 1 = nl + i
    BY <1>1, <1>2, <2>3
  <2> QED
    BY <2>2, <2>3, <2>4
<1> HIDE DEF tail
<1>4. LastNewline(tail) = 0
  <2>1. /\ LastNewline(tail) \in 0..Len(tail)
        /\ LastNewline(tail) # 0 => IsNewline(tail[LastNewline(tail)])
    BY <1>3, LastNewlineIsLast
  <2>2. \A i \in 1..Len(tail) : nl + i \in 1..Len(bytes) /\ ~ (nl + i <= nl)
    BY <1>1, <1>2, <1>3
  <2> QED
    BY <1>2, <1>3, <2>1, <2>2
<1>5. Push(protocol, state, chunk).carry = IF Len(tail) > MaxCarry THEN <<>> ELSE tail
  BY DEF Push, bytes, nl, tail
<1>6. <<>> \in Seq(S) /\ Len(<<>>) = 0 /\ LastNewline(<<>>) = 0
  <2>1. <<>> \in Seq(S) /\ Len(<<>>) = 0
    BY EmptySeq
  <2>2. LastNewline(<<>>) \in 0..Len(<<>>)
    BY <2>1, LastNewlineIsLast
  <2> QED
    BY <2>1, <2>2
<1> QED
  BY <1>1, <1>2, <1>3, <1>4, <1>5, <1>6, ParserAssumption
----------------------------------------------------------------------------
(* Reading a body: the whole of it, and the spans that Push gives to the   *)
(* parsers.                                                                *)

\* A set of numbers that is not empty has its least.
LEMMA LeastExists ==
    ASSUME NEW T \in SUBSET Nat, T # {}
    PROVE  \E x \in T : \A y \in T : x <= y
<1> DEFINE less == OpToRel(<, Nat)
<1>1. IsWellFoundedOn(less, Nat)
  BY NatLessThanWellFounded
<1> HIDE DEF less
<1>2. PICK x \in T : \A y \in T : ~ (<<y, x>> \in less)
  BY <1>1, WFMin
<1>3. \A y \in T : ~ (y < x)
  BY <1>2 DEF less, OpToRel
<1> QED
  BY <1>3

\* A set of numbers that has 0, and with a number the next one, has them all.
LEMMA NumberInduction ==
    ASSUME NEW P, 0 \in P, \A n \in Nat : n \in P => n + 1 \in P
    PROVE  Nat \subseteq P
<1> SUFFICES ASSUME Nat \ P # {} PROVE FALSE
  OBVIOUS
<1>1. PICK x \in Nat \ P : \A y \in Nat \ P : x <= y
  BY LeastExists
<1>2. x # 0 /\ x - 1 \in Nat /\ ~ (x <= x - 1)
  BY <1>1
<1>3. x - 1 \in P
  BY <1>1, <1>2
<1> QED
  BY <1>2, <1>3

\* r lists what a reader of a span has after each of its first n parts.
Lists(protocol, span, n, r) ==
    r = [i \in 0..n |-> IF i = 0 THEN Start ELSE ReadPart(protocol, r[i - 1], span[i])]

LEMMA ListsExist ==
    ASSUME NEW protocol, NEW span, NEW m \in Nat
    PROVE  \E r : Lists(protocol, span, m, r)
<1> DEFINE P == {n \in Nat : \E r : Lists(protocol, span, n, r)}
<1>1. 0 \in P
  <2>1. Lists(protocol, span, 0, [i \in 0..0 |-> Start])
    BY DEF Lists
  <2> QED
    BY <2>1
<1>2. ASSUME NEW n \in Nat, n \in P PROVE n + 1 \in P
  <2>1. PICK r : Lists(protocol, span, n, r)
    BY <1>2
  <2> DEFINE g == [i \in 0..(n + 1) |->
                      IF i = n + 1 THEN ReadPart(protocol, r[n], span[n + 1]) ELSE r[i]]
  <2>2. ASSUME NEW i \in 0..(n + 1)
        PROVE  g[i] = IF i = 0 THEN Start ELSE ReadPart(protocol, g[i - 1], span[i])
    <3>1. CASE i = n + 1
      <4>1. g[i - 1] = r[n] /\ i # 0
        BY <3>1
      <4> QED
        BY <3>1, <4>1
    <3>2. CASE i # n + 1
      <4>1. i \in 0..n /\ g[i] = r[i] /\ (i # 0 => i - 1 \in 0..n /\ g[i - 1] = r[i - 1])
        BY <3>2
      <4>2. r[i] = IF i = 0 THEN Start ELSE ReadPart(protocol, r[i - 1], span[i])
        BY <2>1, <4>1 DEF Lists
      <4> QED
        BY <4>1, <4>2
    <3> QED
      BY <3>1, <3>2
  <2>3. Lists(protocol, span, n + 1, g)
    <3>1. g = [i \in 0..(n + 1) |-> g[i]]
      OBVIOUS
    <3> HIDE DEF g
    <3> QED
      BY <2>2, <3>1 DEF Lists
  <2> HIDE DEF g
  <2> QED
    BY <2>3
<1> HIDE DEF P
<1>3. m \in P
  BY <1>1, <1>2, NumberInduction
<1> QED
  BY <1>3 DEF P

\* What the readings are, one after the other.
LEMMA ReadingsAre ==
    ASSUME NEW S, NEW protocol, NEW span \in Seq(S)
    PROVE  /\ Readings(protocol, span)[0] = Start
           /\ \A i \in 1..Len(span) :
                 Readings(protocol, span)[i]
                   = ReadPart(protocol, Readings(protocol, span)[i - 1], span[i])
<1> DEFINE Is(r) == Lists(protocol, span, Len(span), r)
           R == Readings(protocol, span)
<1>1. Len(span) \in Nat
  BY LenProperties
<1>2. R = CHOOSE r : Is(r)
  BY DEF Readings, Lists
<1>3. \E r : Is(r)
  BY <1>1, ListsExist
<1> HIDE DEF Is, R
<1>4. Is(R)
  BY <1>2, <1>3
<1>5. R = [i \in 0..Len(span) |-> IF i = 0 THEN Start ELSE ReadPart(protocol, R[i - 1], span[i])]
  BY <1>4 DEF Is, Lists
<1>6. ASSUME NEW i \in 0..Len(span)
      PROVE  R[i] = IF i = 0 THEN Start ELSE ReadPart(protocol, R[i - 1], span[i])
  BY ONLY <1>5, <1>6
<1>7. R[0] = Start
  BY <1>1, <1>6
<1>8. ASSUME NEW i \in 1..Len(span) PROVE R[i] = ReadPart(protocol, R[i - 1], span[i])
  <2>1. i \in 0..Len(span) /\ i # 0
    BY <1>1
  <2> QED
    BY <1>6, <2>1
<1> QED
  BY <1>7, <1>8 DEF R

\* Readers of parts that agree read the same.
LEMMA ReadingsAgree ==
    ASSUME NEW S, NEW protocol, NEW a \in Seq(S), NEW b \in Seq(S), NEW m \in Nat,
           m <= Len(a), m <= Len(b), \A i \in 1..m : a[i] = b[i]
    PROVE  Readings(protocol, a)[m] = Readings(protocol, b)[m]
<1> DEFINE A == Readings(protocol, a)
           B == Readings(protocol, b)
           P == {i \in Nat : i <= m => A[i] = B[i]}
<1>1. Len(a) \in Nat /\ Len(b) \in Nat
  BY LenProperties
<1>2. /\ A[0] = Start /\ \A i \in 1..Len(a) : A[i] = ReadPart(protocol, A[i - 1], a[i])
      /\ B[0] = Start /\ \A i \in 1..Len(b) : B[i] = ReadPart(protocol, B[i - 1], b[i])
  BY ReadingsAre
<1> HIDE DEF A, B
<1>3. 0 \in P
  BY <1>2
<1>4. ASSUME NEW i \in Nat, i \in P PROVE i + 1 \in P
  <2> SUFFICES ASSUME i + 1 <= m PROVE A[i + 1] = B[i + 1]
    OBVIOUS
  <2>1. /\ i + 1 \in 1..Len(a) /\ i + 1 \in 1..Len(b) /\ i + 1 \in 1..m
        /\ i <= m /\ (i + 1) - 1 = i
    BY <1>1
  <2>2. A[i] = B[i]
    BY <1>4, <2>1
  <2>3. A[i + 1] = ReadPart(protocol, A[i], a[i + 1]) /\ B[i + 1] = ReadPart(protocol, B[i], b[i + 1])
    BY <1>2, <2>1
  <2> QED
    BY <2>1, <2>2, <2>3
<1> HIDE DEF P
<1>5. m \in P
  BY <1>3, <1>4, NumberInduction
<1> QED
  BY <1>5 DEF P, A, B

\* A reader, with the fields it has.
IsFound(f) == f = [usage |-> f.usage, reason |-> f.reason]
IsReader(r) ==
    r = [text |-> r.text, event |-> r.event, found |-> r.found] /\ IsFound(r.found)

\* Line l is one the parsers look for.
Tells(l) == l.field = "data" /\ (l.usage > 0 \/ l.reason # "")

\* A part that is no newline goes to the text, a newline ends it.
LEMMA ReadPartText ==
    ASSUME NEW protocol, NEW r, IsReader(r), NEW p, ~IsNewline(p)
    PROVE  /\ IsReader(ReadPart(protocol, r, p))
           /\ ReadPart(protocol, r, p).text = Append(r.text, p)
           /\ ReadPart(protocol, r, p).found = r.found
<1>1. ReadPart(protocol, r, p) = [r EXCEPT !.text = Append(@, p)]
  BY DEF ReadPart
<1>2. ReadPart(protocol, r, p) = [text |-> Append(r.text, p), event |-> r.event, found |-> r.found]
  BY <1>1 DEF IsReader
<1> QED
  BY <1>2 DEF IsReader

\* What one finds in a line on its own, after f.
Learned(protocol, f, l) ==
    [usage  |-> UsageOf(f, l),
     reason |-> IF protocol = "responses" THEN LastReason(f, l) ELSE FirstReason(f, l)]

\* How readers are made.
LEMMA ReaderMade ==
    ASSUME NEW r, NEW t, NEW e, NEW f, IsFound(f),
           r = [text |-> t, event |-> e, found |-> f]
    PROVE  IsReader(r) /\ r.text = t /\ r.found = f
  BY DEF IsReader, IsFound

LEMMA LearnedIsFound ==
    ASSUME NEW protocol, NEW f, NEW l
    PROVE  IsFound(Learned(protocol, f, l))
  BY DEF IsFound, Learned

\* A line that tells nothing changes nothing; one that does adds what it tells,
\* in the Responses API if it has completed.
LEMMA ReadFinds ==
    ASSUME NEW protocol, NEW r, IsReader(r),
           Tells(LineOf(r.text)) /\ protocol = "responses" => LineOf(r.text).completed
    PROVE  /\ IsReader(Read(protocol, r))
           /\ Read(protocol, r).text = <<>>
           /\ Read(protocol, r).found
                = IF Tells(LineOf(r.text)) THEN Learned(protocol, r.found, LineOf(r.text))
                  ELSE r.found
<1> DEFINE l == LineOf(r.text)
           f == r.found
<1>0. r = [text |-> r.text, event |-> r.event, found |-> f] /\ f = [usage |-> f.usage, reason |-> f.reason]
  BY DEF IsReader, IsFound
<1>b. IsFound(f)
  BY DEF IsReader
<1>a. r.text = <<>> => l.field # "data" /\ l.field # "event"
  BY DEF LineOf, Fragment
<1> HIDE DEF l
<1>1. CASE protocol # "responses"
  <2>1. Read(protocol, r)
          = [r EXCEPT !.text = <<>>,
                      !.found = IF l.field # "data" THEN @
                                ELSE [usage |-> UsageOf(@, l), reason |-> FirstReason(@, l)]]
    BY <1>1 DEF Read, ReadLine, l
  <2>2. Read(protocol, r)
          = [text |-> <<>>, event |-> r.event,
             found |-> IF l.field # "data" THEN f
                       ELSE [usage |-> UsageOf(f, l), reason |-> FirstReason(f, l)]]
    BY <1>0, <2>1
  <2>3. CASE Tells(l)
    <3>1. Read(protocol, r) = [text |-> <<>>, event |-> r.event, found |-> Learned(protocol, f, l)]
      BY <1>1, <2>2, <2>3 DEF Tells, Learned
    <3> QED
      BY <2>3, <3>1, LearnedIsFound, ReaderMade DEF l
  <2>4. CASE ~Tells(l)
    <3>1. l.field = "data" => UsageOf(f, l) = f.usage /\ FirstReason(f, l) = f.reason
      BY <2>4 DEF Tells, UsageOf, FirstReason
    <3>2. Read(protocol, r) = [text |-> <<>>, event |-> r.event, found |-> f]
      BY <1>0, <2>2, <3>1
    <3> QED
      BY <1>b, <2>4, <3>2, ReaderMade DEF l
  <2> QED
    BY <2>3, <2>4
<1>2. CASE protocol = "responses"
  <2> DEFINE new == [usage |-> UsageOf(f, l), reason |-> LastReason(f, l)]
  <2>1. ReadResponsesLine(r)
         = CASE r.text = <<>> -> [r EXCEPT !.event = FALSE]
             [] l.field = "event" -> [r EXCEPT !.text = <<>>, !.event = l.completed]
             [] l.field = "data" ->
                   [r EXCEPT !.text = <<>>, !.event = FALSE,
                             !.found = IF r.event \/ l.completed THEN new ELSE @]
             [] OTHER -> [r EXCEPT !.text = <<>>]
    BY DEF ReadResponsesLine, l
  <2>2. Read(protocol, r) = ReadResponsesLine(r)
    BY <1>2 DEF Read
  <2>3. CASE l.field # "data"
    <3>1. \E e : Read(protocol, r) = [text |-> <<>>, event |-> e, found |-> f]
      <4>1. CASE r.text = <<>>
        <5>1. Read(protocol, r) = [r EXCEPT !.event = FALSE]
          BY <1>a, <2>1, <2>2, <2>3, <4>1
        <5>2. Read(protocol, r) = [text |-> <<>>, event |-> FALSE, found |-> f]
          BY <1>0, <4>1, <5>1
        <5> QED
          BY <5>2
      <4>2. CASE r.text # <<>> /\ l.field = "event"
        <5>1. Read(protocol, r) = [r EXCEPT !.text = <<>>, !.event = l.completed]
          BY <2>1, <2>2, <4>2
        <5>2. Read(protocol, r) = [text |-> <<>>, event |-> l.completed, found |-> f]
          BY <1>0, <5>1
        <5> QED
          BY <5>2
      <4>3. CASE r.text # <<>> /\ l.field # "event"
        <5>1. Read(protocol, r) = [r EXCEPT !.text = <<>>]
          BY <2>1, <2>2, <2>3, <4>3
        <5>2. Read(protocol, r) = [text |-> <<>>, event |-> r.event, found |-> f]
          BY <1>0, <5>1
        <5> QED
          BY <5>2
      <4> QED
        BY <4>1, <4>2, <4>3
    <3>2. ~Tells(l)
      BY <2>3 DEF Tells
    <3> QED
      BY <1>b, <3>1, <3>2, ReaderMade DEF l
  <2>4. CASE l.field = "data" /\ Tells(l)
    <3>1. l.completed /\ r.text # <<>> /\ l.field # "event"
      BY <1>2, <1>a, <2>4 DEF l
    <3>2. Read(protocol, r) = [r EXCEPT !.text = <<>>, !.event = FALSE, !.found = new]
      BY <2>1, <2>2, <2>4, <3>1
    <3>3. Read(protocol, r) = [text |-> <<>>, event |-> FALSE, found |-> new]
      BY <1>0, <3>2
    <3>4. new = Learned(protocol, f, l)
      BY <1>2 DEF Learned
    <3> HIDE DEF new
    <3> QED
      BY <2>4, <3>3, <3>4, LearnedIsFound, ReaderMade DEF l
  <2>5. CASE l.field = "data" /\ ~Tells(l)
    <3>1. r.text # <<>> /\ l.field # "event"
      BY <1>a, <2>5
    <3>2. new = f
      <4>1. UsageOf(f, l) = f.usage /\ LastReason(f, l) = f.reason
        BY <2>5 DEF Tells, UsageOf, LastReason
      <4> QED
        BY <1>0, <4>1
    <3> HIDE DEF new
    <3>3. Read(protocol, r) = [r EXCEPT !.text = <<>>, !.event = FALSE, !.found = f]
      BY <1>0, <2>1, <2>2, <2>5, <3>1, <3>2
    <3>4. Read(protocol, r) = [text |-> <<>>, event |-> FALSE, found |-> f]
      BY <1>0, <3>3
    <3> QED
      BY <1>b, <2>5, <3>4, ReaderMade DEF l
  <2> QED
    BY <2>3, <2>4, <2>5
<1> QED
  BY <1>1, <1>2

\* A piece of a body.
LEMMA Piece ==
    ASSUME NEW S, NEW body \in Seq(S), NEW c \in Nat, NEW n \in Nat, c <= n, n <= Len(body)
    PROVE  /\ SubSeq(body, c + 1, n) \in Seq(S)
           /\ Len(SubSeq(body, c + 1, n)) = n - c
           /\ \A i \in 1..n - c : SubSeq(body, c + 1, n)[i] = body[c + i]
           /\ DOMAIN SubSeq(body, c + 1, n) = 1..n - c
<1>1. Len(body) \in Nat /\ \A i \in c + 1..n : body[i] \in S
  BY LenProperties, ElementOfSeq
<1> DEFINE p == SubSeq(body, c + 1, n)
<1>2. /\ p \in Seq(S)
      /\ Len(p) = IF c + 1 <= n THEN n - (c + 1) + 1 ELSE 0
      /\ \A i \in 1..n - (c + 1) + 1 : p[i] = body[(c + 1) + i - 1]
  BY <1>1, SubSeqProperties
<1> HIDE DEF p
<1>3. Len(p) = n - c
  BY <1>2
<1>4. ASSUME NEW i \in 1..n - c PROVE p[i] = body[c + i]
  <2>1. i \in 1..n - (c + 1) + 1 /\ (c + 1) + i - 1 = c + i
    OBVIOUS
  <2> QED
    BY <1>2, <2>1
<1>5. DOMAIN p = 1..n - c
  BY <1>2, <1>3, LenProperties
<1> QED
  BY <1>2, <1>3, <1>4, <1>5 DEF p

\* The next part goes to the piece before it.
LEMMA PieceGrows ==
    ASSUME NEW S, NEW body \in Seq(S), NEW c \in Nat, NEW n \in Nat, c <= n, n < Len(body)
    PROVE  Append(SubSeq(body, c + 1, n), body[n + 1]) = SubSeq(body, c + 1, n + 1)
<1> DEFINE p == SubSeq(body, c + 1, n)
           q == SubSeq(body, c + 1, n + 1)
           a == Append(p, body[n + 1])
<1>1. Len(body) \in Nat
  BY LenProperties
<1>2. body[n + 1] \in S /\ n + 1 <= Len(body) /\ n <= Len(body) /\ c <= n + 1
  BY <1>1, ElementOfSeq
<1>3. p \in Seq(S) /\ Len(p) = n - c /\ \A i \in 1..n - c : p[i] = body[c + i]
  BY <1>2, Piece
<1>4. q \in Seq(S) /\ Len(q) = (n + 1) - c /\ \A i \in 1..(n + 1) - c : q[i] = body[c + i]
  BY <1>2, Piece
<1> HIDE DEF p, q
<1>5. /\ a \in Seq(S) /\ Len(a) = Len(p) + 1
      /\ \A i \in 1..Len(p) : a[i] = p[i]
      /\ a[Len(p) + 1] = body[n + 1]
  BY <1>2, <1>3, AppendProperties
<1> HIDE DEF a
<1>6. ASSUME NEW i \in 1..Len(a) PROVE a[i] = q[i]
  <2>1. CASE i = (n + 1) - c
    <3>1. c + i = n + 1 /\ i = Len(p) + 1
      BY <1>3, <2>1
    <3> QED
      BY <1>4, <1>5, <2>1, <3>1
  <2>2. CASE i # (n + 1) - c
    <3>1. i \in 1..n - c /\ i \in 1..(n + 1) - c
      BY <1>3, <1>5, <2>2
    <3> QED
      BY <1>3, <1>4, <1>5, <3>1
  <2> QED
    BY <2>1, <2>2
<1>7. Len(a) = Len(q)
  BY <1>3, <1>4, <1>5
<1>8. a = q
  BY <1>4, <1>5, <1>6, <1>7, SeqEqual
<1> QED
  BY <1>8 DEF a, p, q

\* A piece of a piece is a piece.
LEMMA PieceOfPiece ==
    ASSUME NEW S, NEW body \in Seq(S), NEW c \in Nat, NEW n \in Nat, c <= n, n <= Len(body),
           NEW a \in Nat, NEW b \in Nat, a <= b, c + b <= n
    PROVE  SubSeq(SubSeq(body, c + 1, n), a + 1, b) = SubSeq(body, (c + a) + 1, c + b)
<1> DEFINE p == SubSeq(body, c + 1, n)
           q == SubSeq(p, a + 1, b)
           r == SubSeq(body, (c + a) + 1, c + b)
<1>1. p \in Seq(S) /\ Len(p) = n - c /\ \A i \in 1..n - c : p[i] = body[c + i]
  BY Piece
<1> HIDE DEF p
<1>2. q \in Seq(S) /\ Len(q) = b - a /\ \A i \in 1..b - a : q[i] = p[a + i]
  <2>1. b <= Len(p)
    BY <1>1
  <2> QED
    BY <1>1, <2>1, Piece
<1>3. /\ r \in Seq(S) /\ Len(r) = (c + b) - (c + a)
      /\ \A i \in 1..(c + b) - (c + a) : r[i] = body[(c + a) + i]
  <2>1. c + a \in Nat /\ c + b \in Nat /\ c + a <= c + b /\ c + b <= Len(body)
    BY LenProperties
  <2> QED
    BY <2>1, Piece
<1> HIDE DEF q, r
<1>4. ASSUME NEW i \in 1..Len(q) PROVE q[i] = r[i]
  <2>1. /\ i \in 1..b - a /\ a + i \in 1..n - c /\ i \in 1..(c + b) - (c + a)
        /\ c + (a + i) = (c + a) + i
    BY <1>2
  <2>2. q[i] = p[a + i] /\ p[a + i] = body[c + (a + i)] /\ r[i] = body[(c + a) + i]
    BY <1>1, <1>2, <1>3, <2>1
  <2> QED
    BY <2>1, <2>2
<1>5. Len(q) = Len(r)
  BY <1>2, <1>3
<1>6. q = r
  BY <1>2, <1>3, <1>4, <1>5, SeqEqual
<1> QED
  BY <1>6 DEF p, q, r

\* Position n is in a line that begins after position k.
Begins(body, k, n) ==
    /\ k \in 0..n
    /\ k = 0 \/ IsNewline(body[k])
    /\ \A i \in k + 1..n : ~IsNewline(body[i])

\* What AnyCutReadsTheSame asks of the first n parts of a body.
TellsAt(body, i) == ~IsNewline(body[i]) /\ Tells(body[i].line)
Clear(protocol, body, n) ==
    /\ \A i \in 1..n : ~IsNewline(body[i]) =>
          /\ body[i].line.field # "binary"
          /\ Inside(body[i]) => body[i].part <= MaxCarry + 1
    /\ \A i \in 1..n : TellsAt(body, i) =>
          /\ body[i].line.length <= MaxCarry
          /\ protocol = "responses" => body[i].line.completed
    /\ \A i, j \in 1..n :
          /\ TellsAt(body, i) /\ body[i].line.reason # ""
          /\ TellsAt(body, j) /\ body[j].line.reason # ""
          => body[i].line.reason = body[j].line.reason

\* A reason that stands in the first n parts, or none.
Stands(body, n, reason) ==
    reason = "" \/ \E i \in 1..n : TellsAt(body, i) /\ body[i].line.reason = reason

\* Position c is in the line that n is in, or at its beginning; what is read
\* from there is either all of the line, or a rest after more than fits.
Within(body, k, c, n) == Begins(body, k, n) /\ c \in k..n
Rest(body, k, c, n) == Within(body, k, c, n) /\ (c = k \/ c - k > MaxCarry)

\* The text of what is read from there.
TextFrom(body, c, n, text) == text = SubSeq(body, c + 1, n)

\* Where a part stands in its line.
LEMMA PartIs ==
    ASSUME NEW S, NEW body \in Seq(S), NEW i \in 1..Len(body), NEW k, NEW j \in Nat, i <= j,
           InLines(body), Begins(body, k, j), i > k
    PROVE  /\ k \in Nat /\ ~IsNewline(body[i]) /\ body[i].part = i - k
           /\ body[i].line.length \in Nat /\ i - k <= body[i].line.length
           /\ body[i].line.inside \subseteq 2..body[i].line.length
           /\ body[i].line = body[k + 1].line
<1>1. DOMAIN body = 1..Len(body) /\ Len(body) \in Nat
  BY LenProperties
<1>2. k \in Nat /\ i \in k + 1..j /\ ~IsNewline(body[i])
  BY <1>1 DEF Begins
<1>3. PICK q : q = i - body[i].part
  OBVIOUS
<1>4. /\ body[i].line.length \in Nat /\ body[i].line.inside \subseteq 2..body[i].line.length
      /\ body[i].part \in 1..body[i].line.length /\ q \in Nat
      /\ q = 0 \/ IsNewline(body[q])
      /\ \A m \in q + 1..i : ~IsNewline(body[m])
      /\ body[i].line = body[q + 1].line
  BY <1>1, <1>2, <1>3 DEF InLines
<1>5. q <= k
  <2> SUFFICES ASSUME q > k PROVE FALSE
    BY <1>2, <1>4
  <2>1. q \in k + 1..j /\ q # 0
    BY <1>2, <1>3, <1>4
  <2> QED
    BY <1>4, <2>1 DEF Begins
<1>6. k <= q
  <2> SUFFICES ASSUME k > q PROVE FALSE
    BY <1>2, <1>4
  <2>1. k \in q + 1..i /\ k # 0
    BY <1>2, <1>4
  <2> QED
    BY <1>4, <2>1 DEF Begins
<1>7. q = k
  BY <1>2, <1>4, <1>5, <1>6
<1> QED
  BY <1>2, <1>3, <1>4, <1>7

\* A rest of a line that tells something is the line, and it fits.
LEMMA RestTells ==
    ASSUME NEW S, NEW body \in Seq(S), NEW protocol, NEW n \in Nat, NEW i \in Nat,
           NEW k, NEW c, NEW text,
           InLines(body), n <= Len(body), Clear(protocol, body, n), i <= n,
           Within(body, k, c, i), TextFrom(body, c, i, text), Tells(LineOf(text))
    PROVE  /\ c = k /\ i - k <= MaxCarry
           /\ c + 1 \in 1..n /\ TellsAt(body, c + 1)
           /\ LineOf(text) = body[c + 1].line
<1>1. /\ k \in 0..i /\ k \in Nat /\ c \in Nat /\ i \in Nat /\ c <= i /\ i <= Len(body) /\ k <= c
      /\ Begins(body, k, i)
  BY LenProperties DEF Within, Begins
<1>2. text \in Seq(S) /\ Len(text) = i - c /\ \A j \in 1..i - c : text[j] = body[c + j]
  BY <1>1, Piece DEF TextFrom
<1>3. LineOf(text) # Fragment
  <2>1. Fragment.field # "data"
    BY DEF Fragment
  <2> QED
    BY <2>1 DEF Tells
<1>4. text # <<>> /\ text[1].part = 1 /\ Len(text) = text[1].line.length /\ LineOf(text) = text[1].line
  BY <1>3 DEF LineOf
<1>5. i - c > 0 /\ 1 \in 1..i - c
  BY <1>1, <1>2, <1>4, EmptySeq
<1>6. text[1] = body[c + 1] /\ c + 1 \in 1..Len(body) /\ c + 1 \in 1..n /\ c + 1 \in k + 1..i
  BY <1>1, <1>2, <1>5, LenProperties
<1>7. body[c + 1].part = (c + 1) - k
  BY <1>1, <1>6, PartIs
<1>8. c = k
  BY <1>1, <1>4, <1>6, <1>7
<1>9. ~IsNewline(body[c + 1])
  BY <1>1, <1>6 DEF Begins
<1>10. TellsAt(body, c + 1)
  BY <1>4, <1>6, <1>9 DEF TellsAt
<1>11. body[c + 1].line.length <= MaxCarry
  BY <1>6, <1>10 DEF Clear
<1>12. i - c <= MaxCarry
  BY <1>2, <1>4, <1>6, <1>11
<1> QED
  BY <1>4, <1>6, <1>8, <1>10, <1>12

\* A reader that has read the line from position c on, up to n.
ReadsFrom(body, c, n, r) == IsReader(r) /\ r.text = SubSeq(body, c + 1, n)

\* What w has found is what v has found, after f was.
AddsUp(w, f, v) == w.found = Found(f, v.found)

\* The fields of what is found.
LEMMA LearnedFields ==
    ASSUME NEW protocol, NEW f, NEW l
    PROVE  /\ Learned(protocol, f, l).usage = UsageOf(f, l)
           /\ Learned(protocol, f, l).reason
                = IF protocol = "responses" THEN LastReason(f, l) ELSE FirstReason(f, l)
  BY DEF Learned

LEMMA FoundFields ==
    ASSUME NEW old, NEW new
    PROVE  /\ Found(old, new).usage = IF new.usage > 0 THEN new.usage ELSE old.usage
           /\ Found(old, new).reason = IF new.reason # "" THEN new.reason ELSE old.reason
  BY DEF Found

\* Two readers at position i, in a line that begins after k: w has read the
\* whole body, v from position c of the line on, when f had been found.
SideBySide(protocol, body, n, i, k, c, w, f, v) ==
    /\ InLines(body) /\ n <= Len(body) /\ Clear(protocol, body, n) /\ i \in 0..n
    /\ Rest(body, k, c, i)
    /\ ReadsFrom(body, k, i, w) /\ Stands(body, n, w.found.reason)
    /\ ReadsFrom(body, c, i, v)
    /\ AddsUp(w, f, v)

\* A newline is read by both in the same way.
LEMMA BothRead ==
    ASSUME NEW S, NEW body \in Seq(S), NEW protocol, NEW n \in Nat, NEW i,
           NEW k, NEW c, NEW w, NEW f, NEW v, SideBySide(protocol, body, n, i, k, c, w, f, v)
    PROVE  /\ IsReader(Read(protocol, w)) /\ Read(protocol, w).text = <<>>
           /\ Stands(body, n, Read(protocol, w).found.reason)
           /\ IsReader(Read(protocol, v)) /\ Read(protocol, v).text = <<>>
           /\ AddsUp(Read(protocol, w), f, Read(protocol, v))
<1>z. /\ InLines(body) /\ n <= Len(body) /\ Clear(protocol, body, n) /\ i \in 0..n
      /\ Rest(body, k, c, i) /\ i \in Nat /\ i <= n
      /\ ReadsFrom(body, k, i, w) /\ Stands(body, n, w.found.reason)
      /\ ReadsFrom(body, c, i, v) /\ AddsUp(w, f, v)
  BY DEF SideBySide
<1>0. w.found = Found(f, v.found)
  BY <1>z DEF AddsUp
<1> DEFINE r == Read(protocol, w)
           u == Read(protocol, v)
           l == LineOf(w.text)
           m == LineOf(v.text)
<1>1. Within(body, k, c, i) /\ Within(body, k, k, i) /\ (c = k \/ c - k > MaxCarry)
  BY <1>z DEF Rest, Within, Begins
<1>a. c \in k..i /\ k \in 0..i /\ i \in Nat
  BY <1>z DEF Rest, Within, Begins
<1>2. Tells(l) => /\ i - k <= MaxCarry /\ k + 1 \in 1..n /\ TellsAt(body, k + 1)
                  /\ l = body[k + 1].line
  <2>1. PICK text : text = w.text /\ text = SubSeq(body, k + 1, i)
    BY <1>z DEF ReadsFrom
  <2>2. TextFrom(body, k, i, text) /\ l = LineOf(text)
    BY <2>1 DEF TextFrom
  <2> HIDE DEF l, m, r, u
  <2>3. ASSUME Tells(LineOf(text))
        PROVE  /\ i - k <= MaxCarry /\ k + 1 \in 1..n /\ TellsAt(body, k + 1)
                      /\ LineOf(text) = body[k + 1].line
    BY <1>1, <1>z, <2>2, <2>3, RestTells
  <2> QED
    BY <2>2, <2>3
<1>3. Tells(m) => /\ c = k /\ i - k <= MaxCarry /\ c + 1 \in 1..n /\ TellsAt(body, c + 1)
                  /\ m = body[c + 1].line
  <2>1. PICK text : text = v.text /\ text = SubSeq(body, c + 1, i)
    BY <1>z DEF ReadsFrom
  <2>2. TextFrom(body, c, i, text) /\ m = LineOf(text)
    BY <2>1 DEF TextFrom
  <2> HIDE DEF l, m, r, u
  <2>3. ASSUME Tells(LineOf(text))
        PROVE  /\ c = k /\ i - k <= MaxCarry /\ c + 1 \in 1..n /\ TellsAt(body, c + 1)
                      /\ LineOf(text) = body[c + 1].line
    BY <1>1, <1>z, <2>2, <2>3, RestTells
  <2> QED
    BY <2>2, <2>3
<1>4. c # k => ~Tells(l) /\ ~Tells(m)
  BY <1>1, <1>a, <1>2, <1>3, ParserAssumption
<1>5. c = k => l = m
  BY <1>z DEF ReadsFrom
<1> HIDE DEF l, m
<1>6. Tells(l) /\ protocol = "responses" => l.completed
  BY <1>2, <1>z DEF Clear
<1>7. Tells(m) /\ protocol = "responses" => m.completed
  BY <1>3, <1>z DEF Clear
<1>8. /\ IsReader(r) /\ r.text = <<>>
      /\ r.found = IF Tells(l) THEN Learned(protocol, w.found, l) ELSE w.found
  BY <1>6, <1>z, ReadFinds DEF l, ReadsFrom
<1>9. /\ IsReader(u) /\ u.text = <<>>
      /\ u.found = IF Tells(m) THEN Learned(protocol, v.found, m) ELSE v.found
  BY <1>7, <1>z, ReadFinds DEF m, ReadsFrom
<1> HIDE DEF r, u
<1>10. CASE ~Tells(l)
  <2>1. ~Tells(m)
    BY <1>4, <1>5, <1>10
  <2> QED
    BY <1>0, <1>8, <1>9, <1>10, <1>z, <2>1 DEF r, u, AddsUp
<1>11. CASE Tells(l)
  <2>1. m = l /\ Tells(m)
    BY <1>4, <1>5, <1>11
  <2>2. r.found = Learned(protocol, w.found, l) /\ u.found = Learned(protocol, v.found, l)
    BY <1>8, <1>9, <1>11, <2>1
  <2>a. /\ r.found.usage = UsageOf(w.found, l)
        /\ r.found.reason = IF protocol = "responses" THEN LastReason(w.found, l)
                            ELSE FirstReason(w.found, l)
    <3>1. /\ Learned(protocol, w.found, l).usage = UsageOf(w.found, l)
          /\ Learned(protocol, w.found, l).reason
               = IF protocol = "responses" THEN LastReason(w.found, l)
                 ELSE FirstReason(w.found, l)
      BY LearnedFields
    <3> QED
      BY <2>2, <3>1
  <2>b. /\ u.found.usage = UsageOf(v.found, l)
        /\ u.found.reason = IF protocol = "responses" THEN LastReason(v.found, l)
                            ELSE FirstReason(v.found, l)
    <3>1. /\ Learned(protocol, v.found, l).usage = UsageOf(v.found, l)
          /\ Learned(protocol, v.found, l).reason
               = IF protocol = "responses" THEN LastReason(v.found, l)
                 ELSE FirstReason(v.found, l)
      BY LearnedFields
    <3> QED
      BY <2>2, <3>1
  <2>3. r.found.reason = w.found.reason \/ r.found.reason = l.reason
    BY <2>a DEF LastReason, FirstReason
  <2>4. Stands(body, n, l.reason)
    BY <1>2, <1>11 DEF Stands
  <2>5. Stands(body, n, r.found.reason)
    BY <1>z, <2>3, <2>4
  <2>6. w.found.reason # "" /\ l.reason # "" => w.found.reason = l.reason
    <3> SUFFICES ASSUME w.found.reason # "", l.reason # "" PROVE w.found.reason = l.reason
      OBVIOUS
    <3>1. PICK j \in 1..n : TellsAt(body, j) /\ body[j].line.reason = w.found.reason
      BY <1>z DEF Stands
    <3>2. k + 1 \in 1..n /\ TellsAt(body, k + 1) /\ body[k + 1].line.reason = l.reason
      BY <1>2, <1>11
    <3> QED
      BY <1>z, <3>1, <3>2 DEF Clear
  <2>7. /\ w.found.usage = IF v.found.usage > 0 THEN v.found.usage ELSE f.usage
        /\ w.found.reason = IF v.found.reason # "" THEN v.found.reason ELSE f.reason
    <3>1. /\ Found(f, v.found).usage = IF v.found.usage > 0 THEN v.found.usage ELSE f.usage
          /\ Found(f, v.found).reason = IF v.found.reason # "" THEN v.found.reason ELSE f.reason
      BY FoundFields
    <3> QED
      BY <1>0, <3>1
  <2>8. r.found.usage = IF u.found.usage > 0 THEN u.found.usage ELSE f.usage
    <3>1. /\ r.found.usage = IF l.usage > 0 THEN l.usage ELSE w.found.usage
          /\ u.found.usage = IF l.usage > 0 THEN l.usage ELSE v.found.usage
      BY <2>a, <2>b DEF UsageOf
    <3> QED
      BY <2>7, <3>1
  <2>9. r.found.reason = IF u.found.reason # "" THEN u.found.reason ELSE f.reason
    <3>1. CASE protocol = "responses"
      <4>1. /\ r.found.reason = IF l.reason = "" THEN w.found.reason ELSE l.reason
            /\ u.found.reason = IF l.reason = "" THEN v.found.reason ELSE l.reason
        BY <2>a, <2>b, <3>1 DEF LastReason
      <4> QED
        BY <2>7, <4>1
    <3>2. CASE protocol # "responses"
      <4>1. /\ r.found.reason = IF w.found.reason = "" THEN l.reason ELSE w.found.reason
            /\ u.found.reason = IF v.found.reason = "" THEN l.reason ELSE v.found.reason
        BY <2>a, <2>b, <3>2 DEF FirstReason
      <4> QED
        BY <2>6, <2>7, <4>1
    <3> QED
      BY <3>1, <3>2
  <2>10. IsFound(r.found)
    BY <1>8 DEF IsReader
  <2>11. r.found = Found(f, u.found)
    BY <2>8, <2>9, <2>10 DEF Found, IsFound
  <2> QED
    BY <1>8, <1>9, <2>5, <2>11 DEF r, u, AddsUp
<1> QED
  BY <1>10, <1>11

\* A line goes on, or the next one begins.
LEMMA BeginsNext ==
    ASSUME NEW body, NEW k, NEW i \in Nat, Begins(body, k, i)
    PROVE  /\ ~IsNewline(body[i + 1]) => Begins(body, k, i + 1)
           /\ IsNewline(body[i + 1]) => Begins(body, i + 1, i + 1)
<1>1. ASSUME ~IsNewline(body[i + 1]) PROVE Begins(body, k, i + 1)
  <2>1. k \in 0..i + 1 /\ \A j \in k + 1..i + 1 : j = i + 1 \/ j \in k + 1..i
    BY DEF Begins
  <2> QED
    BY <1>1, <2>1 DEF Begins
<1>2. ASSUME IsNewline(body[i + 1]) PROVE Begins(body, i + 1, i + 1)
  BY <1>2 DEF Begins
<1> QED
  BY <1>1, <1>2

LEMMA BeginsOnce ==
    ASSUME NEW body, NEW k, NEW m, NEW i \in Nat, Begins(body, k, i), Begins(body, m, i)
    PROVE  k = m
<1>1. k \in 0..i /\ m \in 0..i
  BY DEF Begins
<1>2. ~ (k < m)
  <2> SUFFICES ASSUME k < m PROVE FALSE
    OBVIOUS
  <2>1. m \in k + 1..i /\ m # 0
    BY <1>1
  <2> QED
    BY <2>1 DEF Begins
<1>3. ~ (m < k)
  <2> SUFFICES ASSUME m < k PROVE FALSE
    OBVIOUS
  <2>1. k \in m + 1..i /\ k # 0
    BY <1>1
  <2> QED
    BY <2>1 DEF Begins
<1> QED
  BY <1>1, <1>2, <1>3

\* A reader finds the same when it is added to itself, or to nothing.
LEMMA FoundSame ==
    ASSUME NEW f, IsFound(f)
    PROVE  Found(f, f) = f /\ Found(f, Nothing) = f
<1>1. Nothing.usage = 0 /\ Nothing.reason = "" /\ ~ (0 > 0)
  BY DEF Nothing
<1>2. f = [usage |-> f.usage, reason |-> f.reason]
  BY DEF IsFound
<1>3. Found(f, f) = [usage |-> f.usage, reason |-> f.reason]
  BY DEF Found
<1>4. Found(f, Nothing) = [usage |-> f.usage, reason |-> f.reason]
  BY <1>1 DEF Found
<1> QED
  BY <1>2, <1>3, <1>4

\* What is true of the reader w of a whole body after i of its parts, in a line
\* that begins after k.
WholeAt(body, n, k, i, w, found) ==
    /\ Begins(body, k, i)
    /\ ReadsFrom(body, k, i, w)
    /\ Stands(body, n, w.found.reason)
    /\ w.found = found

\* The reader of a whole body has the text of the line it is in, and has found
\* nothing since that line began.
LEMMA WholeRead ==
    ASSUME NEW S, NEW body \in Seq(S), NEW protocol, NEW n \in Nat, NEW m \in Nat,
           InLines(body), n <= Len(body), Clear(protocol, body, n), m <= n
    PROVE  LET W == Readings(protocol, body)
           IN  \E k : WholeAt(body, n, k, m, W[m], W[k].found)
<1> DEFINE W == Readings(protocol, body)
           P == {i \in Nat : i <= n => \E k : WholeAt(body, n, k, i, W[i], W[k].found)}
<1>1. W[0] = Start /\ \A i \in 1..Len(body) : W[i] = ReadPart(protocol, W[i - 1], body[i])
  BY ReadingsAre
<1>2. Len(body) \in Nat
  BY LenProperties
<1> HIDE DEF W
<1>3. 0 \in P
  <2>1. IsReader(Start) /\ Start.text = <<>> /\ Start.found.reason = ""
    <3>1. Nothing.reason = "" /\ Nothing = [usage |-> Nothing.usage, reason |-> Nothing.reason]
      BY DEF Nothing
    <3>2. Start.found = Nothing /\ Start.text = <<>>
          /\ Start = [text |-> Start.text, event |-> Start.event, found |-> Start.found]
      BY DEF Start
    <3> QED
      BY <3>1, <3>2 DEF IsReader, IsFound
  <2>2. SubSeq(body, 0 + 1, 0) = <<>>
    BY SubSeqEmpty
  <2>3. ReadsFrom(body, 0, 0, Start)
    BY <2>1, <2>2 DEF ReadsFrom
  <2>4. Begins(body, 0, 0) /\ Stands(body, n, Start.found.reason)
    <3>1. Begins(body, 0, 0) /\ Stands(body, n, "")
      BY DEF Begins, Stands
    <3> QED
      BY <2>1, <3>1
  <2>5. WholeAt(body, n, 0, 0, W[0], W[0].found)
    BY <1>1, <2>3, <2>4 DEF WholeAt
  <2> QED
    BY <2>5
<1>4. ASSUME NEW i \in Nat, i \in P PROVE i + 1 \in P
  <2> SUFFICES ASSUME i + 1 <= n
               PROVE  \E k : WholeAt(body, n, k, i + 1, W[i + 1], W[k].found)
    OBVIOUS
  <2>1. /\ i + 1 \in 1..Len(body) /\ i < Len(body) /\ i <= n /\ (i + 1) - 1 = i
    BY <1>2
  <2>2. PICK k : WholeAt(body, n, k, i, W[i], W[k].found)
    BY <1>4, <2>1
  <2>3. PICK w : w = W[i]
    OBVIOUS
  <2>4. /\ Begins(body, k, i) /\ k \in 0..i /\ k \in Nat /\ k <= i
        /\ ReadsFrom(body, k, i, w) /\ IsReader(w) /\ w.text = SubSeq(body, k + 1, i)
        /\ Stands(body, n, w.found.reason) /\ w.found = W[k].found
    BY <2>2, <2>3 DEF WholeAt, Begins, ReadsFrom
  <2>5. W[i + 1] = ReadPart(protocol, w, body[i + 1])
    BY <1>1, <2>1, <2>3
  <2>6. CASE ~IsNewline(body[i + 1])
    <3>0. PICK p, r : p = body[i + 1] /\ r = ReadPart(protocol, w, p) /\ r = W[i + 1]
      BY <2>5
    <3>a. IsReader(w) /\ ~IsNewline(p)
      BY <2>4, <2>6, <3>0
    <3>1. IsReader(r) /\ r.text = Append(w.text, p) /\ r.found = w.found
      <4>1. /\ IsReader(ReadPart(protocol, w, p))
            /\ ReadPart(protocol, w, p).text = Append(w.text, p)
            /\ ReadPart(protocol, w, p).found = w.found
        BY <3>a, ReadPartText
      <4> QED
        BY <3>0, <4>1
    <3>2. r.text = SubSeq(body, k + 1, i + 1)
      BY <2>1, <2>4, <3>0, <3>1, PieceGrows
    <3>3. Begins(body, k, i + 1)
      BY <2>4, <2>6, BeginsNext
    <3>4. WholeAt(body, n, k, i + 1, r, W[k].found)
      BY <2>4, <3>1, <3>2, <3>3 DEF WholeAt, ReadsFrom
    <3> QED
      BY <3>0, <3>4
  <2>7. CASE IsNewline(body[i + 1])
    <3>1. W[i + 1] = Read(protocol, w)
      BY <2>5, <2>7 DEF ReadPart
    <3>2. PICK f : f = w.found /\ Rest(body, k, k, i) /\ AddsUp(w, f, w)
      BY <2>4, FoundSame DEF Rest, Within, IsReader, AddsUp
    <3>3. SideBySide(protocol, body, n, i, k, k, w, f, w)
      BY <2>1, <2>4, <3>2 DEF SideBySide
    <3>5. PICK r : r = Read(protocol, w)
      OBVIOUS
    <3>6. IsReader(r) /\ r.text = <<>> /\ Stands(body, n, r.found.reason)
      <4>1. /\ IsReader(Read(protocol, w)) /\ Read(protocol, w).text = <<>>
            /\ Stands(body, n, Read(protocol, w).found.reason)
            /\ AddsUp(Read(protocol, w), f, Read(protocol, w))
        BY <3>3, BothRead
      <4> QED
        BY <3>5, <4>1
    <3>7. Begins(body, i + 1, i + 1) /\ SubSeq(body, (i + 1) + 1, i + 1) = <<>>
      <4>1. i + 1 \in Int /\ (i + 1) + 1 \in Int /\ i + 1 < (i + 1) + 1
        OBVIOUS
      <4> QED
        BY <2>4, <2>7, <4>1, BeginsNext, SubSeqEmpty
    <3>8. WholeAt(body, n, i + 1, i + 1, r, r.found)
      BY <3>6, <3>7 DEF WholeAt, ReadsFrom
    <3> QED
      BY <3>1, <3>5, <3>8
  <2> QED
    BY <2>6, <2>7
<1> HIDE DEF P
<1>5. m \in P
  BY <1>3, <1>4, NumberInduction
<1> QED
  BY <1>5 DEF P, W

\* Both read the next part.
LEMMA BothGoOn ==
    ASSUME NEW S, NEW body \in Seq(S), NEW protocol, NEW n \in Nat, NEW i \in Nat,
           NEW k, NEW c, NEW w, NEW f, NEW v, SideBySide(protocol, body, n, i, k, c, w, f, v),
           i + 1 <= n
    PROVE  \E q, d : SideBySide(protocol, body, n, i + 1, q, d,
                                ReadPart(protocol, w, body[i + 1]), f,
                                ReadPart(protocol, v, body[i + 1]))
<1>1. /\ InLines(body) /\ n <= Len(body) /\ Clear(protocol, body, n)
      /\ Begins(body, k, i) /\ c \in k..i /\ (c = k \/ c - k > MaxCarry)
      /\ ReadsFrom(body, k, i, w) /\ Stands(body, n, w.found.reason)
      /\ ReadsFrom(body, c, i, v) /\ w.found = Found(f, v.found)
  BY DEF SideBySide, Rest, Within, AddsUp
<1>2. /\ Len(body) \in Nat /\ i < Len(body) /\ i + 1 \in 0..n /\ k \in 0..i /\ k \in Nat /\ k <= i
      /\ c \in Nat /\ c <= i /\ c \in k..i + 1
  BY <1>1, LenProperties DEF Begins
<1>3. PICK p, r, u : p = body[i + 1] /\ r = ReadPart(protocol, w, p) /\ u = ReadPart(protocol, v, p)
  OBVIOUS
<1>4. CASE ~IsNewline(p)
  <2>1. IsReader(r) /\ r.text = Append(w.text, p) /\ r.found = w.found
    <3>0. IsReader(w)
      BY <1>1 DEF ReadsFrom
    <3>1. /\ IsReader(ReadPart(protocol, w, p))
          /\ ReadPart(protocol, w, p).text = Append(w.text, p)
          /\ ReadPart(protocol, w, p).found = w.found
      BY <1>4, <3>0, ReadPartText
    <3> QED
      BY <1>3, <3>1
  <2>2. IsReader(u) /\ u.text = Append(v.text, p) /\ u.found = v.found
    <3>0. IsReader(v)
      BY <1>1 DEF ReadsFrom
    <3>1. /\ IsReader(ReadPart(protocol, v, p))
          /\ ReadPart(protocol, v, p).text = Append(v.text, p)
          /\ ReadPart(protocol, v, p).found = v.found
      BY <1>4, <3>0, ReadPartText
    <3> QED
      BY <1>3, <3>1
  <2>3. r.text = SubSeq(body, k + 1, i + 1)
    <3>1. Append(SubSeq(body, k + 1, i), body[i + 1]) = SubSeq(body, k + 1, i + 1)
      BY <1>2, PieceGrows
    <3> QED
      BY <1>1, <1>3, <2>1, <3>1 DEF ReadsFrom
  <2>4. u.text = SubSeq(body, c + 1, i + 1)
    <3>1. Append(SubSeq(body, c + 1, i), body[i + 1]) = SubSeq(body, c + 1, i + 1)
      BY <1>2, PieceGrows
    <3> QED
      BY <1>1, <1>3, <2>2, <3>1 DEF ReadsFrom
  <2>5. Begins(body, k, i + 1)
    BY <1>1, <1>3, <1>4, BeginsNext
  <2>6. Rest(body, k, c, i + 1)
    BY <1>1, <1>2, <2>5 DEF Rest, Within
  <2>7. SideBySide(protocol, body, n, i + 1, k, c, r, f, u)
    BY <1>1, <1>2, <2>1, <2>2, <2>3, <2>4, <2>6 DEF SideBySide, ReadsFrom, AddsUp
  <2> QED
    BY <1>3, <2>7
<1>5. CASE IsNewline(p)
  <2>1. r = Read(protocol, w) /\ u = Read(protocol, v)
    BY <1>3, <1>5 DEF ReadPart
  <2>2. /\ IsReader(r) /\ r.text = <<>> /\ Stands(body, n, r.found.reason)
        /\ IsReader(u) /\ u.text = <<>> /\ AddsUp(r, f, u)
    <3>1. /\ IsReader(Read(protocol, w)) /\ Read(protocol, w).text = <<>>
          /\ Stands(body, n, Read(protocol, w).found.reason)
          /\ IsReader(Read(protocol, v)) /\ Read(protocol, v).text = <<>>
          /\ AddsUp(Read(protocol, w), f, Read(protocol, v))
      BY BothRead
    <3> QED
      BY <2>1, <3>1
  <2>3. Begins(body, i + 1, i + 1)
    BY <1>1, <1>3, <1>5, BeginsNext
  <2>4. Rest(body, i + 1, i + 1, i + 1)
    BY <2>3 DEF Rest, Within
  <2>5. SubSeq(body, (i + 1) + 1, i + 1) = <<>>
    <3>1. i + 1 \in Int /\ (i + 1) + 1 \in Int /\ i + 1 < (i + 1) + 1
      OBVIOUS
    <3> QED
      BY <3>1, SubSeqEmpty
  <2>6. SideBySide(protocol, body, n, i + 1, i + 1, i + 1, r, f, u)
    BY <1>1, <1>2, <2>2, <2>4, <2>5 DEF SideBySide, ReadsFrom
  <2> QED
    BY <1>3, <2>6
<1> QED
  BY <1>4, <1>5

\* A body whose first n parts are clear.
Readable(protocol, body, n) ==
    InLines(body) /\ n \in 0..Len(body) /\ Clear(protocol, body, n)

\* A line that position n is in was begun at any position of it.
LEMMA BeginsBefore ==
    ASSUME NEW body, NEW k, NEW n \in Nat, NEW c, Begins(body, k, n), c \in k..n
    PROVE  Begins(body, k, c)
  BY DEF Begins

\* The reader of the whole body, in a line that begins after k.
LEMMA WholeIs ==
    ASSUME NEW S, NEW body \in Seq(S), NEW protocol, NEW n, NEW m, NEW k,
           Readable(protocol, body, n), m \in 0..n, Begins(body, k, m)
    PROVE  WholeAt(body, n, k, m, Readings(protocol, body)[m], Readings(protocol, body)[k].found)
<1>1. /\ n \in Nat /\ m \in Nat /\ m <= n /\ n <= Len(body)
      /\ InLines(body) /\ Clear(protocol, body, n)
  BY LenProperties DEF Readable
<1> DEFINE W == Readings(protocol, body)
<1>2. PICK q : WholeAt(body, n, q, m, W[m], W[q].found)
  BY <1>1, WholeRead
<1> HIDE DEF W
<1>3. q = k
  BY <1>1, <1>2, BeginsOnce DEF WholeAt
<1> QED
  BY <1>2, <1>3 DEF W

\* From a position in a line, with all of it or a rest that tells nothing, to
\* another position: the reader of the span goes along with that of the body.
LEMMA SpanRead ==
    ASSUME NEW S, NEW body \in Seq(S), NEW protocol, NEW n, NEW k, NEW c, NEW m,
           Readable(protocol, body, n), Rest(body, k, c, c), c \in Nat, m \in c..n
    PROVE  \E q, d : SideBySide(protocol, body, n, m, q, d,
                                Readings(protocol, body)[m], Readings(protocol, body)[c].found,
                                Readings(protocol, SubSeq(body, c + 1, m))[m - c])
<1> DEFINE s == SubSeq(body, c + 1, m)
           W == Readings(protocol, body)
           V == Readings(protocol, s)
           f == W[c].found
           P == {j \in Nat : c + j <= m =>
                    \E q, d : SideBySide(protocol, body, n, c + j, q, d, W[c + j], f, V[j])}
<1>1. /\ n \in Nat /\ c \in Nat /\ m \in Nat /\ c <= m /\ m <= n /\ n <= Len(body)
      /\ InLines(body) /\ Clear(protocol, body, n) /\ Len(body) \in Nat
      /\ c \in 0..n
  BY LenProperties DEF Readable
<1>2. s \in Seq(S) /\ Len(s) = m - c /\ \A j \in 1..m - c : s[j] = body[c + j]
  <2>1. c \in Nat /\ m \in Nat /\ c <= m /\ m <= Len(body)
    BY <1>1
  <2> QED
    BY <2>1, Piece
<1> HIDE DEF s
<1>3. /\ V[0] = Start /\ \A j \in 1..Len(s) : V[j] = ReadPart(protocol, V[j - 1], s[j])
      /\ \A j \in 1..Len(body) : W[j] = ReadPart(protocol, W[j - 1], body[j])
  BY <1>2, ReadingsAre
<1>4. /\ ReadsFrom(body, k, c, W[c]) /\ Stands(body, n, W[c].found.reason)
  <2>1. WholeAt(body, n, k, c, W[c], W[k].found)
    BY <1>1, WholeIs DEF Rest, Within
  <2> QED
    BY <2>1 DEF WholeAt
<1> HIDE DEF W, V
<1>5. 0 \in P
  <2>1. ReadsFrom(body, c, c, Start)
    <3>1. Nothing = [usage |-> Nothing.usage, reason |-> Nothing.reason]
      BY DEF Nothing
    <3>2. /\ Start.found = Nothing /\ Start.text = <<>>
          /\ Start = [text |-> Start.text, event |-> Start.event, found |-> Start.found]
      BY DEF Start
    <3>3. SubSeq(body, c + 1, c) = <<>>
      BY <1>1, SubSeqEmpty
    <3> QED
      BY <3>1, <3>2, <3>3 DEF ReadsFrom, IsReader, IsFound
  <2>2. AddsUp(W[c], f, Start)
    <3>1. IsFound(f) /\ Start.found = Nothing
      BY <1>4 DEF ReadsFrom, IsReader, Start
    <3>2. Found(f, Nothing) = f
      BY <3>1, FoundSame
    <3> QED
      BY <3>1, <3>2 DEF AddsUp
  <2>3. SideBySide(protocol, body, n, c, k, c, W[c], f, Start)
    BY <1>1, <1>4, <2>1, <2>2 DEF SideBySide
  <2> QED
    BY <1>1, <1>3, <2>3
<1>6. ASSUME NEW j \in Nat, j \in P PROVE j + 1 \in P
  <2> SUFFICES ASSUME c + (j + 1) <= m
               PROVE  \E q, d : SideBySide(protocol, body, n, c + (j + 1), q, d,
                                           W[c + (j + 1)], f, V[j + 1])
    OBVIOUS
  <2>1. PICK i : i = c + j
    OBVIOUS
  <2>2. /\ c + (j + 1) = i + 1 /\ c + j <= m /\ j + 1 \in 1..Len(s) /\ j + 1 \in 1..m - c
        /\ (j + 1) - 1 = j
        /\ i + 1 \in 1..Len(body) /\ i \in Nat /\ i + 1 <= n /\ (i + 1) - 1 = i
    BY <1>1, <1>2, <2>1
  <2>3. PICK q, d : SideBySide(protocol, body, n, i, q, d, W[i], f, V[j])
    BY <1>6, <2>1, <2>2
  <2>4. /\ W[i + 1] = ReadPart(protocol, W[i], body[i + 1])
        /\ V[j + 1] = ReadPart(protocol, V[j], body[i + 1])
    BY <1>2, <1>3, <2>2
  <2>5. PICK w, v, g : w = W[i] /\ v = V[j] /\ g = f
    OBVIOUS
  <2>6. SideBySide(protocol, body, n, i, q, d, w, g, v)
    BY <2>3, <2>5
  <2>7. \E a, b : SideBySide(protocol, body, n, i + 1, a, b,
                             ReadPart(protocol, w, body[i + 1]), g,
                             ReadPart(protocol, v, body[i + 1]))
    BY <1>1, <2>2, <2>6, BothGoOn
  <2> QED
    BY <2>2, <2>4, <2>5, <2>7
<1> HIDE DEF P
<1>7. m - c \in P /\ c + (m - c) = m
  BY <1>1, <1>5, <1>6, NumberInduction
<1>8. \E q, d : SideBySide(protocol, body, n, m, q, d, W[m], f, V[m - c])
  BY <1>1, <1>7 DEF P
<1> QED
  BY <1>8 DEF W, V, s

LEMMA EndedIs ==
    ASSUME NEW S, NEW body \in Seq(S), NEW protocol, NEW n \in Nat, NEW i,
           NEW k, NEW c, NEW w, NEW f, NEW v, SideBySide(protocol, body, n, i, k, c, w, f, v)
    PROVE  Ended(protocol, w) = Found(f, Ended(protocol, v))
<1>1. AddsUp(Read(protocol, w), f, Read(protocol, v))
  BY BothRead
<1>2. IsReader(w) /\ IsReader(v) /\ w.found = Found(f, v.found)
  BY DEF SideBySide, ReadsFrom, AddsUp
<1>3. ASSUME NEW r, IsReader(r), r.text = <<>>
      PROVE  Read(protocol, r).found = r.found
  <2>1. ~Tells(LineOf(r.text))
    BY <1>3 DEF Tells, LineOf, Fragment
  <2> QED
    BY <1>3, <2>1, ReadFinds
<1>4. Ended(protocol, w) = Read(protocol, w).found
  BY <1>2, <1>3 DEF Ended
<1>5. Ended(protocol, v) = Read(protocol, v).found
  BY <1>2, <1>3 DEF Ended
<1> QED
  BY <1>1, <1>4, <1>5 DEF AddsUp

\* Position m is not inside a character.
Between(body, m) == IsNewline(body[m]) \/ body[m].part + 1 \notin body[m].line.inside
EndsBetween(body, c, m) == c = m \/ Between(body, m)

\* What is parsed of a span of a clear body: it begins at the beginning of a
\* line or beyond its last character, and does not end inside one.
LEMMA ParseIs ==
    ASSUME NEW S, NEW body \in Seq(S), NEW protocol, NEW n, NEW k, NEW c \in Nat, NEW m \in Nat,
           NEW s, TextFrom(body, c, m, s), Readable(protocol, body, n), c <= m, m <= n,
           Rest(body, k, c, c), EndsBetween(body, c, m)
    PROVE  Parse(protocol, s) = Ended(protocol, Readings(protocol, s)[m - c])
<1>1. /\ n \in Nat /\ n <= Len(body) /\ m <= Len(body) /\ Len(body) \in Nat
      /\ Clear(protocol, body, n) /\ InLines(body)
  BY LenProperties DEF Readable
<1>2. Len(s) = m - c /\ DOMAIN s = 1..m - c /\ \A j \in 1..m - c : s[j] = body[c + j]
  BY <1>1, Piece DEF TextFrom
<1>3. /\ Begins(body, k, c) /\ k \in Nat /\ k <= c /\ (c = k \/ c - k > MaxCarry)
  BY DEF Rest, Within, Begins
<1>4. ASSUME c + 1 <= m, Inside(body[c + 1])
      PROVE  FALSE
  <2>1. c + 1 \in 1..Len(body) /\ c + 1 \in 1..n /\ c + 1 \in Nat /\ c + 1 > k
    BY <1>1, <1>3, <1>4
  <2>2. ~IsNewline(body[c + 1]) /\ body[c + 1].part \in body[c + 1].line.inside
    BY <1>4 DEF Inside
  <2>3. Begins(body, k, c + 1)
    <3>1. \A i \in k + 1..c + 1 : i \in k + 1..c \/ i = c + 1
      BY <1>3
    <3> QED
      BY <1>3, <2>2, <3>1 DEF Begins
  <2>4. /\ body[c + 1].part = (c + 1) - k /\ body[c + 1].line.length \in Nat
        /\ body[c + 1].line.inside \subseteq 2..body[c + 1].line.length
    BY <1>1, <2>1, <2>3, PartIs
  <2>5. (c + 1) - k \in 2..body[c + 1].line.length
    BY <2>2, <2>4
  <2>6. body[c + 1].part <= MaxCarry + 1
    BY <1>1, <1>4, <2>1, <2>2 DEF Clear
  <2> QED
    BY <1>3, <2>4, <2>5, <2>6, ParserAssumption
<1>5. ~NotUtf8(s)
  <2> SUFFICES ASSUME NotUtf8(s) PROVE FALSE
    OBVIOUS
  <2>1. PICK j \in DOMAIN s : /\ ~IsNewline(s[j])
                              /\ \/ s[j].line.field = "binary"
                                 \/ j = 1 /\ Inside(s[j])
                                 \/ j = Len(s) /\ s[j].part + 1 \in s[j].line.inside
    BY DEF NotUtf8
  <2>2. j \in 1..m - c /\ c + j \in 1..n /\ s[j] = body[c + j]
    BY <1>1, <1>2
  <2>3. body[c + j].line.field # "binary"
    BY <1>1, <2>1, <2>2 DEF Clear
  <2>4. ~ (j = 1 /\ Inside(s[j]))
    BY <1>4, <2>2
  <2>5. j = Len(s) /\ body[c + j].part + 1 \in body[c + j].line.inside
    BY <2>1, <2>2, <2>3, <2>4
  <2>6. c + j = m
    BY <1>2, <2>5
  <2>7. c # m /\ Between(body, c + j)
    BY <1>2, <2>2, <2>6 DEF EndsBetween
  <2> QED
    BY <2>1, <2>2, <2>5, <2>7 DEF Between
<1>6. Parse(protocol, s) = Ended(protocol, Readings(protocol, s)[Len(s)])
  BY <1>5 DEF Parse, ReadLines
<1> QED
  BY <1>2, <1>6

\* Of nothing, nothing is parsed.
LEMMA ParseNothing ==
    ASSUME NEW protocol
    PROVE  Parse(protocol, <<>>) = Nothing
<1>1. Readings(protocol, <<>>)[0] = Start /\ Len(<<>>) = 0
  <2>1. <<>> \in Seq({}) /\ Len(<<>>) = 0
    BY EmptySeq
  <2> QED
    BY <2>1, ReadingsAre
<1>2. Start.text = <<>> /\ Start.found = Nothing
  BY DEF Start
<1>3. Ended(protocol, Start) = Nothing
  BY <1>2 DEF Ended
<1> QED
  BY <1>1, <1>3 DEF Parse, ReadLines

\* The whole body up to m: what had been found at c, and what the span adds.
SpanAdds(protocol, body, c, m) ==
    Ended(protocol, Readings(protocol, body)[m])
      = Found(Readings(protocol, body)[c].found, Parse(protocol, SubSeq(body, c + 1, m)))

LEMMA CutRead ==
    ASSUME NEW S, NEW body \in Seq(S), NEW protocol, NEW n, NEW k, NEW c, NEW m,
           Readable(protocol, body, n), Rest(body, k, c, c), c \in Nat, m \in c..n,
           EndsBetween(body, c, m)
    PROVE  SpanAdds(protocol, body, c, m)
<1>1. n \in Nat /\ m \in Nat /\ c <= m /\ m <= n /\ n <= Len(body) /\ Len(body) \in Nat
  BY LenProperties DEF Readable
<1>2. PICK w, f, v : /\ w = Readings(protocol, body)[m]
                     /\ f = Readings(protocol, body)[c].found
                     /\ v = Readings(protocol, SubSeq(body, c + 1, m))[m - c]
  OBVIOUS
<1>3. PICK q, d : SideBySide(protocol, body, n, m, q, d, w, f, v)
  BY <1>2, SpanRead
<1>4. Ended(protocol, w) = Found(f, Ended(protocol, v))
  BY <1>1, <1>3, EndedIs
<1>5. Parse(protocol, SubSeq(body, c + 1, m)) = Ended(protocol, v)
  <2>1. PICK s : s = SubSeq(body, c + 1, m)
    OBVIOUS
  <2>2. TextFrom(body, c, m, s) /\ v = Readings(protocol, s)[m - c]
    BY <1>2, <2>1 DEF TextFrom
  <2>3. Parse(protocol, s) = Ended(protocol, Readings(protocol, s)[m - c])
    BY <1>1, <2>2, ParseIs
  <2> QED
    BY <2>1, <2>2, <2>3
<1> QED
  BY <1>2, <1>4, <1>5 DEF SpanAdds

\* The first m parts of a body are read line by line as the body is.
LEMMA LinesRead ==
    ASSUME NEW S, NEW body \in Seq(S), NEW protocol, NEW m \in Nat, m <= Len(body)
    PROVE  ReadLines(protocol, SubSeq(body, 1, m)) = Ended(protocol, Readings(protocol, body)[m])
<1>1. PICK g : g = SubSeq(body, 0 + 1, m)
  OBVIOUS
<1>2. g = SubSeq(body, 1, m)
  BY <1>1
<1>3. g \in Seq(S) /\ Len(g) = m - 0 /\ \A j \in 1..m - 0 : g[j] = body[0 + j]
  BY <1>1, Piece
<1>4. g \in Seq(S) /\ Len(g) = m /\ \A j \in 1..m : g[j] = body[j]
  BY <1>3
<1>5. Readings(protocol, g)[m] = Readings(protocol, body)[m]
  BY <1>4, ReadingsAgree
<1> QED
  BY <1>2, <1>4, <1>5 DEF ReadLines

\* What the line buffer is after the first n parts of a clear body: it holds
\* the line it is in, or what came of it after more than fits, and it has found
\* what is to be found up to the last newline.
BufferReads(protocol, body, n, buffer) ==
    \E k, c : /\ Rest(body, k, c, n)
              /\ buffer.carry = SubSeq(body, c + 1, n)
              /\ buffer.found = Readings(protocol, body)[n].found

\* A tail that has grown past MaxCarry is dropped.
LEMMA TailKept ==
    ASSUME NEW S, NEW body \in Seq(S), NEW protocol, NEW k, NEW c, NEW m \in Nat, NEW buffer,
           m <= Len(body), Rest(body, k, c, m),
           buffer.carry = IF Len(SubSeq(body, c + 1, m)) > MaxCarry THEN <<>>
                          ELSE SubSeq(body, c + 1, m),
           buffer.found = Readings(protocol, body)[m].found
    PROVE  BufferReads(protocol, body, m, buffer)
<1>1. k \in 0..m /\ c \in k..m /\ c \in Nat /\ c <= m /\ k \in Nat /\ Begins(body, k, m)
  BY DEF Rest, Within, Begins
<1>2. Len(SubSeq(body, c + 1, m)) = m - c
  BY <1>1, Piece
<1>3. CASE m - c > MaxCarry
  <2>1. SubSeq(body, m + 1, m) = <<>>
    BY SubSeqEmpty
  <2>2. Rest(body, k, m, m)
    BY <1>1, <1>3, ParserAssumption DEF Rest, Within
  <2> QED
    BY <1>2, <1>3, <2>1, <2>2 DEF BufferReads
<1>4. CASE ~ (m - c > MaxCarry)
  BY <1>2, <1>4 DEF BufferReads
<1> QED
  BY <1>3, <1>4

\* A chunk is pushed: the lines it completes are read as in one piece.
LEMMA PushReads ==
    ASSUME NEW S, NEW body \in Seq(S), NEW protocol, NEW n \in Nat, NEW m \in Nat, NEW buffer,
           n <= m, Readable(protocol, body, m), BufferReads(protocol, body, n, buffer)
    PROVE  BufferReads(protocol, body, m, Push(protocol, buffer, SubSeq(body, n + 1, m)))
<1> DEFINE W == Readings(protocol, body)
<1>1. m <= Len(body) /\ n <= Len(body) /\ Len(body) \in Nat
  BY LenProperties DEF Readable
<1>2. PICK k, c : /\ Rest(body, k, c, n)
                  /\ buffer.carry = SubSeq(body, c + 1, n)
                  /\ buffer.found = W[n].found
  BY DEF BufferReads
<1>3. /\ Begins(body, k, n) /\ k \in 0..n /\ c \in k..n /\ k \in Nat /\ c \in Nat /\ k <= c /\ c <= n
      /\ (c = k \/ c - k > MaxCarry)
  BY <1>2 DEF Rest, Within, Begins
<1>4. Begins(body, k, c) /\ Rest(body, k, c, c)
  BY <1>3, BeginsBefore DEF Rest, Within
<1>5. W[n].found = W[k].found /\ W[c].found = W[k].found
  <2>1. n \in 0..m /\ c \in 0..m
    BY <1>3
  <2>2. WholeAt(body, m, k, n, W[n], W[k].found) /\ WholeAt(body, m, k, c, W[c], W[k].found)
    BY <1>3, <1>4, <2>1, WholeIs
  <2> QED
    BY <2>2 DEF WholeAt
<1> DEFINE bytes == SubSeq(body, c + 1, m)
<1>6. buffer.carry \o SubSeq(body, n + 1, m) = bytes
  <2>1. c + 1 \in 1..Len(body) + 1 /\ n \in (c + 1) - 1..Len(body) /\ m \in n..Len(body)
    BY <1>1, <1>3
  <2> QED
    BY <1>2, <2>1, ConcatAdjacentSubSeq
<1>7. bytes \in Seq(S) /\ Len(bytes) = m - c /\ \A j \in 1..m - c : bytes[j] = body[c + j]
  BY <1>1, <1>3, Piece
<1> DEFINE nl == LastNewline(bytes)
<1>8. /\ nl \in 0..m - c /\ nl \in Nat
      /\ \A j \in 1..m - c : IsNewline(body[c + j]) => j <= nl
      /\ nl # 0 => IsNewline(body[c + nl])
  <2> HIDE DEF bytes
  <2>1. /\ nl \in 0..Len(bytes)
        /\ \A j \in 1..Len(bytes) : IsNewline(bytes[j]) => j <= nl
        /\ nl # 0 => IsNewline(bytes[nl])
    BY <1>7, LastNewlineIsLast
  <2> HIDE DEF nl
  <2>2. nl \in 0..m - c /\ nl \in Nat
    BY <1>3, <1>7, <2>1
  <2>3. nl # 0 => IsNewline(body[c + nl])
    <3>1. nl # 0 => nl \in 1..m - c
      BY <1>3, <2>2
    <3> QED
      BY <1>7, <2>1, <3>1
  <2>4. \A j \in 1..m - c : IsNewline(body[c + j]) => j <= nl
    BY <1>7, <2>1
  <2> QED
    BY <2>2, <2>3, <2>4
<1>9. PICK e : e = c + nl
  OBVIOUS
<1>10. e \in c..m /\ e \in Nat /\ e <= m
  <2> HIDE DEF nl
  <2> QED
    BY <1>3, <1>8, <1>9
<1>11. SubSeq(bytes, 1, nl) = SubSeq(body, c + 1, e)
  <2> HIDE DEF nl
  <2>1. SubSeq(bytes, 0 + 1, nl) = SubSeq(body, (c + 0) + 1, c + nl)
    BY <1>1, <1>3, <1>8, <1>9, <1>10, PieceOfPiece
  <2>2. 0 + 1 = 1 /\ (c + 0) + 1 = c + 1 /\ c + nl = e
    BY <1>3, <1>9
  <2> QED
    BY <2>1, <2>2
<1>12. SubSeq(bytes, nl + 1, Len(bytes)) = SubSeq(body, e + 1, m)
  <2> HIDE DEF nl
  <2>1. SubSeq(bytes, nl + 1, m - c) = SubSeq(body, (c + nl) + 1, c + (m - c))
    <3>1. m - c \in Nat /\ nl <= m - c /\ c + (m - c) <= m
      BY <1>3, <1>8
    <3> QED
      BY <1>1, <1>3, <1>8, <3>1, PieceOfPiece
  <2>2. (c + nl) + 1 = e + 1 /\ c + (m - c) = m
    BY <1>3, <1>9
  <2>3. SubSeq(bytes, nl + 1, m - c) = SubSeq(body, e + 1, m)
    BY <2>1, <2>2
  <2> QED
    BY <1>7, <2>3
<1> DEFINE push == Push(protocol, buffer, SubSeq(body, n + 1, m))
<1>13. /\ push.carry = IF Len(SubSeq(body, e + 1, m)) > MaxCarry THEN <<>>
                       ELSE SubSeq(body, e + 1, m)
       /\ push.found = Found(buffer.found, Parse(protocol, SubSeq(body, c + 1, e)))
  <2> HIDE DEF bytes, nl
  <2>1. push = [carry |-> IF Len(SubSeq(bytes, nl + 1, Len(bytes))) > MaxCarry THEN <<>>
                          ELSE SubSeq(bytes, nl + 1, Len(bytes)),
                found |-> Found(buffer.found, Parse(protocol, SubSeq(bytes, 1, nl)))]
    BY <1>6 DEF Push, nl
  <2> HIDE DEF push
  <2>2. push = [carry |-> IF Len(SubSeq(body, e + 1, m)) > MaxCarry THEN <<>>
                          ELSE SubSeq(body, e + 1, m),
                found |-> Found(buffer.found, Parse(protocol, SubSeq(body, c + 1, e)))]
    BY <1>11, <1>12, <2>1
  <2> QED
    BY <2>2
<1> HIDE DEF push, W, bytes
<1>14. push.found = Ended(protocol, W[e])
  <2>1. EndsBetween(body, c, e)
    <3> HIDE DEF nl
    <3>1. nl # 0 => IsNewline(body[e])
      BY <1>8, <1>9
    <3>2. nl = 0 => c = e
      BY <1>3, <1>9
    <3> QED
      BY <3>1, <3>2 DEF EndsBetween, Between
  <2>2. Ended(protocol, W[e]) = Found(W[c].found, Parse(protocol, SubSeq(body, c + 1, e)))
    <3>1. Readable(protocol, body, m) /\ Rest(body, k, c, c) /\ c \in Nat /\ e \in c..m
      BY <1>3, <1>4, <1>10
    <3>2. SpanAdds(protocol, body, c, e)
      BY <2>1, <3>1, CutRead
    <3> QED
      BY <3>2 DEF SpanAdds, W
  <2> QED
    BY <1>2, <1>5, <1>13, <2>2
<1>15. CASE nl = 0
  <2> HIDE DEF nl
  <2>1. e = c
    BY <1>3, <1>9, <1>15
  <2>2. Begins(body, k, m)
    <3>1. ASSUME NEW i \in k + 1..m PROVE ~IsNewline(body[i])
      <4>1. CASE i <= n
        BY <1>3, <4>1 DEF Begins
      <4>2. CASE i > n
        <5>1. i - c \in 1..m - c /\ c + (i - c) = i /\ ~ (i - c <= nl)
          BY <1>3, <1>15, <4>2
        <5> QED
          BY <1>8, <5>1
      <4> QED
        BY <1>3, <4>1, <4>2
    <3> QED
      BY <1>3, <3>1 DEF Begins
  <2>3. Rest(body, k, c, m)
    BY <1>3, <2>2 DEF Rest, Within
  <2>4. Found(W[n].found, Nothing) = W[n].found /\ W[m].found = W[n].found
    <3>1. n \in 0..m /\ m \in 0..m
      OBVIOUS
    <3>2. IsFound(W[n].found)
      <4>1. WholeAt(body, m, k, n, W[n], W[k].found)
        BY <1>3, <3>1, WholeIs DEF W
      <4> QED
        BY <4>1 DEF WholeAt, ReadsFrom, IsReader
    <3>3. W[m].found = W[k].found
      <4>1. WholeAt(body, m, k, m, W[m], W[k].found)
        BY <2>2, <3>1, WholeIs DEF W
      <4> QED
        BY <4>1 DEF WholeAt
    <3> QED
      BY <1>5, <3>2, <3>3, FoundSame
  <2>5. Parse(protocol, SubSeq(body, c + 1, e)) = Nothing
    <3>1. SubSeq(body, c + 1, e) = <<>>
      BY <1>3, <2>1, SubSeqEmpty
    <3> QED
      BY <3>1, ParseNothing
  <2>6. push.found = W[m].found
    BY <1>2, <1>13, <2>4, <2>5
  <2>7. push.carry = IF Len(SubSeq(body, c + 1, m)) > MaxCarry THEN <<>>
                     ELSE SubSeq(body, c + 1, m)
    BY <1>13, <2>1
  <2>8. BufferReads(protocol, body, m, push)
    BY <1>1, <2>3, <2>6, <2>7, TailKept DEF W
  <2> QED
    BY <2>8 DEF push
<1>16. CASE nl # 0
  <2> HIDE DEF nl
  <2>1. IsNewline(body[e])
    BY <1>8, <1>9, <1>16
  <2>2. Begins(body, e, m)
    <3>1. ASSUME NEW i \in e + 1..m PROVE ~IsNewline(body[i])
      <4>1. i - c \in 1..m - c /\ c + (i - c) = i /\ ~ (i - c <= nl)
        BY <1>3, <1>8, <1>9, <1>10
      <4> QED
        BY <1>8, <4>1
    <3> QED
      BY <1>10, <2>1, <3>1 DEF Begins
  <2>3. Begins(body, e, e) /\ e \in e..m /\ e \in 0..m
    BY <1>10, <2>1 DEF Begins
  <2>4. Rest(body, e, e, m)
    BY <2>2, <2>3 DEF Rest, Within
  <2>5. W[m].found = W[e].found /\ W[e].text = SubSeq(body, e + 1, e)
    <3>1. m \in 0..m
      OBVIOUS
    <3>2. WholeAt(body, m, e, m, W[m], W[e].found) /\ WholeAt(body, m, e, e, W[e], W[e].found)
      BY <2>2, <2>3, <3>1, WholeIs DEF W
    <3> QED
      BY <3>2 DEF WholeAt, ReadsFrom
  <2>6. W[e].text = <<>>
    BY <1>10, <2>5, SubSeqEmpty
  <2>7. push.found = W[m].found
    BY <1>14, <2>5, <2>6 DEF Ended
  <2>8. BufferReads(protocol, body, m, push)
    BY <1>1, <1>13, <2>4, <2>7, TailKept DEF W
  <2> QED
    BY <2>8 DEF push
<1> QED
  BY <1>15, <1>16

\* A line of which a character is not complete tells nothing yet.
LEMMA UnfinishedTellsNothing ==
    ASSUME NEW S, NEW body \in Seq(S), NEW n \in Nat, NEW k, NEW text,
           n <= Len(body), n > 0, InLines(body), Begins(body, k, n),
           ~Between(body, n), TextFrom(body, k, n, text)
    PROVE  ~Tells(LineOf(text))
<1>1. /\ k \in Nat /\ k <= n /\ n \in 1..Len(body)
      /\ ~IsNewline(body[n]) /\ body[n].part + 1 \in body[n].line.inside
  BY LenProperties DEF Between, Begins
<1>2. n > k
  BY <1>1 DEF Begins
<1>3. /\ body[n].part = n - k /\ body[n].line.length \in Nat
      /\ body[n].line.inside \subseteq 2..body[n].line.length
      /\ body[n].line = body[k + 1].line
  BY <1>1, <1>2, PartIs
<1>4. (n - k) + 1 \in 2..body[k + 1].line.length /\ body[k + 1].line.length \in Nat
  BY <1>1, <1>3
<1>5. Len(text) = n - k /\ \A j \in 1..n - k : text[j] = body[k + j]
  BY <1>1, Piece DEF TextFrom
<1>6. text[1] = body[k + 1]
  BY <1>1, <1>2, <1>5
<1>7. Len(text) # text[1].line.length
  BY <1>1, <1>4, <1>5, <1>6
<1> QED
  BY <1>7 DEF LineOf, Tells, Fragment

\* The buffer is flushed: all has been read line by line.
LEMMA FlushReads ==
    ASSUME NEW S, NEW body \in Seq(S), NEW protocol, NEW n \in Nat, NEW buffer,
           Readable(protocol, body, n), BufferReads(protocol, body, n, buffer)
    PROVE  Flush(protocol, buffer).found = ReadLines(protocol, SubSeq(body, 1, n))
<1> DEFINE W == Readings(protocol, body)
<1>1. PICK k, c : /\ Rest(body, k, c, n)
                  /\ buffer.carry = SubSeq(body, c + 1, n)
                  /\ buffer.found = W[n].found
  BY DEF BufferReads
<1>2. /\ Begins(body, k, n) /\ k \in 0..n /\ c \in k..n /\ k \in Nat /\ c \in Nat /\ c <= n
      /\ (c = k \/ c - k > MaxCarry)
  BY <1>1 DEF Rest, Within, Begins
<1>3. Begins(body, k, c) /\ Rest(body, k, c, c)
  BY <1>2, BeginsBefore DEF Rest, Within
<1>4. WholeAt(body, n, k, n, W[n], W[k].found) /\ WholeAt(body, n, k, c, W[c], W[k].found)
  <2>1. n \in 0..n /\ c \in 0..n
    BY <1>2
  <2> QED
    BY <1>2, <1>3, <2>1, WholeIs
<1>5. W[n].found = W[c].found
  BY <1>4 DEF WholeAt
<1>6. /\ n \in c..n /\ n <= Len(body) /\ Len(body) \in Nat /\ InLines(body)
      /\ Clear(protocol, body, n)
  BY <1>2, LenProperties DEF Readable
<1>7. Flush(protocol, buffer).found = Found(buffer.found, Parse(protocol, buffer.carry))
  BY DEF Flush
<1>8. ReadLines(protocol, SubSeq(body, 1, n)) = Ended(protocol, W[n])
  BY <1>6, LinesRead
<1> HIDE DEF W
<1>9. CASE EndsBetween(body, c, n)
  <2>1. Ended(protocol, W[n]) = Found(W[c].found, Parse(protocol, SubSeq(body, c + 1, n)))
    <3>1. Rest(body, k, c, c) /\ c \in Nat /\ n \in c..n
      BY <1>2, <1>3, <1>6
    <3>2. SpanAdds(protocol, body, c, n)
      BY <1>9, <3>1, CutRead
    <3> QED
      BY <3>2 DEF SpanAdds, W
  <2> QED
    BY <1>1, <1>5, <1>7, <1>8, <2>1
<1>10. CASE ~EndsBetween(body, c, n)
  <2>0. c # n /\ ~Between(body, n)
    BY <1>10 DEF EndsBetween
  <2>1. PICK w : w = W[n]
    OBVIOUS
  <2>2. ReadsFrom(body, k, n, w)
    BY <1>4, <2>1 DEF WholeAt
  <2>3. IsReader(w) /\ TextFrom(body, k, n, w.text) /\ IsFound(w.found)
    BY <2>2 DEF ReadsFrom, TextFrom, IsReader
  <2>4. n > 0
    BY <1>2, <2>0
  <2>5. ~Tells(LineOf(w.text))
    BY <1>2, <1>6, <2>0, <2>3, <2>4, UnfinishedTellsNothing
  <2>6. Read(protocol, w).found = w.found
    BY <2>3, <2>5, ReadFinds
  <2>7. Ended(protocol, w) = w.found
    BY <2>6 DEF Ended
  <2>8. Parse(protocol, buffer.carry) = Nothing
    <3>1. PICK s : s = SubSeq(body, c + 1, n)
      OBVIOUS
    <3>2. Len(s) = n - c /\ DOMAIN s = 1..n - c /\ \A j \in 1..n - c : s[j] = body[c + j]
      BY <1>2, <1>6, <3>1, Piece
    <3>3. n - c \in DOMAIN s /\ s[n - c] = body[n]
      BY <1>2, <2>0, <3>2
    <3>4. NotUtf8(s)
      BY <2>0, <3>2, <3>3 DEF NotUtf8, Between
    <3> QED
      BY <1>1, <3>1, <3>4 DEF Parse
  <2>9. Found(w.found, Nothing) = w.found
    BY <2>3, FoundSame
  <2> QED
    BY <1>1, <1>7, <1>8, <2>1, <2>7, <2>8, <2>9
<1> QED
  BY <1>9, <1>10
----------------------------------------------------------------------------
(* One stream: its task t and its client k.                                *)

PCs == {"idle", "posting", "reading", "sending", "failing", "ending", "done", "dropped"}
ClientType == [state : {"none", "open", "served", "answered", "broken", "gone"},
               channel : Seq(Chunks), got : Seq(Part)]

\* A task is a record of six fields, whatever its parser has found.
TaskShape(t) ==
    t \in [pc : {t.pc}, protocol : {t.protocol}, body : {t.body},
           taken : {t.taken}, item : {t.item}, buffer : {t.buffer}]

TaskTyped(t) ==
    /\ TaskShape(t)
    /\ t.pc \in PCs
    /\ t.body \in Seq(Part)
    /\ t.taken \in 0..Len(t.body)
    /\ t.item \in Chunks
    /\ t.buffer.carry \in Seq(Part)
    /\ Len(t.buffer.carry) <= MaxCarry
    /\ LastNewline(t.buffer.carry) = 0
    /\ t.pc \in {"idle", "posting", "done"} => t.buffer.carry = <<>>

ClientTyped(k) == k \in ClientType /\ Len(k.channel) <= RelaySize

\* Who is requested has a client, and the handler runs while that waits.
Matched(t, k) ==
    /\ t.pc = "idle" <=> k.state = "none"
    /\ t.pc = "posting" => k.state = "open"
    /\ k.state = "open" => t.pc # "dropped"
    /\ t.pc \in {"idle", "posting"} =>
          t.taken = 0 /\ k.channel = <<>> /\ k.got = <<>>

\* The client's share of the body, then the chunks in the channel, then the one
\* to be sent, follow one another: cut[i] is where the channel's first i end.
\* Only an error, the last thing sent, ends the body before it is complete.
Cuts(t, k, cut) ==
    LET n == Len(k.channel)
    IN  /\ cut \in [0..n -> 0..t.taken]
        /\ k.got = SubSeq(t.body, 1, cut[0])
        /\ \A i \in 1..n :
              \/ k.channel[i] = StreamError /\ i = n /\ t.pc \in {"ending", "done"}
              \/ cut[i - 1] <= cut[i] /\ k.channel[i] = SubSeq(t.body, cut[i - 1] + 1, cut[i])
        /\ t.pc \in {"posting", "reading", "failing"} => cut[n] = t.taken
        /\ t.pc = "failing" => t.item = StreamError
        /\ t.pc = "sending" => t.item = SubSeq(t.body, cut[n] + 1, t.taken)
        /\ t.pc \in {"ending", "done"} =>
              (n > 0 /\ k.channel[n] = StreamError) \/ cut[n] = Len(t.body)

Told(t, k) ==
    /\ k.state = "open" => \E cut \in [0..Len(k.channel) -> 0..t.taken] : Cuts(t, k, cut)
    /\ \E n \in 0..Len(t.body) : k.got = SubSeq(t.body, 1, n)
    /\ k.state = "served" => k.got = t.body

StreamOK(t, k) == TaskTyped(t) /\ ClientTyped(k) /\ Matched(t, k) /\ Told(t, k)

\* The task starts.
LEMMA SpawnOK ==
    ASSUME NEW t, NEW k, StreamOK(t, k), t.pc = "posting"
    PROVE  StreamOK([t EXCEPT !.pc = "reading"], k)
<1> DEFINE u == [t EXCEPT !.pc = "reading"]
<1>1. TaskShape(t)
  BY DEF StreamOK, TaskTyped
<1>2. /\ u.pc = "reading" /\ u.body = t.body /\ u.taken = t.taken
      /\ u.item = t.item /\ u.buffer = t.buffer /\ TaskShape(u)
  BY <1>1 DEF TaskShape
<1> HIDE DEF u
<1>3. TaskTyped(u)
  BY <1>2 DEF StreamOK, TaskTyped, PCs
<1>4. Matched(u, k)
  BY <1>2 DEF StreamOK, Matched
<1>5. \A cut : Cuts(t, k, cut) => Cuts(u, k, cut)
  BY <1>2 DEF Cuts
<1>6. Told(u, k)
  BY <1>2, <1>5 DEF StreamOK, Told
<1> QED
  BY <1>3, <1>4, <1>6 DEF StreamOK, u

\* A request comes in.
LEMMA AcceptOK ==
    ASSUME NEW t, NEW k, StreamOK(t, k), t.pc = "idle",
           NEW protocol, NEW bytes \in Seq(Part)
    PROVE  StreamOK([t EXCEPT !.pc = "posting", !.protocol = protocol, !.body = bytes],
                    [k EXCEPT !.state = "open"])
<1> DEFINE u == [t EXCEPT !.pc = "posting", !.protocol = protocol, !.body = bytes]
           j == [k EXCEPT !.state = "open"]
<1>1. TaskShape(t)
  BY DEF StreamOK, TaskTyped
<1>2. j.state = "open" /\ j.channel = k.channel /\ j.got = k.got /\ j \in ClientType
  BY DEF StreamOK, ClientTyped, ClientType
<1>3. /\ u.pc = "posting" /\ u.body = bytes /\ u.taken = t.taken
      /\ u.item = t.item /\ u.buffer = t.buffer /\ TaskShape(u)
  BY <1>1 DEF TaskShape
<1> HIDE DEF u, j
<1>4. t.taken = 0 /\ k.channel = <<>> /\ k.got = <<>> /\ Len(bytes) \in Nat
  BY LenProperties DEF StreamOK, Matched
<1>5. TaskTyped(u) /\ ClientTyped(j)
  BY <1>2, <1>3, <1>4 DEF StreamOK, TaskTyped, ClientTyped, PCs
<1>6. Matched(u, j)
  BY <1>2, <1>3, <1>4 DEF Matched
<1>7. Len(j.channel) = 0 /\ SubSeq(bytes, 1, 0) = <<>>
  BY <1>2, <1>4, EmptySeq, SubSeqEmpty
<1>8. Cuts(u, j, [i \in 0..0 |-> 0])
  BY <1>2, <1>3, <1>4, <1>7 DEF Cuts
<1>9. [i \in 0..0 |-> 0] \in [0..Len(j.channel) -> 0..u.taken]
  BY <1>3, <1>4, <1>7
<1>10. Told(u, j)
  BY <1>2, <1>3, <1>4, <1>7, <1>8, <1>9 DEF Told
<1> QED
  BY <1>5, <1>6, <1>10 DEF StreamOK, u, j

\* A chunk arrives: it follows the last cut.
LEMMA ReceiveOK ==
    ASSUME NEW t, NEW k, StreamOK(t, k), t.pc = "reading",
           NEW n \in t.taken + 1 .. Len(t.body)
    PROVE  LET chunk == SubSeq(t.body, t.taken + 1, n)
           IN  StreamOK([t EXCEPT !.pc = "sending", !.taken = n, !.item = chunk,
                                  !.buffer = Push(t.protocol, t.buffer, chunk)], k)
<1> DEFINE chunk == SubSeq(t.body, t.taken + 1, n)
           push == Push(t.protocol, t.buffer, chunk)
           u == [t EXCEPT !.pc = "sending", !.taken = n, !.item = chunk, !.buffer = push]
<1>1. TaskShape(t)
  BY DEF StreamOK, TaskTyped
<1>2. /\ t.body \in Seq(Part) /\ t.taken \in 0..Len(t.body) /\ Len(t.body) \in Nat
      /\ t.buffer.carry \in Seq(Part)
  BY LenProperties DEF StreamOK, TaskTyped
<1>3. n \in 0..Len(t.body) /\ t.taken < n
  BY <1>2
<1>4. chunk \in Seq(Part)
  <2>1. \A i \in t.taken + 1..n : t.body[i] \in Part
    BY <1>2, <1>3, ElementOfSeq
  <2> QED
    BY <1>2, <1>3, <2>1, SubSeqProperties
<1>5. /\ push.carry \in Seq(Part) /\ Len(push.carry) <= MaxCarry
      /\ LastNewline(push.carry) = 0
  <2> HIDE DEF chunk
  <2> QED
    BY <1>2, <1>4, PushKeeps
<1> HIDE DEF push
<1>6. /\ u.pc = "sending" /\ u.body = t.body /\ u.taken = n
      /\ u.item = chunk /\ u.buffer = push /\ TaskShape(u)
  <2> HIDE DEF chunk
  <2> QED
    BY <1>1 DEF TaskShape
<1> HIDE DEF u
<1>7. TaskTyped(u)
  <2> HIDE DEF chunk
  <2> QED
    BY <1>2, <1>3, <1>4, <1>5, <1>6 DEF TaskTyped, PCs, Chunks
<1>8. Matched(u, k)
  BY <1>6 DEF StreamOK, Matched
<1>9. ASSUME NEW cut \in [0..Len(k.channel) -> 0..t.taken], Cuts(t, k, cut)
      PROVE  Cuts(u, k, cut) /\ cut \in [0..Len(k.channel) -> 0..u.taken]
  <2>1. cut \in [0..Len(k.channel) -> 0..n]
    BY <1>2, <1>3
  <2> QED
    BY <1>6, <1>9, <2>1 DEF Cuts
<1>10. Told(u, k)
  BY <1>6, <1>9 DEF StreamOK, Told
<1> QED
  BY <1>7, <1>8, <1>10 DEF StreamOK, u, push

\* The connection to the upstream breaks.
LEMMA BreakOK ==
    ASSUME NEW t, NEW k, StreamOK(t, k), t.pc = "reading"
    PROVE  StreamOK([t EXCEPT !.pc = "failing", !.item = StreamError], k)
<1> DEFINE u == [t EXCEPT !.pc = "failing", !.item = StreamError]
<1>1. TaskShape(t)
  BY DEF StreamOK, TaskTyped
<1>2. /\ u.pc = "failing" /\ u.body = t.body /\ u.taken = t.taken
      /\ u.item = StreamError /\ u.buffer = t.buffer /\ TaskShape(u)
  <2> HIDE DEF StreamError
  <2> QED
    BY <1>1 DEF TaskShape
<1> HIDE DEF u
<1>3. TaskTyped(u)
  BY <1>2 DEF StreamOK, TaskTyped, PCs, Chunks
<1>4. Matched(u, k)
  BY <1>2 DEF StreamOK, Matched
<1>5. \A cut : Cuts(t, k, cut) => Cuts(u, k, cut)
  BY <1>2 DEF Cuts
<1>6. Told(u, k)
  BY <1>2, <1>5 DEF StreamOK, Told
<1> QED
  BY <1>3, <1>4, <1>6 DEF StreamOK, u

\* The body is over.
LEMMA EndOfBodyOK ==
    ASSUME NEW t, NEW k, StreamOK(t, k), t.pc = "reading", t.taken = Len(t.body)
    PROVE  StreamOK([t EXCEPT !.pc = "ending"], k)
<1> DEFINE u == [t EXCEPT !.pc = "ending"]
<1>1. TaskShape(t)
  BY DEF StreamOK, TaskTyped
<1>2. /\ u.pc = "ending" /\ u.body = t.body /\ u.taken = t.taken
      /\ u.item = t.item /\ u.buffer = t.buffer /\ TaskShape(u)
  BY <1>1 DEF TaskShape
<1> HIDE DEF u
<1>3. TaskTyped(u)
  BY <1>2 DEF StreamOK, TaskTyped, PCs
<1>4. Matched(u, k)
  BY <1>2 DEF StreamOK, Matched
<1>5. \A cut : Cuts(t, k, cut) => Cuts(u, k, cut)
  BY <1>2 DEF Cuts
<1>6. Told(u, k)
  BY <1>2, <1>5 DEF StreamOK, Told
<1> QED
  BY <1>3, <1>4, <1>6 DEF StreamOK, u

\* The empty sequence is a chunk with no line in it.
LEMMA EmptyChunk == <<>> \in Chunks /\ <<>> \in Seq(Part) /\ LastNewline(<<>>) = 0 /\ Len(<<>>) = 0
<1>1. <<>> \in Seq(Part) /\ Len(<<>>) = 0
  BY EmptySeq
<1>2. LastNewline(<<>>) \in 0..Len(<<>>)
  BY <1>1, LastNewlineIsLast
<1> QED
  BY <1>1, <1>2 DEF Chunks

\* The receiver is gone.
LEMMA SendFailsOK ==
    ASSUME NEW t, NEW k, StreamOK(t, k), t.pc \in {"sending", "failing"}, k.state # "open"
    PROVE  StreamOK([t EXCEPT !.pc = "ending", !.item = <<>>], k)
<1> DEFINE u == [t EXCEPT !.pc = "ending", !.item = <<>>]
<1>1. TaskShape(t)
  BY DEF StreamOK, TaskTyped
<1>2. /\ u.pc = "ending" /\ u.body = t.body /\ u.taken = t.taken
      /\ u.item = <<>> /\ u.buffer = t.buffer /\ TaskShape(u)
  BY <1>1 DEF TaskShape
<1> HIDE DEF u
<1>3. TaskTyped(u)
  BY <1>2, EmptyChunk DEF StreamOK, TaskTyped, PCs
<1>4. Matched(u, k)
  BY <1>2 DEF StreamOK, Matched
<1>5. Told(u, k)
  BY <1>2 DEF StreamOK, Told
<1> QED
  BY <1>3, <1>4, <1>5 DEF StreamOK, u

\* The line buffer is flushed.
LEMMA FinishOK ==
    ASSUME NEW t, NEW k, StreamOK(t, k), t.pc = "ending"
    PROVE  StreamOK([t EXCEPT !.pc = "done", !.buffer = Flush(t.protocol, t.buffer)], k)
<1> DEFINE flushed == Flush(t.protocol, t.buffer)
           u == [t EXCEPT !.pc = "done", !.buffer = flushed]
<1>1. TaskShape(t)
  BY DEF StreamOK, TaskTyped
<1>2. flushed.carry = <<>>
  BY DEF Flush
<1> HIDE DEF flushed
<1>3. /\ u.pc = "done" /\ u.body = t.body /\ u.taken = t.taken
      /\ u.item = t.item /\ u.buffer = flushed /\ TaskShape(u)
  BY <1>1 DEF TaskShape
<1> HIDE DEF u
<1>4. TaskTyped(u)
  <2>1. u.buffer.carry = <<>>
    BY <1>2, <1>3
  <2>2. 0 <= MaxCarry
    BY ParserAssumption
  <2>3. /\ u.buffer.carry \in Seq(Part) /\ Len(u.buffer.carry) <= MaxCarry
        /\ LastNewline(u.buffer.carry) = 0
    BY <2>1, <2>2, EmptyChunk
  <2> QED
    BY <1>3, <2>1, <2>3 DEF StreamOK, TaskTyped, PCs
<1>5. Matched(u, k)
  BY <1>3 DEF StreamOK, Matched
<1>6. \A cut : Cuts(t, k, cut) => Cuts(u, k, cut)
  BY <1>3 DEF Cuts
<1>7. Told(u, k)
  BY <1>3, <1>6 DEF StreamOK, Told
<1> QED
  BY <1>4, <1>5, <1>7 DEF StreamOK, u, flushed

\* The upstream refuses.
LEMMA RefusedOK ==
    ASSUME NEW t, NEW k, StreamOK(t, k), t.pc = "posting"
    PROVE  StreamOK([t EXCEPT !.pc = "done"], [k EXCEPT !.state = "answered"])
<1> DEFINE u == [t EXCEPT !.pc = "done"]
           j == [k EXCEPT !.state = "answered"]
<1>1. TaskShape(t) /\ k \in ClientType /\ Len(k.channel) <= RelaySize
  BY DEF StreamOK, TaskTyped, ClientTyped
<1>2. /\ u.pc = "done" /\ u.body = t.body /\ u.taken = t.taken
      /\ u.item = t.item /\ u.buffer = t.buffer /\ TaskShape(u)
  BY <1>1 DEF TaskShape
<1>3. j.state = "answered" /\ j.channel = k.channel /\ j.got = k.got /\ j \in ClientType
  BY <1>1 DEF ClientType
<1> HIDE DEF u, j
<1>4. TaskTyped(u) /\ ClientTyped(j)
  BY <1>1, <1>2, <1>3 DEF StreamOK, TaskTyped, ClientTyped, PCs
<1>5. Matched(u, j)
  BY <1>2, <1>3 DEF StreamOK, Matched
<1>6. Told(u, j)
  BY <1>2, <1>3 DEF StreamOK, Told
<1> QED
  BY <1>4, <1>5, <1>6 DEF StreamOK, u, j

\* The client is gone.
LEMMA DisconnectOK ==
    ASSUME NEW t, NEW k, StreamOK(t, k), k.state = "open"
    PROVE  StreamOK([t EXCEPT !.pc = IF @ = "posting" THEN "dropped" ELSE @],
                    [k EXCEPT !.state = "gone", !.channel = <<>>])
<1> DEFINE u == [t EXCEPT !.pc = IF @ = "posting" THEN "dropped" ELSE @]
           j == [k EXCEPT !.state = "gone", !.channel = <<>>]
<1>1. TaskShape(t) /\ k \in ClientType
  BY DEF StreamOK, TaskTyped, ClientTyped
<1>2. /\ u.pc = IF t.pc = "posting" THEN "dropped" ELSE t.pc
      /\ u.body = t.body /\ u.taken = t.taken
      /\ u.item = t.item /\ u.buffer = t.buffer /\ TaskShape(u)
  BY <1>1 DEF TaskShape
<1>3. j.state = "gone" /\ j.channel = <<>> /\ j.got = k.got /\ j \in ClientType
  BY <1>1, EmptySeq DEF ClientType
<1> HIDE DEF u, j
<1>4. TaskTyped(u)
  BY <1>2 DEF StreamOK, TaskTyped, PCs
<1>5. ClientTyped(j)
  BY <1>3, EmptyChunk, RelayAssumption DEF ClientTyped
<1>6. Matched(u, j)
  BY <1>2, <1>3 DEF StreamOK, Matched
<1>7. Told(u, j)
  BY <1>2, <1>3 DEF StreamOK, Told
<1> QED
  BY <1>4, <1>5, <1>6, <1>7 DEF StreamOK, u, j

\* One more chunk, or the error, goes into the channel.
LEMMA SendOK ==
    ASSUME NEW t, NEW k, StreamOK(t, k), t.pc \in {"sending", "failing"},
           k.state = "open", Len(k.channel) < RelaySize
    PROVE  StreamOK([t EXCEPT !.pc = IF @ = "sending" THEN "reading" ELSE "ending",
                              !.item = <<>>],
                    [k EXCEPT !.channel = Append(@, t.item)])
<1> DEFINE u == [t EXCEPT !.pc = IF @ = "sending" THEN "reading" ELSE "ending",
                          !.item = <<>>]
           j == [k EXCEPT !.channel = Append(@, t.item)]
           n == Len(k.channel)
<1>1. /\ TaskShape(t) /\ k \in ClientType /\ t.item \in Chunks
      /\ t.taken \in 0..Len(t.body) /\ t.body \in Seq(Part)
  BY DEF StreamOK, TaskTyped, ClientTyped
<1>2. /\ u.pc = IF t.pc = "sending" THEN "reading" ELSE "ending"
      /\ u.body = t.body /\ u.taken = t.taken
      /\ u.item = <<>> /\ u.buffer = t.buffer /\ TaskShape(u)
  BY <1>1 DEF TaskShape
<1>3. k.channel \in Seq(Chunks) /\ n \in Nat
  BY <1>1, LenProperties DEF ClientType
<1>4. /\ Append(k.channel, t.item) \in Seq(Chunks)
      /\ Len(Append(k.channel, t.item)) = n + 1
      /\ \A i \in 1..n : Append(k.channel, t.item)[i] = k.channel[i]
      /\ Append(k.channel, t.item)[n + 1] = t.item
  BY <1>1, <1>3, AppendProperties
<1>5. /\ j.state = "open" /\ j.channel = Append(k.channel, t.item)
      /\ j.got = k.got /\ j \in ClientType
  BY <1>1, <1>4 DEF ClientType
<1> HIDE DEF u, j
<1>6. TaskTyped(u)
  BY <1>2, EmptyChunk DEF StreamOK, TaskTyped, PCs
<1>7. ClientTyped(j)
  BY <1>3, <1>4, <1>5, RelayAssumption DEF ClientTyped
<1>8. Matched(u, j)
  BY <1>2, <1>5 DEF StreamOK, Matched
<1>9. PICK cut \in [0..n -> 0..t.taken] : Cuts(t, k, cut)
  BY DEF StreamOK, Told
<1> DEFINE longer == [i \in 0..n + 1 |-> IF i = n + 1 THEN t.taken ELSE cut[i]]
<1> HIDE DEF n
<1>10. /\ longer \in [0..n + 1 -> 0..t.taken] /\ longer[n + 1] = t.taken
       /\ \A i \in 0..n : longer[i] = cut[i]
       /\ 0 \in 0..n /\ n \in 0..n
  BY <1>1, <1>3
<1> HIDE DEF longer
<1>11. /\ \A i \in 1..n :
             /\ cut[i - 1] <= cut[i]
             /\ k.channel[i] = SubSeq(t.body, cut[i - 1] + 1, cut[i])
       /\ k.got = SubSeq(t.body, 1, cut[0])
       /\ t.pc = "failing" => t.item = StreamError
       /\ t.pc = "sending" => t.item = SubSeq(t.body, cut[n] + 1, t.taken)
  <2> HIDE DEF StreamError
  <2> QED
    BY <1>9 DEF Cuts, n
<1>12. \A i \in 1..n + 1 :
          \/ /\ j.channel[i] = StreamError /\ i = n + 1 /\ u.pc \in {"ending", "done"}
          \/ /\ longer[i - 1] <= longer[i]
             /\ j.channel[i] = SubSeq(u.body, longer[i - 1] + 1, longer[i])
  <2> HIDE DEF StreamError
  <2> SUFFICES ASSUME NEW i \in 1..n + 1
               PROVE  \/ /\ j.channel[i] = StreamError /\ i = n + 1
                         /\ u.pc \in {"ending", "done"}
                      \/ /\ longer[i - 1] <= longer[i]
                         /\ j.channel[i] = SubSeq(u.body, longer[i - 1] + 1, longer[i])
    OBVIOUS
  <2>1. CASE i \in 1..n
    <3>1. i \in 0..n /\ i - 1 \in 0..n
      BY <1>3, <2>1
    <3> QED
      BY <1>2, <1>4, <1>5, <1>10, <1>11, <2>1, <3>1
  <2>2. CASE i = n + 1
    <3>1. i - 1 = n /\ longer[i - 1] = cut[n] /\ longer[i] = t.taken
      BY <1>3, <1>10, <2>2
    <3>2. j.channel[i] = t.item
      BY <1>4, <1>5, <2>2
    <3>3. cut[n] \in 0..t.taken /\ t.taken \in Nat
      BY <1>1, <1>9, <1>10
    <3>4. CASE t.pc = "sending"
      BY <1>2, <1>11, <3>1, <3>2, <3>3, <3>4
    <3>5. CASE t.pc = "failing"
      BY <1>2, <1>11, <2>2, <3>2, <3>5
    <3> QED
      BY <3>4, <3>5
  <2> QED
    BY <1>3, <2>1, <2>2
<1>13. /\ longer \in [0..Len(j.channel) -> 0..u.taken] /\ Len(j.channel) = n + 1
  BY <1>2, <1>4, <1>5, <1>10
<1>14. Cuts(u, j, longer)
  <2> HIDE DEF StreamError
  <2>1. j.got = SubSeq(u.body, 1, longer[0])
    BY <1>2, <1>5, <1>10, <1>11
  <2>2. u.pc \in {"ending", "done"} => n + 1 > 0 /\ j.channel[n + 1] = StreamError
    BY <1>2, <1>3, <1>4, <1>5, <1>11
  <2>3. longer[n + 1] = u.taken /\ u.pc \notin {"failing", "sending"}
    BY <1>2, <1>10
  <2> QED
    BY <1>12, <1>13, <2>1, <2>2, <2>3 DEF Cuts
<1>15. Told(u, j)
  BY <1>2, <1>5, <1>13, <1>14 DEF StreamOK, Told
<1> QED
  BY <1>6, <1>7, <1>8, <1>15 DEF StreamOK, u, j
----------------------------------------------------------------------------
\* The client takes an error: its response is broken, what it has stays.
LEMMA TakeErrorOK ==
    ASSUME NEW t, NEW k, StreamOK(t, k), k.state = "open", k.channel # <<>>
    PROVE  StreamOK(t, [k EXCEPT !.state = "broken", !.channel = <<>>])
<1> DEFINE j == [k EXCEPT !.state = "broken", !.channel = <<>>]
<1>1. k \in ClientType
  BY DEF StreamOK, ClientTyped
<1>2. j.state = "broken" /\ j.channel = <<>> /\ j.got = k.got /\ j \in ClientType
  BY <1>1, EmptySeq DEF ClientType
<1> HIDE DEF j
<1>3. ClientTyped(j)
  BY <1>2, EmptyChunk, RelayAssumption DEF ClientTyped
<1>4. Matched(t, j)
  BY <1>2 DEF StreamOK, Matched
<1>5. Told(t, j)
  BY <1>2 DEF StreamOK, Told
<1> QED
  BY <1>3, <1>4, <1>5 DEF StreamOK, j

\* The client takes a chunk: its share of the body grows to the next cut.
LEMMA TakeChunkOK ==
    ASSUME NEW t, NEW k, StreamOK(t, k), k.state = "open", k.channel # <<>>,
           Head(k.channel) # StreamError
    PROVE  StreamOK(t, [k EXCEPT !.channel = Tail(@), !.got = @ \o Head(k.channel)])
<1> DEFINE j == [k EXCEPT !.channel = Tail(@), !.got = @ \o Head(k.channel)]
           n == Len(k.channel)
<1>1. /\ k \in ClientType /\ t.body \in Seq(Part) /\ t.taken \in 0..Len(t.body)
      /\ Len(t.body) \in Nat /\ n <= RelaySize
  BY LenProperties DEF StreamOK, TaskTyped, ClientTyped
<1>2. /\ k.channel \in Seq(Chunks) /\ n \in Nat /\ n > 0
      /\ Head(k.channel) = k.channel[1]
      /\ Tail(k.channel) \in Seq(Chunks) /\ Len(Tail(k.channel)) = n - 1
      /\ \A i \in 1..n - 1 : Tail(k.channel)[i] = k.channel[i + 1]
  <2>1. k.channel \in Seq(Chunks)
    BY <1>1 DEF ClientType
  <2>2. Head(k.channel) = k.channel[1]
    OBVIOUS
  <2> QED
    BY <2>1, <2>2, HeadTailProperties, LenProperties, EmptySeq
<1>3. PICK cut \in [0..n -> 0..t.taken] : Cuts(t, k, cut)
  BY DEF StreamOK, Told
<1>4. /\ k.got = SubSeq(t.body, 1, cut[0])
      /\ \A i \in 1..n :
            \/ k.channel[i] = StreamError /\ i = n /\ t.pc \in {"ending", "done"}
            \/ cut[i - 1] <= cut[i] /\ k.channel[i] = SubSeq(t.body, cut[i - 1] + 1, cut[i])
      /\ t.pc \in {"posting", "reading", "failing"} => cut[n] = t.taken
      /\ t.pc = "failing" => t.item = StreamError
      /\ t.pc = "sending" => t.item = SubSeq(t.body, cut[n] + 1, t.taken)
      /\ t.pc \in {"ending", "done"} =>
            (n > 0 /\ k.channel[n] = StreamError) \/ cut[n] = Len(t.body)
  <2> HIDE DEF StreamError
  <2> QED
    BY <1>3 DEF Cuts
<1> HIDE DEF n, StreamError
<1>5. /\ cut[0] \in 0..Len(t.body) /\ cut[1] \in 0..Len(t.body) /\ cut[0] <= cut[1]
      /\ Head(k.channel) = SubSeq(t.body, cut[0] + 1, cut[1])
  <2>1. 0 \in 0..n /\ 1 \in 0..n /\ 1 \in 1..n /\ 1 - 1 = 0
    BY <1>2
  <2>2. cut[0] \in 0..t.taken /\ cut[1] \in 0..t.taken
    BY <1>3, <2>1
  <2>3. cut[1 - 1] <= cut[1] /\ k.channel[1] = SubSeq(t.body, cut[1 - 1] + 1, cut[1])
    BY <1>2, <1>4, <2>1
  <2> QED
    BY <1>1, <1>2, <2>1, <2>2, <2>3
<1>6. k.got \o Head(k.channel) = SubSeq(t.body, 1, cut[1])
  <2>1. 1 \in 1..Len(t.body) + 1 /\ cut[0] \in 1 - 1..Len(t.body) /\ cut[1] \in cut[0]..Len(t.body)
    BY <1>1, <1>5
  <2>2. SubSeq(t.body, 1, cut[0]) \o SubSeq(t.body, cut[0] + 1, cut[1]) = SubSeq(t.body, 1, cut[1])
    BY <1>1, <2>1, ConcatAdjacentSubSeq
  <2> QED
    BY <1>4, <1>5, <2>2
<1>7. SubSeq(t.body, 1, cut[1]) \in Seq(Part)
  <2>1. \A i \in 1..cut[1] : t.body[i] \in Part
    BY <1>1, <1>5, ElementOfSeq
  <2> QED
    BY <1>1, <1>5, <2>1, SubSeqProperties
<1>8. /\ j.state = "open" /\ j.channel = Tail(k.channel)
      /\ j.got = SubSeq(t.body, 1, cut[1]) /\ j \in ClientType
  BY <1>1, <1>2, <1>6, <1>7 DEF ClientType
<1> HIDE DEF j
<1>9. ClientTyped(j)
  BY <1>1, <1>2, <1>8, RelayAssumption DEF ClientTyped
<1>10. t.pc \notin {"idle", "posting"}
  BY DEF StreamOK, Matched
<1>11. Matched(t, j)
  BY <1>8, <1>10 DEF StreamOK, Matched
<1> DEFINE shifted == [i \in 0..n - 1 |-> cut[i + 1]]
<1>12. /\ shifted \in [0..n - 1 -> 0..t.taken] /\ shifted[0] = cut[1] /\ shifted[n - 1] = cut[n]
       /\ \A i \in 0..n - 1 : shifted[i] = cut[i + 1]
  <2>1. \A i \in 0..n - 1 : i + 1 \in 0..n
    BY <1>2
  <2>2. 0 \in 0..n - 1 /\ n - 1 \in 0..n - 1 /\ 0 + 1 = 1 /\ n - 1 + 1 = n
    BY <1>2
  <2>3. shifted \in [0..n - 1 -> 0..t.taken]
    BY <1>3, <2>1
  <2> QED
    BY <2>2, <2>3
<1> HIDE DEF shifted
<1>13. Cuts(t, j, shifted)
  <2>1. Len(j.channel) = n - 1
    BY <1>2, <1>8
  <2>2. ASSUME NEW i \in 1..n - 1
        PROVE  \/ j.channel[i] = StreamError /\ i = n - 1 /\ t.pc \in {"ending", "done"}
               \/ /\ shifted[i - 1] <= shifted[i]
                  /\ j.channel[i] = SubSeq(t.body, shifted[i - 1] + 1, shifted[i])
    <3>1. i + 1 \in 1..n /\ i - 1 \in 0..n - 1 /\ i \in 0..n - 1 /\ i + 1 - 1 = i /\ i - 1 + 1 = i
      BY <1>2
    <3>2. shifted[i - 1] = cut[i] /\ shifted[i] = cut[i + 1] /\ j.channel[i] = k.channel[i + 1]
      BY <1>2, <1>8, <1>12, <3>1
    <3>3. \/ k.channel[i + 1] = StreamError /\ i + 1 = n /\ t.pc \in {"ending", "done"}
          \/ cut[i] <= cut[i + 1] /\ k.channel[i + 1] = SubSeq(t.body, cut[i] + 1, cut[i + 1])
      BY <1>4, <3>1
    <3>4. i + 1 = n => i = n - 1
      BY <1>2
    <3> QED
      BY <3>2, <3>3, <3>4
  <2>3. t.pc \in {"ending", "done"} =>
           (n - 1 > 0 /\ j.channel[n - 1] = StreamError) \/ shifted[n - 1] = Len(t.body)
    <3>1. CASE n = 1
      BY <1>2, <1>4, <1>12, <3>1
    <3>2. CASE n # 1
      <4>1. n - 1 > 0 /\ n - 1 \in 1..n - 1 /\ n - 1 + 1 = n
        BY <1>2, <3>2
      <4>2. j.channel[n - 1] = k.channel[n]
        BY <1>2, <1>8, <4>1
      <4> QED
        BY <1>4, <1>12, <4>1, <4>2
    <3> QED
      BY <3>1, <3>2
  <2> QED
    BY <1>4, <1>8, <1>12, <2>1, <2>2, <2>3 DEF Cuts
<1>14. shifted \in [0..Len(j.channel) -> 0..t.taken]
  BY <1>2, <1>8, <1>12
<1>15. Told(t, j)
  BY <1>5, <1>8, <1>13, <1>14 DEF StreamOK, Told
<1> QED
  BY <1>9, <1>11, <1>15 DEF StreamOK, j

\* The end comes when the channel is empty: the last cut is the body's end.
LEMMA TakeEndOK ==
    ASSUME NEW t, NEW k, StreamOK(t, k), k.state = "open", k.channel = <<>>, t.pc = "done"
    PROVE  StreamOK(t, [k EXCEPT !.state = "served"])
<1> DEFINE j == [k EXCEPT !.state = "served"]
<1>1. k \in ClientType /\ Len(k.channel) <= RelaySize /\ t.body \in Seq(Part)
  BY DEF StreamOK, ClientTyped, TaskTyped
<1>2. j.state = "served" /\ j.channel = k.channel /\ j.got = k.got /\ j \in ClientType
  BY <1>1 DEF ClientType
<1> HIDE DEF j
<1>3. Len(k.channel) = 0
  BY EmptySeq
<1>4. PICK cut \in [0..Len(k.channel) -> 0..t.taken] : Cuts(t, k, cut)
  BY DEF StreamOK, Told
<1>5. k.got = SubSeq(t.body, 1, cut[0]) /\ cut[0] = Len(t.body)
  BY <1>3, <1>4 DEF Cuts
<1>6. k.got = t.body
  BY <1>1, <1>5, SubSeqFull
<1>7. ClientTyped(j) /\ Matched(t, j) /\ Told(t, j)
  <2>1. ClientTyped(j)
    BY <1>1, <1>2 DEF ClientTyped
  <2>2. Matched(t, j)
    BY <1>2 DEF StreamOK, Matched
  <2>3. Told(t, j)
    BY <1>2, <1>6 DEF StreamOK, Told
  <2> QED
    BY <2>1, <2>2, <2>3
<1> QED
  BY <1>7 DEF StreamOK, j
----------------------------------------------------------------------------
(* All streams, the access log and the server.                             *)

Finished == {s \in Streams : task[s].pc = "done"}

\* The writer stops for good when nobody can send it anything more.
Stopped ==
    /\ writer \in {"flushing", "stopped"} =>
          /\ queue = <<>> /\ server \in {"flushing", "exited"}
          /\ \A s \in Streams : task[s].pc \in {"idle", "done", "dropped"}
                                /\ client[s].state # "open"
    /\ writer = "stopped" => buf = <<>>
    /\ server = "exited" => writer = "stopped"

StreamsOK ==
    /\ task = [s \in Streams |-> task[s]]
    /\ client = [s \in Streams |-> client[s]]
    /\ \A s \in Streams : StreamOK(task[s], client[s])

Inv ==
    /\ StreamsOK
    /\ LogOK(Finished)
    /\ server \in {"serving", "draining", "flushing", "exited"}
    /\ Stopped

\* At the start nothing is requested and nothing recorded.
LEMMA InitOK == Init => Inv
<1> SUFFICES ASSUME Init PROVE Inv
  OBVIOUS
<1>1. /\ Idle.pc = "idle" /\ Idle.body = <<>> /\ Idle.taken = 0 /\ Idle.item = <<>>
      /\ Idle.buffer.carry = <<>> /\ TaskShape(Idle)
      /\ NoClient.state = "none" /\ NoClient.channel = <<>> /\ NoClient.got = <<>>
  BY DEF Idle, NoClient, TaskShape
<1>2. NoClient \in ClientType
  BY EmptySeq DEF NoClient, ClientType
<1>3. StreamOK(Idle, NoClient)
  <2>1. 0 <= MaxCarry /\ 0 <= RelaySize
    BY ParserAssumption, RelayAssumption
  <2>2. TaskTyped(Idle)
    BY <1>1, <2>1, EmptyChunk DEF TaskTyped, PCs
  <2>3. ClientTyped(NoClient)
    BY <1>1, <1>2, <2>1, EmptyChunk DEF ClientTyped
  <2>4. Matched(Idle, NoClient)
    BY <1>1 DEF Matched
  <2>5. SubSeq(<<>>, 1, 0) = <<>> /\ 0 \in 0..Len(<<>>)
    BY EmptyChunk, SubSeqEmpty
  <2>6. Told(Idle, NoClient)
    BY <1>1, <2>5 DEF Told
  <2> QED
    BY <2>2, <2>3, <2>4, <2>6 DEF StreamOK
<1>4. StreamsOK
  BY <1>3 DEF Init, StreamsOK
<1>5. LogOK(Finished)
  <2>1. Finished = {}
    BY <1>1 DEF Init, Finished
  <2> QED
    BY <2>1, LogInitOK DEF Init
<1>6. Stopped
  BY DEF Init, LogInit, Stopped
<1> QED
  BY <1>4, <1>5, <1>6 DEF Init, Inv

\* A step of one stream.
LEMMA OneStream ==
    ASSUME StreamsOK, NEW s \in Streams,
           task' = [r \in Streams |-> task'[r]], client' = [r \in Streams |-> client'[r]],
           \A r \in Streams \ {s} : task'[r] = task[r] /\ client'[r] = client[r],
           StreamOK(task'[s], client'[s])
    PROVE  StreamsOK'
  BY DEF StreamsOK

\* It sends no record and ends no request.
LEMMA QuietStep ==
    ASSUME Inv, NEW s \in Streams, StreamsOK', UNCHANGED logVars,
           \A r \in Streams \ {s} : task'[r] = task[r] /\ client'[r] = client[r],
           task'[s].pc = "done" <=> task[s].pc = "done",
           task[s].pc \notin {"idle", "done", "dropped"} \/ client[s].state = "open"
             \/ server \in {"serving", "draining"},
           UNCHANGED server
    PROVE  Inv'
<1>1. Finished' = Finished
  BY DEF Finished
<1>2. LogOK(Finished)'
  BY <1>1 DEF Inv, LogOK, LogTypeOK, logVars
<1>3. writer \notin {"flushing", "stopped"}
  BY DEF Inv, Stopped
<1>4. Stopped'
  BY <1>3 DEF Inv, Stopped, logVars
<1> QED
  BY <1>2, <1>4 DEF Inv

\* It ends its request and sends the record.
LEMMA RecordedStep ==
    ASSUME Inv, NEW s \in Streams, StreamsOK', TrySend(s),
           \A r \in Streams \ {s} : task'[r] = task[r],
           task[s].pc \notin {"idle", "done", "dropped"}, task'[s].pc = "done",
           UNCHANGED server
    PROVE  Inv'
<1>1. PICK D : D = Finished
  OBVIOUS
<1>2. s \in Records /\ s \notin D
  BY <1>1, RelayAssumption DEF Finished
<1>3. LogOK(D \cup {s})'
  BY <1>1, <1>2, TrySendOK DEF Inv
<1>4. Finished' = D \cup {s}
  BY <1>1 DEF Finished
<1>5. LogOK(Finished)'
  BY <1>3, <1>4
<1>6. writer \notin {"flushing", "stopped"} /\ writer' = writer
  BY DEF Inv, Stopped, TrySend
<1>7. Stopped'
  BY <1>6 DEF Inv, Stopped
<1> QED
  BY <1>5, <1>7 DEF Inv
----------------------------------------------------------------------------
(* Every action.                                                           *)

\* A body is a sequence of parts.
LEMMA BodiesTyped ==
    ASSUME NEW s \in Streams, NEW b \in Bodies[s]
    PROVE  b.bytes \in Seq(Part)
<1>1. b.bytes \in Seq(ToSet(b.bytes))
  BY RelayAssumption
<1>2. ToSet(b.bytes) \subseteq Part
  BY DEF Part
<1> HIDE DEF Part
<1> QED
  BY <1>1, <1>2

\* The steps of a request and its task.
LEMMA TaskSteps ==
    ASSUME Inv, NEW s \in Streams, Accept(s) \/ Task(s)
    PROVE  Inv'
<1> DEFINE t == task[s]
           k == client[s]
<1>1. /\ StreamsOK /\ StreamOK(t, k)
      /\ task = [r \in Streams |-> task[r]] /\ client = [r \in Streams |-> client[r]]
  BY DEF Inv, StreamsOK
<1>2. CASE Accept(s)
  <2>1. PICK b \in Bodies[s] :
           task' = [task EXCEPT ![s].pc = "posting", ![s].protocol = b.protocol,
                                ![s].body = b.bytes]
    BY <1>2 DEF Accept
  <2>2. /\ t.pc = "idle" /\ client' = [client EXCEPT ![s].state = "open"]
        /\ server \in {"serving", "draining"} /\ UNCHANGED <<server, logVars>>
    BY <1>2 DEF Accept
  <2>3. /\ task'[s] = [t EXCEPT !.pc = "posting", !.protocol = b.protocol, !.body = b.bytes]
        /\ task' = [r \in Streams |-> task'[r]]
        /\ \A r \in Streams \ {s} : task'[r] = task[r]
    BY <1>1, <2>1
  <2>4. /\ client'[s] = [k EXCEPT !.state = "open"]
        /\ client' = [r \in Streams |-> client'[r]]
        /\ \A r \in Streams \ {s} : client'[r] = client[r]
    BY <1>1, <2>2
  <2>5. StreamOK(task'[s], client'[s])
    <3>1. b.bytes \in Seq(Part)
      BY BodiesTyped
    <3>2. StreamOK([t EXCEPT !.pc = "posting", !.protocol = b.protocol, !.body = b.bytes],
                   [k EXCEPT !.state = "open"])
      BY <1>1, <2>2, <3>1, AcceptOK
    <3> QED
      BY <2>3, <2>4, <3>2
  <2>6. StreamsOK'
    BY <1>1, <2>3, <2>4, <2>5, OneStream
  <2>7. task'[s].pc = "posting"
    BY <1>1, <2>3 DEF StreamOK, TaskTyped, TaskShape
  <2> QED
    BY <2>2, <2>3, <2>4, <2>6, <2>7, QuietStep
<1>3. CASE Spawn(s)
  <2>1. /\ t.pc = "posting"
        /\ task' = [task EXCEPT ![s].pc = "reading"]
        /\ client' = client /\ UNCHANGED <<server, logVars>>
    BY <1>3 DEF Spawn
  <2>2. /\ task'[s] = [t EXCEPT !.pc = "reading"]
        /\ task' = [r \in Streams |-> task'[r]] /\ client' = [r \in Streams |-> client'[r]]
        /\ client'[s] = k
        /\ \A r \in Streams \ {s} : task'[r] = task[r] /\ client'[r] = client[r]
    BY <1>1, <2>1
  <2>3. StreamOK(task'[s], client'[s])
    BY <1>1, <2>1, <2>2, SpawnOK
  <2>4. StreamsOK'
    BY <1>1, <2>2, <2>3, OneStream
  <2>5. task'[s].pc = "reading"
    BY <1>1, <2>2 DEF StreamOK, TaskTyped, TaskShape
  <2> QED
    BY <2>1, <2>2, <2>4, <2>5, QuietStep
<1>4. CASE Break(s)
  <2>1. /\ t.pc = "reading"
        /\ task' = [task EXCEPT ![s].pc = "failing", ![s].item = StreamError]
        /\ client' = client /\ UNCHANGED <<server, logVars>>
    BY <1>4 DEF Break
  <2> HIDE DEF StreamError
  <2>2. /\ task'[s] = [t EXCEPT !.pc = "failing", !.item = StreamError]
        /\ task' = [r \in Streams |-> task'[r]] /\ client' = [r \in Streams |-> client'[r]]
        /\ client'[s] = k
        /\ \A r \in Streams \ {s} : task'[r] = task[r] /\ client'[r] = client[r]
    BY <1>1, <2>1
  <2>3. StreamOK(task'[s], client'[s])
    BY <1>1, <2>1, <2>2, BreakOK
  <2>4. StreamsOK'
    BY <1>1, <2>2, <2>3, OneStream
  <2>5. task'[s].pc = "failing"
    BY <1>1, <2>2 DEF StreamOK, TaskTyped, TaskShape
  <2> QED
    BY <2>1, <2>2, <2>4, <2>5, QuietStep
<1>5. CASE EndOfBody(s)
  <2>1. /\ t.pc = "reading" /\ t.taken = Len(t.body)
        /\ task' = [task EXCEPT ![s].pc = "ending"]
        /\ client' = client /\ UNCHANGED <<server, logVars>>
    BY <1>5 DEF EndOfBody
  <2>2. /\ task'[s] = [t EXCEPT !.pc = "ending"]
        /\ task' = [r \in Streams |-> task'[r]] /\ client' = [r \in Streams |-> client'[r]]
        /\ client'[s] = k
        /\ \A r \in Streams \ {s} : task'[r] = task[r] /\ client'[r] = client[r]
    BY <1>1, <2>1
  <2>3. StreamOK(task'[s], client'[s])
    BY <1>1, <2>1, <2>2, EndOfBodyOK
  <2>4. StreamsOK'
    BY <1>1, <2>2, <2>3, OneStream
  <2>5. task'[s].pc = "ending"
    BY <1>1, <2>2 DEF StreamOK, TaskTyped, TaskShape
  <2> QED
    BY <2>1, <2>2, <2>4, <2>5, QuietStep
<1>6. CASE SendFails(s)
  <2>1. /\ t.pc \in {"sending", "failing"} /\ k.state # "open"
        /\ task' = [task EXCEPT ![s].pc = "ending", ![s].item = <<>>]
        /\ client' = client /\ UNCHANGED <<server, logVars>>
    BY <1>6 DEF SendFails, Open
  <2>2. /\ task'[s] = [t EXCEPT !.pc = "ending", !.item = <<>>]
        /\ task' = [r \in Streams |-> task'[r]] /\ client' = [r \in Streams |-> client'[r]]
        /\ client'[s] = k
        /\ \A r \in Streams \ {s} : task'[r] = task[r] /\ client'[r] = client[r]
    BY <1>1, <2>1
  <2>3. StreamOK(task'[s], client'[s])
    BY <1>1, <2>1, <2>2, SendFailsOK
  <2>4. StreamsOK'
    BY <1>1, <2>2, <2>3, OneStream
  <2>5. task'[s].pc = "ending"
    BY <1>1, <2>2 DEF StreamOK, TaskTyped, TaskShape
  <2> QED
    BY <2>1, <2>2, <2>4, <2>5, QuietStep
<1>7. CASE Receive(s)
  <2>1. PICK n \in t.taken + 1 .. Len(t.body) :
           task' = [task EXCEPT ![s].pc = "sending",
                                ![s].taken = n,
                                ![s].item = SubSeq(t.body, t.taken + 1, n),
                                ![s].buffer = Push(t.protocol, t.buffer,
                                                   SubSeq(t.body, t.taken + 1, n))]
    BY <1>7 DEF Receive
  <2>2. t.pc = "reading" /\ client' = client /\ UNCHANGED <<server, logVars>>
    BY <1>7 DEF Receive
  <2> DEFINE chunk == SubSeq(t.body, t.taken + 1, n)
             push == Push(t.protocol, t.buffer, chunk)
  <2>3. StreamOK([t EXCEPT !.pc = "sending", !.taken = n, !.item = chunk, !.buffer = push], k)
    BY <1>1, <2>2, ReceiveOK
  <2>4. task' = [task EXCEPT ![s].pc = "sending", ![s].taken = n,
                             ![s].item = chunk, ![s].buffer = push]
    BY <2>1
  <2> HIDE DEF push, chunk
  <2>5. /\ task'[s] = [t EXCEPT !.pc = "sending", !.taken = n, !.item = chunk, !.buffer = push]
        /\ task' = [r \in Streams |-> task'[r]] /\ client' = [r \in Streams |-> client'[r]]
        /\ client'[s] = k
        /\ \A r \in Streams \ {s} : task'[r] = task[r] /\ client'[r] = client[r]
    BY <1>1, <2>2, <2>4
  <2>6. StreamsOK'
    BY <1>1, <2>3, <2>5, OneStream
  <2>7. task'[s].pc = "sending"
    BY <1>1, <2>5 DEF StreamOK, TaskTyped, TaskShape
  <2> QED
    BY <2>2, <2>5, <2>6, <2>7, QuietStep
<1>8. CASE Send(s)
  <2>1. /\ t.pc \in {"sending", "failing"} /\ k.state = "open" /\ Len(k.channel) < RelaySize
        /\ client' = [client EXCEPT ![s].channel = Append(@, t.item)]
        /\ task' = [task EXCEPT ![s].pc = IF @ = "sending" THEN "reading" ELSE "ending",
                                ![s].item = <<>>]
        /\ UNCHANGED <<server, logVars>>
    BY <1>8 DEF Send, Open
  <2>2. /\ task'[s] = [t EXCEPT !.pc = IF @ = "sending" THEN "reading" ELSE "ending",
                                !.item = <<>>]
        /\ task' = [r \in Streams |-> task'[r]]
        /\ \A r \in Streams \ {s} : task'[r] = task[r]
    BY <1>1, <2>1
  <2>3. /\ client'[s] = [k EXCEPT !.channel = Append(@, t.item)]
        /\ client' = [r \in Streams |-> client'[r]]
        /\ \A r \in Streams \ {s} : client'[r] = client[r]
    BY <1>1, <2>1
  <2>4. StreamOK(task'[s], client'[s])
    BY <1>1, <2>1, <2>2, <2>3, SendOK
  <2>5. StreamsOK'
    BY <1>1, <2>2, <2>3, <2>4, OneStream
  <2>6. task'[s].pc \in {"reading", "ending"}
    BY <1>1, <2>2 DEF StreamOK, TaskTyped, TaskShape
  <2> QED
    BY <2>1, <2>2, <2>3, <2>5, <2>6, QuietStep
<1>9. CASE Finish(s)
  <2>1. /\ t.pc = "ending" /\ TrySend(s) /\ client' = client /\ UNCHANGED server
        /\ task' = [task EXCEPT ![s].pc = "done", ![s].buffer = Flush(t.protocol, t.buffer)]
    BY <1>9 DEF Finish, EmitAccessLog
  <2>2. /\ task'[s] = [t EXCEPT !.pc = "done", !.buffer = Flush(t.protocol, t.buffer)]
        /\ task' = [r \in Streams |-> task'[r]] /\ client' = [r \in Streams |-> client'[r]]
        /\ client'[s] = k
        /\ \A r \in Streams \ {s} : task'[r] = task[r] /\ client'[r] = client[r]
    BY <1>1, <2>1
  <2>3. StreamOK(task'[s], client'[s])
    BY <1>1, <2>1, <2>2, FinishOK
  <2>4. StreamsOK'
    BY <1>1, <2>2, <2>3, OneStream
  <2>5. task'[s].pc = "done"
    BY <1>1, <2>2 DEF StreamOK, TaskTyped, TaskShape
  <2> QED
    BY <2>1, <2>2, <2>4, <2>5, RecordedStep
<1>10. CASE Refused(s)
  <2>1. /\ t.pc = "posting" /\ TrySend(s) /\ UNCHANGED server
        /\ task' = [task EXCEPT ![s].pc = "done"]
        /\ client' = [client EXCEPT ![s].state = "answered"]
    BY <1>10 DEF Refused, EmitAccessLog
  <2>2. /\ task'[s] = [t EXCEPT !.pc = "done"]
        /\ task' = [r \in Streams |-> task'[r]]
        /\ \A r \in Streams \ {s} : task'[r] = task[r]
    BY <1>1, <2>1
  <2>3. /\ client'[s] = [k EXCEPT !.state = "answered"]
        /\ client' = [r \in Streams |-> client'[r]]
        /\ \A r \in Streams \ {s} : client'[r] = client[r]
    BY <1>1, <2>1
  <2>4. StreamOK(task'[s], client'[s])
    BY <1>1, <2>1, <2>2, <2>3, RefusedOK
  <2>5. StreamsOK'
    BY <1>1, <2>2, <2>3, <2>4, OneStream
  <2>6. task'[s].pc = "done"
    BY <1>1, <2>2 DEF StreamOK, TaskTyped, TaskShape
  <2> QED
    BY <2>1, <2>2, <2>5, <2>6, RecordedStep
<1> QED
  BY <1>2, <1>3, <1>4, <1>5, <1>6, <1>7, <1>8, <1>9, <1>10 DEF Task, Upstream, Relay

\* A connection is dropped, by the client or at the end of the grace period.
LEMMA DisconnectStep ==
    ASSUME Inv, NEW s \in Streams, Disconnect(s)
    PROVE  Inv'
<1> DEFINE t == task[s]
           k == client[s]
<1>1. /\ StreamsOK /\ StreamOK(t, k)
      /\ task = [r \in Streams |-> task[r]] /\ client = [r \in Streams |-> client[r]]
  BY DEF Inv, StreamsOK
<1>2. /\ k.state = "open"
      /\ client' = [client EXCEPT ![s].state = "gone", ![s].channel = <<>>]
      /\ task' = [task EXCEPT ![s].pc = IF @ = "posting" THEN "dropped" ELSE @]
      /\ UNCHANGED <<server, logVars>>
  BY DEF Disconnect, Open
<1>3. /\ task'[s] = [t EXCEPT !.pc = IF @ = "posting" THEN "dropped" ELSE @]
      /\ task' = [r \in Streams |-> task'[r]]
      /\ \A r \in Streams \ {s} : task'[r] = task[r]
  BY <1>1, <1>2
<1>4. /\ client'[s] = [k EXCEPT !.state = "gone", !.channel = <<>>]
      /\ client' = [r \in Streams |-> client'[r]]
      /\ \A r \in Streams \ {s} : client'[r] = client[r]
  BY <1>1, <1>2
<1>5. StreamOK(task'[s], client'[s])
  BY <1>1, <1>2, <1>3, <1>4, DisconnectOK
<1>6. StreamsOK'
  BY <1>1, <1>3, <1>4, <1>5, OneStream
<1>7. task'[s].pc = IF t.pc = "posting" THEN "dropped" ELSE t.pc
  BY <1>1, <1>3 DEF StreamOK, TaskTyped, TaskShape
<1>8. task'[s].pc = "done" <=> task[s].pc = "done"
  BY <1>7
<1>9. \A r \in Streams \ {s} : task'[r] = task[r] /\ client'[r] = client[r]
  BY <1>3, <1>4
<1> QED
  BY <1>2, <1>6, <1>8, <1>9, QuietStep

\* The steps of a client.
LEMMA ClientSteps ==
    ASSUME Inv, NEW s \in Streams, Take(s) \/ TakeEnd(s)
    PROVE  Inv'
<1> DEFINE t == task[s]
           k == client[s]
<1>1. /\ StreamsOK /\ StreamOK(t, k)
      /\ task = [r \in Streams |-> task[r]] /\ client = [r \in Streams |-> client[r]]
  BY DEF Inv, StreamsOK
<1>2. /\ k.state = "open" /\ task' = task /\ UNCHANGED <<server, logVars>>
  BY DEF Take, TakeEnd, Open
<1>3. ASSUME NEW j, client' = [client EXCEPT ![s] = j], StreamOK(t, j)
      PROVE  Inv'
  <2>1. /\ client'[s] = j /\ client' = [r \in Streams |-> client'[r]]
        /\ \A r \in Streams \ {s} : client'[r] = client[r]
    BY <1>1, <1>3
  <2>2. task'[s] = t /\ task' = [r \in Streams |-> task'[r]]
    BY <1>1, <1>2
  <2>3. StreamsOK'
    BY <1>1, <1>2, <1>3, <2>1, <2>2, OneStream
  <2> QED
    BY <1>2, <2>1, <2>2, <2>3, QuietStep
<1>4. CASE Take(s)
  <2>1. /\ k.channel # <<>>
        /\ \/ /\ Head(k.channel) = StreamError
              /\ client' = [client EXCEPT ![s].state = "broken", ![s].channel = <<>>]
           \/ /\ Head(k.channel) # StreamError
              /\ client' = [client EXCEPT ![s].channel = Tail(@),
                                          ![s].got = @ \o Head(k.channel)]
    BY <1>4 DEF Take
  <2> HIDE DEF StreamError
  <2>2. CASE Head(k.channel) = StreamError
    <3>1. client' = [client EXCEPT ![s] = [k EXCEPT !.state = "broken", !.channel = <<>>]]
      BY <1>1, <2>1, <2>2
    <3> QED
      BY <1>1, <1>2, <1>3, <2>1, <3>1, TakeErrorOK
  <2>3. CASE Head(k.channel) # StreamError
    <3>1. client' = [client EXCEPT
               ![s] = [k EXCEPT !.channel = Tail(@), !.got = @ \o Head(k.channel)]]
      BY <1>1, <2>1, <2>3
    <3> QED
      BY <1>1, <1>2, <1>3, <2>1, <2>3, <3>1, TakeChunkOK
  <2> QED
    BY <2>2, <2>3
<1>5. CASE TakeEnd(s)
  <2>1. k.channel = <<>> /\ t.pc = "done" /\ client' = [client EXCEPT ![s].state = "served"]
    BY <1>5 DEF TakeEnd
  <2>2. client' = [client EXCEPT ![s] = [k EXCEPT !.state = "served"]]
    BY <1>1, <2>1
  <2> QED
    BY <1>1, <1>2, <1>3, <2>1, <2>2, TakeEndOK
<1> QED
  BY <1>4, <1>5

\* The steps of the log writer.
LEMMA WriterSteps ==
    ASSUME Inv, Writer
    PROVE  Inv'
<1>1. WriterStep(SinksDropped) /\ UNCHANGED <<task, client, server>>
  BY DEF Writer
<1>2. PICK D : D = Finished
  OBVIOUS
<1>3. LogOK(D) /\ Finished' = D
  BY <1>1, <1>2 DEF Inv, Finished
<1>4. LogOK(D)'
  <2>1. CASE SinksDropped
    <3>1. WriterStep(TRUE)
      BY <1>1, <2>1 DEF WriterStep, Drained
    <3> QED
      BY <1>3, <3>1, WriterOK
  <2>2. CASE ~SinksDropped
    <3>1. WriterStep(FALSE)
      BY <1>1, <2>2 DEF WriterStep, Drained
    <3> QED
      BY <1>3, <3>1, WriterOK
  <2> QED
    BY <2>1, <2>2
<1>5. StreamsOK'
  BY <1>1 DEF Inv, StreamsOK
<1>6. Stopped'
  <2>1. CASE Recv
    <3>1. writer = "waiting" /\ writer' \in {"waiting", "writing"}
      BY <2>1 DEF Recv
    <3> QED
      BY <1>1, <3>1 DEF Inv, Stopped
  <2>2. CASE FlushTick
    BY <1>1, <2>2 DEF FlushTick, Inv, Stopped
  <2>3. CASE Drained(SinksDropped)
    <3>1. /\ writer = "waiting" /\ queue = <<>> /\ queue' = queue /\ buf' = buf
          /\ SinksDropped /\ writer' = IF buf = <<>> THEN "stopped" ELSE "flushing"
      BY <2>3 DEF Drained
    <3>2. /\ server' = "flushing"
          /\ \A s \in Streams : task'[s].pc \in {"idle", "done", "dropped"}
                                /\ client'[s].state # "open"
      BY <1>1, <3>1 DEF SinksDropped, Open
    <3> QED
      BY <3>1, <3>2 DEF Stopped
  <2>4. CASE Inserted
    <3>1. /\ writer \in {"writing", "flushing"} /\ queue' = queue /\ buf' = <<>>
          /\ writer' = IF writer = "writing" THEN "waiting" ELSE "stopped"
      BY <2>4 DEF Inserted
    <3> QED
      BY <1>1, <3>1 DEF Inv, Stopped
  <2> QED
    BY <1>1, <2>1, <2>2, <2>3, <2>4 DEF WriterStep
<1>7. LogOK(Finished)'
  BY <1>3, <1>4
<1> QED
  BY <1>1, <1>5, <1>6, <1>7 DEF Inv

\* The steps of the server.
LEMMA ServerSteps ==
    ASSUME Inv, Signal \/ Served \/ Exit
    PROVE  Inv'
<1>1. UNCHANGED <<task, client, logVars>>
  BY DEF Signal, Served, Exit
<1>2. StreamsOK' /\ Finished' = Finished
  BY <1>1 DEF Inv, StreamsOK, Finished
<1>3. LogOK(Finished)'
  BY <1>1, <1>2 DEF Inv, LogOK, LogTypeOK, logVars
<1>4. server' \in {"serving", "draining", "flushing", "exited"} /\ Stopped'
  BY <1>1 DEF Signal, Served, Exit, Inv, Stopped, logVars
<1> QED
  BY <1>2, <1>3, <1>4 DEF Inv

\* The inductive invariant: each stream with its cuts, the log with the
\* records of the finished, and a writer that stops when all have finished.
LEMMA Invariance == Spec => []Inv
<1>1. Inv /\ [Next]_vars => Inv'
  <2> SUFFICES ASSUME Inv, [Next]_vars PROVE Inv'
    OBVIOUS
  <2>1. ASSUME NEW s \in Streams, Accept(s) \/ Task(s) \/ Client(s)
        PROVE  Inv'
    BY <2>1, TaskSteps, ClientSteps, DisconnectStep DEF Client, HangUp
  <2>2. CASE Signal \/ Shutdown
    BY <2>2, ServerSteps, DisconnectStep DEF Shutdown, Close
  <2>3. CASE Writer
    BY <2>3, WriterSteps
  <2>4. CASE UNCHANGED vars
    <3>1. UNCHANGED <<task, client, server, logVars>>
      BY <2>4 DEF vars
    <3>2. StreamsOK' /\ Finished' = Finished
      BY <3>1 DEF Inv, StreamsOK, Finished
    <3>3. LogOK(Finished)'
      BY <3>1, <3>2 DEF Inv, LogOK, LogTypeOK, logVars
    <3> QED
      BY <3>1, <3>2, <3>3 DEF Inv, Stopped, logVars
  <2> QED
    BY <2>1, <2>2, <2>3, <2>4 DEF Next
<1> QED
  BY <1>1, InitOK, PTL DEF Spec
----------------------------------------------------------------------------
\* Every field keeps its type, the line buffer and both channels their size,
\* and what the line buffer holds is never more than an unfinished line.
THEOREM TypeCorrect == Spec => []TypeOK
<1>1. Inv => TypeOK
  <2> SUFFICES ASSUME Inv PROVE TypeOK
    OBVIOUS
  <2>1. LogTypeOK
    BY DEF Inv, LogOK
  <2>2. RelayTypeOK
    BY DEF Inv, StreamsOK, StreamOK, TaskTyped, ClientTyped, ClientType, PCs, RelayTypeOK
  <2> QED
    BY <2>1, <2>2 DEF TypeOK
<1> QED
  BY <1>1, Invariance, PTL

\* A client never holds anything but a prefix of the body, in its order, and
\* a response that ended as complete (the loops that send to the channel in
\* router.rs) holds all of it.
THEOREM ClientIsToldHolds == Spec => []ClientIsTold
<1>1. Inv => ClientIsTold
  <2> SUFFICES ASSUME Inv, NEW s \in Streams
               PROVE  /\ IsPrefix(client[s].got, task[s].body)
                      /\ client[s].state = "served" => client[s].got = task[s].body
    BY DEF ClientIsTold
  <2>1. StreamOK(task[s], client[s])
    BY DEF Inv, StreamsOK
  <2> DEFINE body == task[s].body
             got == client[s].got
  <2>2. body \in Seq(Part) /\ Len(body) \in Nat
    BY <2>1, LenProperties DEF StreamOK, TaskTyped
  <2>3. PICK n \in 0..Len(body) : got = SubSeq(body, 1, n)
    BY <2>1 DEF StreamOK, Told
  <2> HIDE DEF body, got
  <2>4. Len(got) = n /\ got \in Seq(Part)
    <3>1. \A i \in 1..n : body[i] \in Part
      BY <2>2, ElementOfSeq
    <3> QED
      BY <2>2, <2>3, <3>1, SubSeqProperties
  <2>5. SubSeq(got, 1, Len(got)) = got
    BY <2>4, SubSeqFull
  <2>6. IsPrefix(got, body)
    BY <2>2, <2>3, <2>4, <2>5 DEF IsPrefix
  <2> QED
    BY <2>1, <2>6 DEF StreamOK, Told, body, got
<1> QED
  BY <1>1, Invariance, PTL

\* The record of a request that ran to its end (emit_access_log) is in the
\* channel, in the batch or in the table, once, or counted as lost; and a
\* process that exits leaves none behind in the first two.
THEOREM RecordsAreKeptHolds == Spec => []RecordsAreKept
<1>1. Inv => RecordsAreKept
  <2> SUFFICES ASSUME Inv PROVE RecordsAreKept
    OBVIOUS
  <2>1. LogOK(Finished) /\ Stopped
    BY DEF Inv
  <2> DEFINE front == queue \o buf
             way == front \o stored
  <2>2. Once(front) /\ front \in Seq(Records) /\ ToSet(front) = ToSet(queue) \cup ToSet(buf)
    BY <2>1, ConcatOnce DEF LogOK, LogTypeOK
  <2>3. /\ Once(way) /\ way \in Seq(Records)
        /\ ToSet(way) = ToSet(queue) \cup ToSet(buf) \cup ToSet(stored)
    <3> HIDE DEF front
    <3>1. ToSet(front) \cap ToSet(stored) = {}
      BY <2>1, <2>2 DEF LogOK
    <3>2. Once(stored) /\ stored \in Seq(Records)
      BY <2>1 DEF LogOK, LogTypeOK
    <3> QED
      BY <2>2, <3>1, <3>2, ConcatOnce
  <2> HIDE DEF way
  <2>4. ASSUME NEW s \in Streams
        PROVE  Cardinality({i \in DOMAIN way : way[i] = s}) + (IF s \in lost THEN 1 ELSE 0)
                 = (IF task[s].pc = "done" THEN 1 ELSE 0)
    <3> DEFINE rows == {i \in DOMAIN way : way[i] = s}
    <3>1. \/ s \in ToSet(way) /\ s \notin lost /\ task[s].pc = "done"
          \/ s \notin ToSet(way) /\ s \in lost /\ task[s].pc = "done"
          \/ s \notin ToSet(way) /\ s \notin lost /\ task[s].pc # "done"
      BY <2>1, <2>3 DEF LogOK, Finished
    <3>2. s \in ToSet(way) => Cardinality(rows) = 1
      <4> SUFFICES ASSUME s \in ToSet(way) PROVE Cardinality(rows) = 1
        OBVIOUS
      <4>1. PICK i \in DOMAIN way : way[i] = s
        BY DEF ToSet
      <4>2. rows = {i}
        BY <2>3, <4>1 DEF Once
      <4> QED
        BY <4>2, FS_Singleton
    <3>3. s \notin ToSet(way) => Cardinality(rows) = 0
      <4>1. s \notin ToSet(way) => rows = {}
        BY DEF ToSet
      <4> QED
        BY <4>1, FS_EmptySet
    <3> HIDE DEF rows
    <3>4. Cardinality(rows) + (IF s \in lost THEN 1 ELSE 0)
            = (IF task[s].pc = "done" THEN 1 ELSE 0)
      BY <3>1, <3>2, <3>3
    <3> QED
      BY <3>4 DEF rows
  <2>5. server = "exited" => queue = <<>> /\ buf = <<>>
    BY <2>1 DEF Stopped
  <2> QED
    BY <2>4, <2>5 DEF RecordsAreKept, way
<1> QED
  BY <1>1, Invariance, PTL
----------------------------------------------------------------------------
(* What each stream has read.                                              *)

\* Until a task is done, its buffer has read the body line by line as far as
\* it was received; then it has found what there is to be found.
ReadOK(t) ==
    /\ InLines(t.body)
    /\ Clear(t.protocol, t.body, t.taken) =>
          IF t.pc = "done"
          THEN t.buffer.found = ReadLines(t.protocol, SubSeq(t.body, 1, t.taken))
          ELSE BufferReads(t.protocol, t.body, t.taken, t.buffer)

ReadInv == \A s \in Streams : ReadOK(task[s])

\* Fewer parts are clear if more are.
LEMMA ClearBefore ==
    ASSUME NEW protocol, NEW body, NEW n \in Nat, NEW m \in Nat,
           m <= n, Clear(protocol, body, n)
    PROVE  Clear(protocol, body, m)
<1>1. \A i \in 1..m : i \in 1..n
  OBVIOUS
<1> QED
  BY <1>1 DEF Clear

\* Before anything is received nothing is found.
LEMMA NothingRead ==
    ASSUME NEW S, NEW body \in Seq(S), NEW protocol, NEW buffer
    PROVE  /\ BufferReads(protocol, body, 0, buffer) <=> buffer.carry = <<>> /\ buffer.found = Nothing
           /\ ReadLines(protocol, SubSeq(body, 1, 0)) = Nothing
<1>1. Readings(protocol, body)[0].found = Nothing
  BY ReadingsAre DEF Start
<1>2. SubSeq(body, 0 + 1, 0) = <<>> /\ SubSeq(body, 1, 0) = <<>>
  BY SubSeqEmpty
<1>3. \A k, c : Rest(body, k, c, 0) => c = 0
  BY DEF Rest, Within, Begins
<1>4. Rest(body, 0, 0, 0)
  BY DEF Rest, Within, Begins
<1>5. ASSUME BufferReads(protocol, body, 0, buffer)
      PROVE  buffer.carry = <<>> /\ buffer.found = Nothing
  <2>1. PICK k, c : /\ Rest(body, k, c, 0) /\ buffer.carry = SubSeq(body, c + 1, 0)
                    /\ buffer.found = Readings(protocol, body)[0].found
    BY <1>5 DEF BufferReads
  <2> QED
    BY <1>1, <1>2, <1>3, <2>1
<1>6. ASSUME buffer.carry = <<>>, buffer.found = Nothing
      PROVE  BufferReads(protocol, body, 0, buffer)
  BY <1>1, <1>2, <1>4, <1>6 DEF BufferReads
<1>7. ReadLines(protocol, SubSeq(body, 1, 0)) = Nothing
  <2>1. 0 <= Len(body) /\ Readings(protocol, body)[0] = Start
    BY LenProperties, ReadingsAre
  <2>2. ReadLines(protocol, SubSeq(body, 1, 0)) = Ended(protocol, Start)
    BY <2>1, LinesRead
  <2> QED
    BY <2>2 DEF Ended, Start
<1> QED
  BY <1>5, <1>6, <1>7

\* The bodies that are sent consist of lines.
LEMMA BodiesInLines ==
    ASSUME NEW s \in Streams, NEW b \in Bodies[s]
    PROVE  InLines(b.bytes)
  BY RelayAssumption

\* A step of one task keeps what it has read.
LEMMA TaskReads ==
    ASSUME Inv, ReadInv, NEW s \in Streams, Accept(s) \/ Task(s) \/ Disconnect(s)
    PROVE  ReadInv'
<1> DEFINE t == task[s]
<1>1. /\ task = [r \in Streams |-> task[r]] /\ TaskTyped(t) /\ TaskShape(t)
      /\ t.body \in Seq(Part) /\ t.taken \in Nat /\ t.taken <= Len(t.body) /\ Len(t.body) \in Nat
      /\ ReadOK(t) /\ InLines(t.body)
      /\ t.pc \in {"idle", "posting"} => t.taken = 0
      /\ t.pc \in {"idle", "posting", "done"} => t.buffer.carry = <<>>
  BY LenProperties DEF Inv, StreamsOK, StreamOK, TaskTyped, Matched, ReadInv, ReadOK
<1>2. ASSUME NEW u, task' = [task EXCEPT ![s] = u], ReadOK(u)
      PROVE  ReadInv'
  <2>1. \A r \in Streams : task'[r] = IF r = s THEN u ELSE task[r]
    BY <1>1, <1>2
  <2> QED
    BY <1>2, <2>1 DEF ReadInv, ReadOK
<1>3. ASSUME NEW u, task' = [task EXCEPT ![s] = u],
             u.protocol = t.protocol, u.body = t.body, u.taken = t.taken, u.buffer = t.buffer,
             u.pc = "done" <=> t.pc = "done"
      PROVE  ReadInv'
  <2>1. ReadOK(u)
    BY <1>1, <1>3 DEF ReadOK
  <2> QED
    BY <1>2, <1>3, <2>1
<1>4. CASE Accept(s)
  <2>1. PICK b \in Bodies[s] :
           /\ t.pc = "idle"
           /\ task' = [task EXCEPT ![s].pc = "posting", ![s].protocol = b.protocol,
                                   ![s].body = b.bytes]
    BY <1>4 DEF Accept
  <2>2. PICK u : u = [t EXCEPT !.pc = "posting", !.protocol = b.protocol, !.body = b.bytes]
    OBVIOUS
  <2>3. /\ u.pc = "posting" /\ u.protocol = b.protocol /\ u.body = b.bytes
        /\ u.taken = 0 /\ u.buffer = t.buffer
    BY <1>1, <2>1, <2>2 DEF TaskShape
  <2>4. t.buffer.found = Nothing /\ t.buffer.carry = <<>>
    <3>1. Clear(t.protocol, t.body, 0)
      BY DEF Clear
    <3>2. BufferReads(t.protocol, t.body, 0, t.buffer)
      BY <1>1, <2>1, <3>1 DEF ReadOK
    <3> QED
      BY <1>1, <3>2, NothingRead
  <2>5. BufferReads(u.protocol, u.body, 0, u.buffer) /\ InLines(u.body)
    <3>1. b.bytes \in Seq(Part) /\ InLines(b.bytes)
      BY BodiesTyped, BodiesInLines
    <3>2. BufferReads(b.protocol, b.bytes, 0, t.buffer)
      BY <2>4, <3>1, NothingRead
    <3> QED
      BY <2>3, <3>1, <3>2
  <2>6. ReadOK(u)
    BY <2>3, <2>5 DEF ReadOK
  <2>7. task' = [task EXCEPT ![s] = u]
    BY <1>1, <2>1, <2>2
  <2> QED
    BY <1>2, <2>6, <2>7
<1>5. CASE Spawn(s)
  <2>1. t.pc = "posting" /\ task' = [task EXCEPT ![s] = [t EXCEPT !.pc = "reading"]]
    BY <1>1, <1>5 DEF Spawn
  <2> QED
    BY <1>1, <1>3, <2>1 DEF TaskShape
<1>6. CASE Break(s)
  <2> HIDE DEF StreamError
  <2>1. /\ t.pc = "reading"
        /\ task' = [task EXCEPT ![s] = [t EXCEPT !.pc = "failing", !.item = StreamError]]
    BY <1>1, <1>6 DEF Break
  <2> QED
    BY <1>1, <1>3, <2>1 DEF TaskShape
<1>7. CASE EndOfBody(s)
  <2>1. t.pc = "reading" /\ task' = [task EXCEPT ![s] = [t EXCEPT !.pc = "ending"]]
    BY <1>1, <1>7 DEF EndOfBody
  <2> QED
    BY <1>1, <1>3, <2>1 DEF TaskShape
<1>8. CASE SendFails(s)
  <2>1. /\ t.pc \in {"sending", "failing"}
        /\ task' = [task EXCEPT ![s] = [t EXCEPT !.pc = "ending", !.item = <<>>]]
    BY <1>1, <1>8 DEF SendFails
  <2> QED
    BY <1>1, <1>3, <2>1 DEF TaskShape
<1>9. CASE Send(s)
  <2>1. /\ t.pc \in {"sending", "failing"}
        /\ task' = [task EXCEPT ![s] = [t EXCEPT !.pc = IF @ = "sending" THEN "reading" ELSE "ending",
                                                 !.item = <<>>]]
    BY <1>1, <1>9 DEF Send
  <2>2. PICK u : u = [t EXCEPT !.pc = IF @ = "sending" THEN "reading" ELSE "ending", !.item = <<>>]
    OBVIOUS
  <2>3. /\ u.pc \in {"reading", "ending"} /\ u.protocol = t.protocol /\ u.body = t.body
        /\ u.taken = t.taken /\ u.buffer = t.buffer
    BY <1>1, <2>2 DEF TaskShape
  <2> QED
    BY <1>3, <2>1, <2>2, <2>3
<1>10. CASE Disconnect(s)
  <2>1. task' = [task EXCEPT ![s] = [t EXCEPT !.pc = IF @ = "posting" THEN "dropped" ELSE @]]
    BY <1>1, <1>10 DEF Disconnect
  <2>2. PICK u : u = [t EXCEPT !.pc = IF @ = "posting" THEN "dropped" ELSE @]
    OBVIOUS
  <2>3. /\ u.pc = IF t.pc = "posting" THEN "dropped" ELSE t.pc
        /\ u.protocol = t.protocol /\ u.body = t.body
        /\ u.taken = t.taken /\ u.buffer = t.buffer
    BY <1>1, <2>2 DEF TaskShape
  <2>4. u.pc = "done" <=> t.pc = "done"
    BY <2>3
  <2>5. u.pc # "posting" \/ t.pc = "posting"
    BY <2>3
  <2>6. task' = [task EXCEPT ![s] = u]
    BY <2>1, <2>2
  <2> QED
    BY <1>3, <2>3, <2>4, <2>5, <2>6
<1>11. CASE Refused(s)
  <2>1. t.pc = "posting" /\ task' = [task EXCEPT ![s] = [t EXCEPT !.pc = "done"]]
    BY <1>1, <1>11 DEF Refused
  <2>2. PICK u : u = [t EXCEPT !.pc = "done"]
    OBVIOUS
  <2>3. /\ u.pc = "done" /\ u.protocol = t.protocol /\ u.body = t.body
        /\ u.taken = 0 /\ t.taken = 0 /\ u.buffer = t.buffer
    BY <1>1, <2>1, <2>2 DEF TaskShape
  <2>4. Clear(t.protocol, t.body, 0)
    BY DEF Clear
  <2>5. BufferReads(t.protocol, t.body, 0, t.buffer)
    BY <1>1, <2>1, <2>3, <2>4 DEF ReadOK
  <2>6. t.buffer.found = ReadLines(t.protocol, SubSeq(t.body, 1, 0))
    BY <1>1, <2>5, NothingRead
  <2>7. ReadOK(u)
    BY <1>1, <2>3, <2>6 DEF ReadOK
  <2> QED
    BY <1>2, <2>1, <2>2, <2>7
<1>12. CASE Receive(s)
  <2>1. PICK n \in t.taken + 1 .. Len(t.body) :
           task' = [task EXCEPT ![s].pc = "sending",
                                ![s].taken = n,
                                ![s].item = SubSeq(t.body, t.taken + 1, n),
                                ![s].buffer = Push(t.protocol, t.buffer,
                                                   SubSeq(t.body, t.taken + 1, n))]
    BY <1>12 DEF Receive
  <2>2. t.pc = "reading"
    BY <1>12 DEF Receive
  <2> DEFINE chunk == SubSeq(t.body, t.taken + 1, n)
             push == Push(t.protocol, t.buffer, chunk)
  <2>3. task' = [task EXCEPT ![s].pc = "sending", ![s].taken = n,
                             ![s].item = chunk, ![s].buffer = push]
    BY <2>1
  <2>4. n \in Nat /\ n <= Len(t.body) /\ t.taken <= n
    BY <1>1
  <2>5. Clear(t.protocol, t.body, n) => BufferReads(t.protocol, t.body, n, push)
    <3> SUFFICES ASSUME Clear(t.protocol, t.body, n)
                 PROVE  BufferReads(t.protocol, t.body, n, push)
      OBVIOUS
    <3>1. Clear(t.protocol, t.body, t.taken)
      BY <1>1, <2>4, ClearBefore
    <3>2. BufferReads(t.protocol, t.body, t.taken, t.buffer)
      BY <1>1, <2>2, <3>1 DEF ReadOK
    <3>3. Readable(t.protocol, t.body, n)
      BY <1>1, <2>4 DEF Readable
    <3> QED
      BY <1>1, <2>4, <3>2, <3>3, PushReads
  <2> HIDE DEF push, chunk
  <2>6. PICK u : u = [t EXCEPT !.pc = "sending", !.taken = n, !.item = chunk, !.buffer = push]
    OBVIOUS
  <2>7. /\ u.pc = "sending" /\ u.protocol = t.protocol /\ u.body = t.body
        /\ u.taken = n /\ u.buffer = push
    BY <1>1, <2>6 DEF TaskShape
  <2>8. ReadOK(u)
    BY <1>1, <2>5, <2>7 DEF ReadOK
  <2>9. task' = [task EXCEPT ![s] = u]
    BY <1>1, <2>3, <2>6
  <2> QED
    BY <1>2, <2>8, <2>9
<1>13. CASE Finish(s)
  <2> DEFINE flush == Flush(t.protocol, t.buffer)
  <2>1. t.pc = "ending" /\ task' = [task EXCEPT ![s].pc = "done", ![s].buffer = flush]
    BY <1>13 DEF Finish
  <2>2. Clear(t.protocol, t.body, t.taken) =>
           flush.found = ReadLines(t.protocol, SubSeq(t.body, 1, t.taken))
    <3> SUFFICES ASSUME Clear(t.protocol, t.body, t.taken)
                 PROVE  flush.found = ReadLines(t.protocol, SubSeq(t.body, 1, t.taken))
      OBVIOUS
    <3>1. BufferReads(t.protocol, t.body, t.taken, t.buffer)
      BY <1>1, <2>1 DEF ReadOK
    <3>2. Readable(t.protocol, t.body, t.taken)
      BY <1>1 DEF Readable
    <3> QED
      BY <1>1, <3>1, <3>2, FlushReads
  <2> HIDE DEF flush
  <2>3. PICK u : u = [t EXCEPT !.pc = "done", !.buffer = flush]
    OBVIOUS
  <2>4. /\ u.pc = "done" /\ u.protocol = t.protocol /\ u.body = t.body
        /\ u.taken = t.taken /\ u.buffer = flush
    BY <1>1, <2>3 DEF TaskShape
  <2>5. ReadOK(u)
    BY <1>1, <2>2, <2>4 DEF ReadOK
  <2>6. task' = [task EXCEPT ![s] = u]
    BY <1>1, <2>1, <2>3
  <2> QED
    BY <1>2, <2>5, <2>6
<1> QED
  BY <1>4, <1>5, <1>6, <1>7, <1>8, <1>9, <1>10, <1>11, <1>12, <1>13
  DEF Task, Upstream, Relay

\* What the streams have read is kept by every step.
LEMMA ReadInvariance == Spec => []ReadInv
<1>1. Init => ReadInv
  <2> SUFFICES ASSUME Init, NEW s \in Streams PROVE ReadOK(task[s])
    BY DEF ReadInv
  <2>1. task[s] = Idle
    BY DEF Init
  <2>2. PICK t : t = Idle
    OBVIOUS
  <2>3. /\ t.pc = "idle" /\ t.body = <<>> /\ t.taken = 0
        /\ t.buffer.carry = <<>> /\ t.buffer.found = Nothing
    BY <2>2 DEF Idle
  <2>4. t.body \in Seq(Part) /\ Len(t.body) = 0
    BY <2>3, EmptySeq
  <2>5. InLines(t.body)
    <3>1. DOMAIN t.body = {}
      BY <2>4, LenProperties
    <3> QED
      BY <3>1 DEF InLines
  <2>6. BufferReads(t.protocol, t.body, 0, t.buffer)
    BY <2>3, <2>4, NothingRead
  <2>7. ReadOK(t)
    BY <2>3, <2>5, <2>6 DEF ReadOK
  <2> QED
    BY <2>1, <2>2, <2>7
<1>2. Inv /\ ReadInv /\ [Next]_vars => ReadInv'
  <2> SUFFICES ASSUME Inv, ReadInv, [Next]_vars PROVE ReadInv'
    OBVIOUS
  <2>1. CASE task' = task
    BY <2>1 DEF ReadInv, ReadOK
  <2>2. ASSUME NEW s \in Streams, Accept(s) \/ Task(s) \/ Client(s)
        PROVE  ReadInv'
    <3>1. CASE Accept(s) \/ Task(s) \/ Disconnect(s)
      BY <3>1, TaskReads
    <3>2. CASE Take(s) \/ TakeEnd(s)
      BY <2>1, <3>2 DEF Take, TakeEnd
    <3> QED
      BY <2>2, <3>1, <3>2 DEF Client, HangUp
  <2>3. CASE Signal \/ Served \/ Exit \/ Writer
    BY <2>1, <2>3 DEF Signal, Served, Exit, Writer
  <2>4. ASSUME NEW s \in Streams, Close(s) PROVE ReadInv'
    BY <2>4, TaskReads DEF Close
  <2>5. CASE UNCHANGED vars
    BY <2>1, <2>5 DEF vars
  <2> QED
    BY <2>2, <2>3, <2>4, <2>5 DEF Next, Shutdown
<1> QED
  BY <1>1, <1>2, Invariance, PTL DEF Spec

\* What AnyCutReadsTheSame asks of what was received makes it clear.
LEMMA ReceivedClear ==
    ASSUME NEW S, NEW body \in Seq(S), NEW protocol, NEW n \in Nat, n <= Len(body),
           NEW bytes, bytes = SubSeq(body, 1, n),
           Fits(bytes), OneReason(bytes), Legible(bytes), SelfDescribing(protocol, bytes)
    PROVE  Clear(protocol, body, n)
<1>1. DOMAIN bytes = 1..n /\ \A i \in 1..n : bytes[i] = body[i]
  <2>1. DOMAIN SubSeq(body, 0 + 1, n) = 1..n - 0
        /\ \A i \in 1..n - 0 : SubSeq(body, 0 + 1, n)[i] = body[0 + i]
    BY Piece
  <2> QED
    BY <2>1
<1>2. ASSUME NEW i \in 1..n, TellsAt(body, i)
      PROVE  body[i].line \in Telling(bytes)
  BY <1>1, <1>2 DEF Telling, DataLines, TellsAt, Tells
<1>3. \A i \in 1..n : ~IsNewline(body[i]) =>
         /\ body[i].line.field # "binary"
         /\ Inside(body[i]) => body[i].part <= MaxCarry + 1
  BY <1>1 DEF Legible
<1>4. \A i \in 1..n : TellsAt(body, i) =>
         /\ body[i].line.length <= MaxCarry
         /\ protocol = "responses" => body[i].line.completed
  BY <1>2 DEF Fits, SelfDescribing
<1>5. ASSUME NEW i \in 1..n, NEW j \in 1..n, TellsAt(body, i), TellsAt(body, j),
             body[i].line.reason # "", body[j].line.reason # "",
             body[i].line.reason # body[j].line.reason
      PROVE  FALSE
  <2> DEFINE reasons == {l.reason : l \in Telling(bytes)} \ {""}
             h == [k \in 1..n |-> IF IsNewline(body[k]) THEN "" ELSE body[k].line.reason]
             T == {h[k] : k \in 1..n}
  <2>1. Cardinality(reasons) <= 1
    BY DEF OneReason
  <2>2. IsFiniteSet(T)
    <3>1. h \in Surjection(1..n, T)
      BY DEF Surjection
    <3>2. IsFiniteSet(1..n)
      BY FS_Interval
    <3> HIDE DEF h, T
    <3> QED
      BY <3>1, <3>2, FS_Surjection
  <2>3. reasons \in SUBSET T
    <3> SUFFICES ASSUME NEW l \in Telling(bytes) PROVE l.reason \in T
      OBVIOUS
    <3>1. PICK k \in DOMAIN bytes : ~IsNewline(bytes[k]) /\ l = bytes[k].line
      BY DEF Telling, DataLines
    <3>2. k \in 1..n /\ h[k] = l.reason
      BY <1>1, <3>1
    <3> QED
      BY <3>2
  <2>4. IsFiniteSet(reasons)
    BY <2>2, <2>3, FS_Subset
  <2>5. PICK a, b : a = body[i].line.reason /\ b = body[j].line.reason
    OBVIOUS
  <2>6. a \in reasons /\ b \in reasons /\ a # b
    BY <1>2, <1>5, <2>5
  <2> HIDE DEF reasons, T, h
  <2>7. Cardinality({a, b}) = 2
    <3>1. IsFiniteSet({a}) /\ Cardinality({a}) = 1
      BY FS_Singleton
    <3>2. Cardinality({a} \cup {b}) = IF b \in {a} THEN Cardinality({a}) ELSE Cardinality({a}) + 1
      BY <3>1, FS_AddElement
    <3>3. b \notin {a} /\ {a} \cup {b} = {a, b}
      BY <2>6
    <3>4. Cardinality({a} \cup {b}) = Cardinality({a}) + 1
      BY <3>2, <3>3
    <3>5. Cardinality({a, b}) = Cardinality({a} \cup {b})
      BY <3>3
    <3> QED
      BY <3>1, <3>4, <3>5
  <2>8. {a, b} \in SUBSET reasons
    BY <2>6
  <2>9. Cardinality({a, b}) <= Cardinality(reasons) /\ Cardinality(reasons) \in Nat
    BY <2>4, <2>8, FS_Subset, FS_CardinalityType
  <2> QED
    BY <2>1, <2>7, <2>9
<1> QED
  BY <1>3, <1>4, <1>5 DEF Clear

\* However the network cuts a body, inside a line or a character, a task that is
\* done has charged the tokens and logged the reason (SseLineBuffer) that the
\* lines of the body hold, read one by one as far as they were received: of any
\* body in UTF-8 with no character where an over-long line may be dropped, wherever
\* those stand on lines that fit the buffer, with one reason, and typed by the data
\* line in the Responses API.
THEOREM AnyCutReadsTheSameHolds == Spec => []AnyCutReadsTheSame
<1>1. Inv /\ ReadInv => AnyCutReadsTheSame
  <2> SUFFICES ASSUME Inv, ReadInv, NEW s \in Streams,
                      task[s].pc = "done", Fits(Received(s)), OneReason(Received(s)),
                      Legible(Received(s)), SelfDescribing(task[s].protocol, Received(s))
               PROVE  task[s].buffer.found = ReadLines(task[s].protocol, Received(s))
    BY DEF AnyCutReadsTheSame
  <2>1. PICK t : t = task[s]
    OBVIOUS
  <2>2. /\ t.body \in Seq(Part) /\ t.taken \in Nat /\ t.taken <= Len(t.body) /\ ReadOK(t)
    BY <2>1, LenProperties DEF Inv, StreamsOK, StreamOK, TaskTyped, ReadInv
  <2>3. PICK bytes : bytes = Received(s)
    OBVIOUS
  <2>4. bytes = SubSeq(t.body, 1, t.taken)
    BY <2>1, <2>3 DEF Received
  <2>5. Clear(t.protocol, t.body, t.taken)
    BY <2>1, <2>2, <2>3, <2>4, ReceivedClear
  <2> QED
    BY <2>1, <2>2, <2>3, <2>4, <2>5 DEF ReadOK
<1> QED
  BY <1>1, Invariance, ReadInvariance, PTL
=============================================================================
