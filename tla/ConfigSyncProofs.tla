------------------------- MODULE ConfigSyncProofs -------------------------
(***************************************************************************)
(* What a poller believes it has loaded is loaded, for any number of edits *)
(* and any schedule of polls, failed loads and torn reads.                 *)
(*                                                                         *)
(* Two facts carry the argument: a number given to an edit is new, so that *)
(* a stamp or a table that has moved on never looks as it did before; and  *)
(* the version is read before the rows, so that rows read under a version  *)
(* that still is the present one are the present rows (LoadedIsCurrent).   *)
(***************************************************************************)
EXTENDS ConfigSync, TLAPS

\* Edits are numbered: nothing carries a number that is yet to come.
Bounded ==
    /\ stamp <= edits
    /\ last # Absent => last <= edits
    /\ current # Absent => current <= edits
    /\ \A t \in 1..Tables : content[t] <= edits /\ stamped[t] <= edits

\* Rows read under the present version are the present rows.
LoadedIsCurrent ==
    pc = "loading" /\ source = "db" /\ current = stamp /\ content = stamped =>
        \A t \in 1..Len(loaded) : loaded[t] = content[t]

StartsUnseen == pc = "startup" => last = Absent

Inv == TypeOK /\ Bounded /\ LoadedIsCurrent /\ StartsUnseen /\ SeenIsApplied

Edits == 0..MaxEdits

LEMMA TablesType == Tables \in {1, 3}
  BY DEF Tables

LEMMA Stamps ==
    ASSUME TypeOK
    PROVE  /\ edits \in Nat /\ stamp \in Nat /\ Absent \notin Nat
           /\ last # Absent => last \in Nat
           /\ current # Absent => current \in Nat
           /\ content \in [1..Tables -> Edits] /\ stamped \in [1..Tables -> Edits]
           /\ loaded \in Seq(Edits)
           /\ Edits \subseteq Nat /\ ForceAfter \in Nat /\ MaxEdits \in Nat
  BY ConfigSyncAssumption DEF TypeOK, Edits

LEMMA InvInit == Init => Inv
<1> SUFFICES ASSUME Init PROVE Inv
  OBVIOUS
<1>1. TypeOK
  <2>1. 0 \in 0..MaxEdits /\ 0 \in 0..ForceAfter
    BY ConfigSyncAssumption
  <2>2. content \in [1..Tables -> 0..MaxEdits] /\ stamped \in [1..Tables -> 0..MaxEdits]
    BY <2>1 DEF Init
  <2>3. /\ loaded \in Seq(0..MaxEdits) /\ Len(loaded) < Tables
        /\ applied \in Seq(0..MaxEdits) /\ Len(applied) \in {0, Tables}
        /\ loaded = << >>
    BY TablesType DEF Init
  <2>4. /\ source \in {"file", "db"} /\ resource \in Resources /\ pc = "startup"
        /\ missed = FALSE
        /\ {last, current} \subseteq 0..MaxEdits \cup {Absent}
        /\ stamp \in 0..MaxEdits /\ edits \in 0..MaxEdits /\ polls \in 0..ForceAfter
    BY <2>1 DEF Init
  <2> QED
    BY <2>2, <2>3, <2>4, Zenon DEF TypeOK
<1>2. Bounded
  BY ConfigSyncAssumption DEF Init, Bounded
<1> QED
  BY <1>1, <1>2 DEF Init, Inv, LoadedIsCurrent, StartsUnseen, SeenIsApplied

LEMMA MeaningType ==
    ASSUME NEW rows \in Seq(Edits), Len(rows) = Tables \/ IsEmpty(rows)
    PROVE  Meaning(rows) \in Seq(Edits) /\ Len(Meaning(rows)) \in {0, Tables}
  BY DEF Meaning

\* An edit is newer than whatever has been seen.
LEMMA EditStep ==
    ASSUME Inv, NEW tables \in SUBSET (1..Tables), NEW moves \in BOOLEAN,
           Edit(tables, moves)
    PROVE  Inv'
<1>1. TypeOK /\ Bounded
  BY DEF Inv
<1>2. /\ Tables' = Tables
      /\ UNCHANGED <<source, resource, pc, last, current, loaded, polls, applied, missed>>
      /\ edits' = edits + 1 /\ edits < MaxEdits /\ tables # {}
      /\ content' = [t \in 1..Tables |-> IF t \in tables THEN edits' ELSE content[t]]
      /\ stamp' = IF moves THEN edits' ELSE stamp
      /\ stamped' = IF moves THEN content' ELSE stamped
  BY DEF Edit, mode, Tables
<1>3. content' \in [1..Tables -> Edits] /\ edits' \in Edits
  BY <1>1, <1>2, Stamps DEF Edits
<1>4. TypeOK'
  <2>1. stamp' \in Edits /\ stamped' \in [1..Tables -> Edits]
    BY <1>1, <1>2, <1>3 DEF TypeOK, Edits
  <2> QED
    BY <1>1, <1>2, <1>3, <2>1 DEF TypeOK, Edits
<1>5. Bounded'
  <2>1. \A t \in 1..Tables : content'[t] <= edits' /\ stamped'[t] <= edits'
    BY <1>1, <1>2, Stamps DEF Bounded, Edits
  <2> QED
    BY <1>1, <1>2, <2>1, Stamps DEF Bounded
<1>6. ~moves => content' # stamped'
  <2>1. PICK t \in tables : t \in 1..Tables
    BY <1>2
  <2>2. content'[t] = edits + 1 /\ stamped[t] <= edits /\ stamped[t] \in Nat
    BY <1>1, <1>2, <2>1, Stamps DEF Bounded
  <2>3. content'[t] # stamped[t]
    BY <1>1, <2>2, Stamps
  <2> QED
    BY <1>2, <2>3
<1>7. moves => last' # stamp' /\ current' # stamp'
  BY <1>1, <1>2, Stamps DEF Bounded
<1> QED
  BY <1>2, <1>4, <1>5, <1>6, <1>7
  DEF Inv, LoadedIsCurrent, StartsUnseen, SeenIsApplied

LEMMA RowsAreFunction ==
    ASSUME NEW seq \in Seq(Edits)
    PROVE  seq \in [1..Len(seq) -> Edits]
  OBVIOUS

\* What a load stores in the end is what its source holds, if all rows do.
LEMMA LastRowIsTarget ==
    ASSUME TypeOK, NEW rows, rows = Append(loaded, content[Len(loaded) + 1]),
           Len(rows) = Tables \/ IsEmpty(rows),
           \A t \in 1..Len(loaded) : loaded[t] = content[t]
    PROVE  Meaning(rows) = Target
<1>1. /\ loaded \in Seq(Edits) /\ Len(loaded) < Tables
      /\ content \in [1..Tables -> Edits]
  BY Stamps DEF TypeOK
<1>2. Len(loaded) \in Nat /\ Len(loaded) + 1 \in 1..Tables
  BY <1>1, TablesType
<1>3. content[Len(loaded) + 1] \in Edits
  BY <1>1, <1>2
<1>4. /\ rows \in Seq(Edits) /\ Len(rows) = Len(loaded) + 1
      /\ \A t \in 1..Len(rows) : rows[t] = content[t]
  BY <1>1, <1>2, <1>3
<1>5. rows[1] = content[1]
  BY <1>2, <1>4
<1>6. CASE IsEmpty(rows)
  BY <1>5, <1>6 DEF Target, Meaning, IsEmpty
<1>7. CASE ~IsEmpty(rows)
  <2>1. Len(rows) = Tables
    BY <1>7
  <2>2. rows = content
    <3>1. rows \in [1..Tables -> Edits]
      BY <1>4, <2>1, RowsAreFunction
    <3>2. \A t \in 1..Tables : rows[t] = content[t]
      BY <1>4, <2>1
    <3>3. rows = [t \in 1..Tables |-> rows[t]]
      BY <3>1
    <3>4. content = [t \in 1..Tables |-> content[t]]
      BY <1>1
    <3>5. [t \in 1..Tables |-> rows[t]] = [t \in 1..Tables |-> content[t]]
      BY <3>2
    <3> QED
      BY <3>3, <3>4, <3>5, Zenon
  <2> QED
    BY <1>7, <2>2 DEF Target, Meaning
<1> QED
  BY <1>6, <1>7

LEMMA OutsideUnchanged ==
    ASSUME UNCHANGED <<mode, outside>>
    PROVE  /\ UNCHANGED <<source, resource, content, stamp, edits, stamped>>
           /\ Tables' = Tables /\ Target' = Target
<1>1. UNCHANGED <<source, resource, content, stamp, edits, stamped>>
  BY DEF mode, outside
<1>2. Tables' = Tables
  BY <1>1 DEF Tables
<1>3. Target' = Target
  BY <1>1, <1>2 DEF Target, Meaning, IsEmpty
<1> QED
  BY <1>1, <1>2, <1>3

LEMMA LoadTableStep ==
    ASSUME Inv, LoadTable
    PROVE  Inv'
<1> DEFINE rows == Append(loaded, content[Len(loaded) + 1])
<1>1. TypeOK /\ Bounded /\ LoadedIsCurrent /\ StartsUnseen /\ SeenIsApplied
  BY DEF Inv
<1>2. /\ UNCHANGED <<source, resource, content, stamp, edits, stamped>>
      /\ Tables' = Tables /\ Target' = Target /\ pc \in {"startup", "loading"}
  BY OutsideUnchanged DEF LoadTable
<1>3. /\ loaded \in Seq(Edits) /\ Len(loaded) \in Nat /\ Len(loaded) < Tables
      /\ content \in [1..Tables -> Edits] /\ content[Len(loaded) + 1] \in Edits
  <2>1. loaded \in Seq(Edits) /\ content \in [1..Tables -> Edits]
    BY <1>1, Stamps
  <2>2. Len(loaded) < Tables
    BY <1>1 DEF TypeOK
  <2>3. Len(loaded) \in Nat /\ Len(loaded) + 1 \in 1..Tables
    BY <2>1, <2>2, TablesType
  <2> QED
    BY <2>1, <2>2, <2>3
<1>4. /\ rows \in Seq(Edits) /\ Len(rows) = Len(loaded) + 1
      /\ \A t \in 1..Len(loaded) : rows[t] = loaded[t]
      /\ rows[Len(loaded) + 1] = content[Len(loaded) + 1]
  BY <1>3
<1>5. CASE Len(rows) = Tables \/ IsEmpty(rows)
  <2>1. applied' = Meaning(rows) /\ loaded' = << >>
    BY <1>5 DEF LoadTable
  <2>2. Meaning(rows) \in Seq(Edits) /\ Len(Meaning(rows)) \in {0, Tables}
    BY <1>4, <1>5, MeaningType
  <2>3. (pc = "startup" /\ Started) \/ (pc = "loading" /\ Reloaded)
    BY <1>2, <1>5 DEF LoadTable
  <2>4. pc' \in {"idle", "spawned"} /\ (pc' = "spawned" => source = "file")
        /\ UNCHANGED current /\ (missed' = missed \/ missed' = FALSE)
        /\ polls' \in {polls, 0} /\ last' \in {last, current}
    BY <2>3 DEF Started, Reloaded
  <2>5. 0 \in 0..ForceAfter
    BY ConfigSyncAssumption
  <2> HIDE DEF rows
  <2>6. TypeOK'
    <3>1. /\ source' \in {"file", "db"} /\ resource' \in Resources
          /\ content' \in [1..Tables' -> 0..MaxEdits] /\ stamp' \in 0..MaxEdits
          /\ edits' \in 0..MaxEdits /\ stamped' \in [1..Tables' -> 0..MaxEdits]
          /\ pc' \in {"startup", "spawned", "idle", "loading", "stopped"}
          /\ {last', current'} \subseteq 0..MaxEdits \cup {Absent}
          /\ polls' \in 0..ForceAfter
      BY <1>1, <1>2, <2>4, <2>5 DEF TypeOK
    <3>2. /\ loaded' \in Seq(0..MaxEdits) /\ Len(loaded') < Tables' /\ loaded' = << >>
          /\ applied' \in Seq(0..MaxEdits) /\ Len(applied') \in {0, Tables'}
      BY <1>2, <2>1, <2>2, TablesType DEF Edits
    <3>3. missed' \in BOOLEAN /\ (missed' => source' = "file")
      <4>1. missed \in BOOLEAN /\ (missed => source = "file")
        BY <1>1 DEF TypeOK
      <4>2. source' = source
        BY <1>2
      <4>3. CASE missed' = missed
        BY <4>1, <4>2, <4>3, Zenon
      <4>4. CASE missed' = FALSE
        BY <4>4, Zenon
      <4> QED
        BY <2>4, <4>3, <4>4, Zenon
    <3>4. pc' = "spawned" => source' = "file"
      BY <1>2, <2>4
    <3> QED
      BY <3>1, <3>2, <3>3, <3>4, Zenon DEF TypeOK
  <2>7. Bounded' /\ LoadedIsCurrent' /\ StartsUnseen'
    BY <1>1, <1>2, <2>4 DEF Bounded, LoadedIsCurrent, StartsUnseen
  <2>8. SeenIsApplied'
    <3>1. CASE pc = "startup"
      BY <1>1, <1>2, <2>3, <3>1, Stamps
      DEF Started, StartsUnseen, SeenIsApplied
    <3>2. CASE pc = "loading" /\ source = "db"
      <4>1. last' = current
        BY <2>3, <3>2 DEF Reloaded
      <4>2. CASE current = stamp /\ content = stamped
        <5>1. applied' = Target'
          BY <1>1, <1>2, <1>5, <2>1, <3>2, <4>2, LastRowIsTarget
          DEF LoadedIsCurrent, rows
        <5> QED
          BY <5>1 DEF SeenIsApplied
      <4>3. CASE ~(current = stamp /\ content = stamped)
        BY <1>2, <4>1, <4>3 DEF SeenIsApplied
      <4> QED
        BY <4>2, <4>3
    <3>3. CASE pc = "loading" /\ source = "file"
      <4>1. Len(loaded) = 0
        BY <1>3, <3>3 DEF Tables
      <4>2. \A t \in 1..Len(loaded) : loaded[t] = content[t]
        BY <4>1
      <4>3. applied' = Target'
        BY <1>1, <1>2, <1>5, <2>1, <4>2, LastRowIsTarget DEF rows
      <4> QED
        BY <4>3 DEF SeenIsApplied
    <3>4. source \in {"file", "db"}
      BY <1>1 DEF TypeOK
    <3> QED
      BY <1>2, <3>1, <3>2, <3>3, <3>4
  <2> QED
    BY <2>6, <2>7, <2>8 DEF Inv
<1>6. CASE ~(Len(rows) = Tables \/ IsEmpty(rows))
  <2>1. loaded' = rows /\ UNCHANGED <<pc, last, current, polls, applied, missed>>
    BY <1>6 DEF LoadTable
  <2>2. Len(rows) < Tables
    BY <1>3, <1>4, <1>6, TablesType
  <2> HIDE DEF rows
  <2>3. TypeOK'
    BY <1>1, <1>2, <1>4, <2>1, <2>2 DEF TypeOK, Edits
  <2>4. LoadedIsCurrent'
    BY <1>1, <1>2, <1>3, <1>4, <2>1 DEF LoadedIsCurrent
  <2> QED
    BY <1>1, <1>2, <2>1, <2>3, <2>4
    DEF Inv, Bounded, StartsUnseen, SeenIsApplied
<1> QED
  BY <1>5, <1>6

LEMMA LoadFailsStep ==
    ASSUME Inv, LoadFails
    PROVE  Inv'
<1>1. TypeOK /\ Bounded /\ StartsUnseen /\ SeenIsApplied
  BY DEF Inv
<1>2. /\ UNCHANGED <<source, resource, content, stamp, edits, stamped>>
      /\ Tables' = Tables /\ Target' = Target /\ pc \in {"startup", "loading"}
      /\ loaded' = << >> /\ UNCHANGED applied
  BY OutsideUnchanged DEF LoadFails
<1>3. /\ UNCHANGED <<last, current, polls>>
      /\ pc' \in {"idle", "spawned", "stopped"} /\ (pc' = "spawned" => source = "file")
  BY <1>2 DEF LoadFails, Started
<1>4. CASE pc = "loading" /\ source = "file"
  <2>1. missed' = TRUE
    BY <1>4 DEF LoadFails
  <2>2. TypeOK'
    <3>1. loaded' \in Seq(0..MaxEdits) /\ Len(loaded') < Tables' /\ loaded' = << >>
      BY <1>2, TablesType
    <3>2. missed' \in BOOLEAN /\ (missed' => source' = "file")
      BY <1>2, <1>4, <2>1
    <3> QED
      BY <1>1, <1>2, <1>3, <3>1, <3>2 DEF TypeOK
  <2> QED
    BY <1>1, <1>2, <1>3, <2>1, <2>2
    DEF Inv, Bounded, LoadedIsCurrent, StartsUnseen, SeenIsApplied
<1>5. CASE ~(pc = "loading" /\ source = "file")
  <2>1. missed' = missed \/ missed' = FALSE
    BY <1>2, <1>5 DEF LoadFails, Started
  <2>2. missed \in BOOLEAN /\ (missed => source = "file")
    BY <1>1 DEF TypeOK
  <2>3. missed' \in BOOLEAN /\ (missed' => source' = "file") /\ (missed' => missed)
    <3>1. CASE missed' = missed
      BY <1>2, <2>2, <3>1
    <3>2. CASE missed' = FALSE
      BY <3>2
    <3> QED
      BY <2>1, <3>1, <3>2
  <2>4. TypeOK'
    <3>1. loaded' \in Seq(0..MaxEdits) /\ Len(loaded') < Tables' /\ loaded' = << >>
      BY <1>2, TablesType
    <3> QED
      BY <1>1, <1>2, <1>3, <2>3, <3>1 DEF TypeOK
  <2>5. SeenIsApplied'
    <3>1. CASE pc = "startup"
      BY <1>1, <1>2, <1>3, <3>1, Stamps DEF StartsUnseen, SeenIsApplied
    <3>2. CASE pc = "loading" /\ source = "db" /\ ~missed
      BY <1>1, <1>2, <1>3, <3>2 DEF SeenIsApplied
    <3> QED
      BY <1>1, <1>2, <1>5, <2>2, <3>1, <3>2 DEF TypeOK
  <2> QED
    BY <1>1, <1>2, <1>3, <2>4, <2>5
    DEF Inv, Bounded, LoadedIsCurrent, StartsUnseen
<1> QED
  BY <1>4, <1>5

LEMMA FirstStampStep ==
    ASSUME Inv, NEW now \in {stamp, Absent}, FirstStamp(now)
    PROVE  Inv'
<1>1. TypeOK /\ Bounded
  BY DEF Inv
<1>2. /\ UNCHANGED <<source, resource, content, stamp, edits, stamped>>
      /\ Tables' = Tables /\ Target' = Target
      /\ UNCHANGED <<current, loaded, polls, applied>>
      /\ pc = "spawned" /\ pc' = "idle" /\ last' = now
  BY OutsideUnchanged DEF FirstStamp
<1>3. missed' = (now # Absent /\ applied # Target) /\ source = "file" /\ loaded = << >>
  BY <1>1, <1>2 DEF FirstStamp, TypeOK
<1>4. TypeOK'
  BY <1>1, <1>2, <1>3 DEF TypeOK
<1>5. SeenIsApplied'
  BY <1>1, <1>2, <1>3, Stamps DEF SeenIsApplied
<1> QED
  BY <1>1, <1>2, <1>4, <1>5, Stamps
  DEF Inv, Bounded, LoadedIsCurrent, StartsUnseen

LEMMA PollStep ==
    ASSUME Inv, NEW now \in {stamp, Absent}, Poll(now)
    PROVE  Inv'
<1>1. TypeOK /\ Bounded /\ SeenIsApplied
  BY DEF Inv
<1>2. /\ UNCHANGED <<source, resource, content, stamp, edits, stamped>>
      /\ Tables' = Tables /\ Target' = Target
      /\ UNCHANGED <<loaded, applied, missed>>
      /\ pc = "idle" /\ pc' \in {"idle", "loading"}
  BY OutsideUnchanged DEF Poll
<1>3. polls' \in 0..ForceAfter
  BY <1>1, Stamps DEF Poll, TypeOK
<1>4. loaded = << >>
  BY <1>1, <1>2 DEF TypeOK
<1>5. \/ UNCHANGED <<pc, current, last>>
      \/ /\ pc' = "loading" /\ current' = now
         /\ last' = IF source = "file" THEN now ELSE last
  BY DEF Poll
<1>6. current' \in {current, now} /\ last' \in {last, now}
  BY <1>5
<1>7. TypeOK'
  BY <1>1, <1>2, <1>3, <1>4, <1>6 DEF TypeOK
<1>8. Bounded'
  BY <1>1, <1>2, <1>6, Stamps DEF Bounded
<1>9. SeenIsApplied'
  BY <1>1, <1>2, <1>5 DEF SeenIsApplied
<1> QED
  BY <1>2, <1>4, <1>7, <1>8, <1>9 DEF Inv, LoadedIsCurrent, StartsUnseen

LEMMA InvStep ==
    ASSUME Inv, [Next]_vars
    PROVE  Inv'
<1>1. CASE Next
  <2>1. {TRUE, ~SilentEdits} \subseteq BOOLEAN
    BY ConfigSyncAssumption
  <2> QED
    BY <1>1, <2>1, EditStep, LoadTableStep, LoadFailsStep, FirstStampStep, PollStep
    DEF Next
<1>2. CASE UNCHANGED vars
  <2>1. UNCHANGED <<mode, outside>>
    BY <1>2 DEF vars
  <2>2. /\ UNCHANGED <<source, resource, content, stamp, edits, stamped>>
        /\ Tables' = Tables /\ Target' = Target
    BY <2>1, OutsideUnchanged
  <2>3. UNCHANGED <<pc, last, current, loaded, polls, applied, missed>>
    BY <1>2 DEF vars
  <2> QED
    BY <2>2, <2>3
    DEF Inv, TypeOK, Bounded, LoadedIsCurrent, StartsUnseen, SeenIsApplied
<1> QED
  BY <1>1, <1>2

LEMMA Invariance == Spec => []Inv
  BY InvInit, InvStep, PTL DEF Spec

\* The poller's state is well typed, for any edits and schedule of polls.
THEOREM TypeCorrect == Spec => []TypeOK
  BY Invariance, PTL DEF Inv

\* A poller that holds the present stamp uses the present content, whatever
\* was edited while it was loading, three tables read one by one included.
THEOREM SeenIsAppliedHolds == Spec => []SeenIsApplied
  BY Invariance, PTL DEF Inv
=============================================================================
