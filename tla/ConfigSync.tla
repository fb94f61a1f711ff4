----------------------------- MODULE ConfigSync -----------------------------
(***************************************************************************)
(* Hot reload (server/src/server.rs, startup): one of the gateway's three  *)
(* configuration resources, loaded at start from a file or from the        *)
(* database, and the spawned task that polls its source afterwards.        *)
(*                                                                         *)
(* A poller compares a stamp, the file's modification time or the row of   *)
(* config_versions, and loads again when it has moved.  What it loads is   *)
(* one or several queries without a transaction, and the stamp is a read   *)
(* of its own, so the administrator may edit between any two of them.      *)
(***************************************************************************)
EXTENDS Naturals, Sequences

CONSTANTS MaxEdits,     \* bound: edits of the source
          NoRoutes,     \* the edits that leave no row in the first table
          SilentEdits,  \* may an edit leave the stamp as it was?
          ForceAfter,   \* polls until a forced reload; 0: never
          Absent        \* no stamp could be read

ASSUME ConfigSyncAssumption ==
    /\ MaxEdits \in Nat
    /\ NoRoutes \subseteq Nat
    /\ SilentEdits \in BOOLEAN
    /\ ForceAfter \in Nat
    /\ Absent \notin Nat

VARIABLES source,    \* "file" or "db"
          resource,  \* what is configured
          content,   \* [table -> the edit that wrote it last]
          stamp,     \* modification time, or version
          edits,     \* edits so far
          pc,        \* where the task is
          last,      \* last_mod / last_version
          current,   \* the stamp this poll has read
          loaded,    \* the tables this load has read
          polls,     \* polls since last_full
          applied    \* what the gateway uses: registry, key cache or quotas

(* History, read by no action of the program.                              *)
VARIABLES stamped,   \* the content when the stamp moved last
          missed     \* a file's new stamp was noted, its content not loaded

outside == <<content, stamp, edits, stamped>>
mode == <<source, resource>>
vars == <<mode, outside, pc, last, current, loaded, polls, applied, missed>>

Resources == {"routes", "api_keys", "quota"}

\* The routes of the database are three tables, everything else is one read.
Tables == IF source = "db" /\ resource = "routes" THEN 3 ELSE 1

\* A first load that fails stops the program, or leaves the resource empty.
Fatal == resource = "routes" \/ (source = "file" /\ resource = "api_keys")

\* Without rows in the first table the others are not read.
IsEmpty(rows) == Tables = 3 /\ rows[1] \in NoRoutes
Meaning(rows) == IF IsEmpty(rows) THEN << >> ELSE rows

\* What a load of the source as it is would yield.
Target == Meaning(content)

TypeOK ==
    /\ source \in {"file", "db"}
    /\ resource \in Resources
    /\ content \in [1..Tables -> 0..MaxEdits]
    /\ stamp \in 0..MaxEdits
    /\ edits \in 0..MaxEdits
    /\ pc \in {"startup", "spawned", "idle", "loading", "stopped"}
    /\ {last, current} \subseteq 0..MaxEdits \cup {Absent}
    /\ loaded \in Seq(0..MaxEdits) /\ Len(loaded) < Tables
    /\ polls \in 0..ForceAfter
    /\ applied \in Seq(0..MaxEdits) /\ Len(applied) \in {0, Tables}
    /\ stamped \in [1..Tables -> 0..MaxEdits]
    /\ missed \in BOOLEAN
    /\ missed => source = "file"
    /\ pc = "spawned" => source = "file"
    /\ loaded # << >> => pc \in {"startup", "loading"}

Init ==
    /\ source \in {"file", "db"}
    /\ resource \in Resources
    /\ content = [t \in 1..Tables |-> 0]
    /\ stamped = content
    /\ stamp = 0
    /\ edits = 0
    /\ pc = "startup"
    /\ last = Absent
    /\ current = Absent
    /\ loaded = << >>
    /\ polls = 0
    /\ applied = << >>
    /\ missed = FALSE
----------------------------------------------------------------------------
\* The administrator edits the file, or commits a transaction on some tables,
\* which moves the stamp: a new modification time, or a version incremented.
Edit(tables, moves) ==
    /\ edits < MaxEdits
    /\ tables # {}
    /\ edits' = edits + 1
    /\ content' = [t \in 1..Tables |-> IF t \in tables THEN edits' ELSE content[t]]
    /\ stamp' = IF moves THEN edits' ELSE stamp
    /\ stamped' = IF moves THEN content' ELSE stamped
    /\ UNCHANGED <<mode, pc, last, current, loaded, polls, applied, missed>>

\* Mutant: a load of the routes that fails half way keeps what it has read.
LoadFailsHalfway ==
    /\ pc \in {"startup", "loading"}
    /\ pc' = "idle"
    /\ UNCHANGED <<mode, outside, last, current, loaded, polls, applied, missed>>

\* The first load is over; only then is the poller spawned.
Started ==
    /\ pc' = IF source = "file" THEN "spawned" ELSE "idle"
    /\ UNCHANGED <<last, current, polls, missed>>

\* Mutant: the version is noted as it is after the load.
ReloadedLate ==
    /\ pc' = "idle"
    /\ last' = stamp
    /\ polls' = 0
    /\ missed' = FALSE
    /\ UNCHANGED current

\* A poll has loaded: the registry is stored.  Of a version the poller takes
\* note now; the modification time it has noted before.
Reloaded ==
    /\ pc' = "idle"
    /\ last' = IF source = "db" THEN current ELSE last
    /\ polls' = 0
    /\ missed' = FALSE
    /\ UNCHANGED current

\* The next table is read; after the last, what was read is stored.
LoadTable ==
    LET rows == Append(loaded, content[Len(loaded) + 1])
    IN  /\ pc \in {"startup", "loading"}
        /\ IF Len(rows) = Tables \/ IsEmpty(rows)
           THEN /\ applied' = Meaning(rows)
                /\ loaded' = << >>
                /\ IF pc = "startup" THEN Started ELSE Reloaded
           ELSE /\ loaded' = rows
                /\ UNCHANGED <<pc, last, current, polls, applied, missed>>
        /\ UNCHANGED <<mode, outside>>

\* A load fails: a query, or a file that cannot be read or parsed.
LoadFails ==
    /\ pc \in {"startup", "loading"}
    /\ loaded' = << >>
    /\ IF pc = "loading"
       THEN /\ pc' = "idle"
            /\ missed' = (source = "file")
            /\ UNCHANGED <<last, current, polls>>
       ELSE IF Fatal THEN pc' = "stopped" /\ UNCHANGED <<last, current, polls, missed>>
       ELSE Started
    /\ UNCHANGED <<mode, outside, applied>>

\* The spawned task of a file begins with the modification time it has now.
FirstStamp(now) ==
    /\ pc = "spawned"
    /\ pc' = "idle"
    /\ last' = now
    /\ missed' = (now # Absent /\ applied # Target)
    /\ UNCHANGED <<mode, outside, current, loaded, polls, applied>>

\* Mutant: no reload is forced.
ForcedNever == FALSE

Forced == source = "db" /\ ForceAfter > 0 /\ polls + 1 >= ForceAfter

\* A tick: read the stamp, which may fail, and decide.  For a file no stamp is
\* a stamp like any other; no version always reloads.
Poll(now) ==
    LET reload == IF source = "file" THEN now # last
                  ELSE Forced \/ now = Absent \/ now # last
    IN  /\ pc = "idle"
        /\ polls' = IF source = "db" /\ polls < ForceAfter THEN polls + 1 ELSE polls
        /\ IF reload
           THEN /\ pc' = "loading"
                /\ current' = now
                /\ last' = IF source = "file" THEN now ELSE last
           ELSE UNCHANGED <<pc, current, last>>
        /\ UNCHANGED <<mode, outside, loaded, applied, missed>>

Next ==
    \/ \E tables \in SUBSET (1..Tables), moves \in {TRUE, ~SilentEdits} :
           Edit(tables, moves)
    \/ LoadTable
    \/ LoadFails
    \/ \E now \in {stamp, Absent} : FirstStamp(now)
    \/ \E now \in {stamp, Absent} : Poll(now)

(* The interval ticks for ever and a task that is ready runs; and a query   *)
(* that is made again and again may fail often, but not every time.         *)
Spec ==
    /\ Init /\ [][Next]_vars
    /\ WF_vars(\E now \in {stamp, Absent} : FirstStamp(now))
    /\ SF_vars(Poll(stamp))
    /\ \A n \in 0..2 : SF_vars(Len(loaded) = n /\ LoadTable)
----------------------------------------------------------------------------
\* A poller that has noted the present stamp is using the present content:
\* whatever was edited while it was loading, a torn read of three tables
\* included, leaves it with an older stamp and hence with a reload to come.  Of
\* a file this is so unless a load failed or the file was edited before the
\* first look at its modification time (missed).
SeenIsApplied ==
    \/ pc \in {"startup", "spawned", "stopped"}
    \/ pc = "loading" /\ source = "file"
    \/ last # stamp \/ content # stamped
    \/ missed
    \/ applied = Target

\* When the edits are over, the gateway comes to use what they left: from the
\* database whatever happened, thanks to the forced reload even if an edit did
\* not move the version; from a file unless it was missed.
EventuallyCurrent ==
    <>[](\/ applied = Target
         \/ pc = "stopped"
         \/ source = "file" /\ (missed \/ content # stamped))

\* README.md:331: "routes.yaml, auth.yaml, and quota.yaml are all monitored for
\* changes and reloaded automatically".
FilesAreFollowed ==
    <>[](source = "file" => applied = Target \/ pc = "stopped")
=============================================================================
