------------------------- MODULE MemoryRateLimiter -------------------------
(***************************************************************************)
(* The in-process rate limiter of server/src/rate_limit_memory.rs.         *)
(*                                                                         *)
(* Two maps hold, per bucket key, an Arc of a mutex-protected deque: the   *)
(* RPM deques hold one entry per admitted request, the TPM deques one      *)
(* entry per recorded response.  A caller clones the Arc under the map's   *)
(* shard lock, and locks the deque after that lock is released: in between *)
(* the cleanup task may take the deque out of the map.                     *)
(*                                                                         *)
(* A deque is an object of Windows, a bucket a key of one of the two maps, *)
(* and the entries of the RPM deques carry tokens = 1.                     *)
(***************************************************************************)
EXTENDS Integers, Sequences, FiniteSets

CONSTANTS RpmBuckets, TpmBuckets,  \* the keys of rpm_windows and tpm_windows
          Callers,       \* requests inside the limiter or owing it a response
          Windows,       \* bound: the deque objects alive at a time
          None,          \* no window, no caller, no bucket
          Limit,         \* [bucket -> the limit its callers pass]
          WindowLength,  \* window_ms, in clock units
          Tokens,        \* what a response may cost
          MaxTime        \* bound: the clock stops here

Buckets == RpmBuckets \cup TpmBuckets

ASSUME LimiterAssumption ==
    /\ RpmBuckets \cap TpmBuckets = {}
    /\ None \notin Buckets \cup Windows \cup Callers
    /\ IsFiniteSet(Callers) /\ Callers # {}
    /\ Limit \in [Buckets -> Nat]
    /\ WindowLength \in Nat
    /\ Tokens \subseteq Nat \ {0}
    /\ \E most \in Tokens : \A n \in Tokens : n <= most
    /\ MaxTime \in Nat

VARIABLES now,      \* now_ms()
          entry,    \* [bucket -> its window in the map, or None]
          deque,    \* [window -> its entries, oldest first]
          mutex,    \* [window -> the caller that holds its lock, or None]
          caller,   \* [caller -> where it is in its call]
          cleaner   \* the cleanup task: its pass, and when the next is due

(* History, read by no action of the program.                              *)
VARIABLES granted,  \* [RPM bucket -> times of the admissions counted in the
                    \*  window of the map, oldest first]
          caught,   \* [bucket -> callers that held its window, not locked
                    \*  yet, when cleanup took it out of the map]
          stray     \* [RPM bucket -> times of the admissions counted in such
                    \*  a window, oldest first]

mapVars == <<entry, deque, mutex>>
history == <<granted, caught, stray>>
vars == <<now, mapVars, caller, cleaner, history>>

\* "owing": check_tpm let the request through, its tokens are not recorded
\* yet.  "found": the Arc is cloned, its mutex not locked yet.  A caller with
\* tokens > 0 is in record_tokens.
Idle == [pc |-> "idle", bucket |-> None, win |-> None, tokens |-> 0]
Owing(b) == [pc |-> "owing", bucket |-> b, win |-> None, tokens |-> 0]

CallerType ==
    [pc : {"idle", "owing", "found", "locked"}, bucket : Buckets \cup {None},
     win : Windows \cup {None}, tokens : Nat]

EntryType == [at : 0..MaxTime, tokens : Nat]

TypeOK ==
    /\ now \in 0..MaxTime
    /\ entry \in [Buckets -> Windows \cup {None}]
    /\ deque \in [Windows -> Seq(EntryType)]
    /\ mutex \in [Windows -> Callers \cup {None}]
    /\ caller \in [Callers -> CallerType]
    /\ \A c \in Callers : caller[c].pc \in {"found", "locked"} =>
          caller[c].bucket \in Buckets /\ caller[c].win \in Windows
    /\ \A c \in Callers : caller[c].pc = "owing" => caller[c].bucket \in TpmBuckets
    /\ cleaner \in [cutoff : Int, todo : SUBSET Buckets, due : Nat]
    /\ granted \in [RpmBuckets -> Seq(0..MaxTime)]
    /\ caught \in [Buckets -> Nat]
    /\ stray \in [RpmBuckets -> Seq(0..MaxTime)]

\* The cleanup task sleeps window_secs.max(1) between two passes.
CleanupInterval == IF WindowLength > 0 THEN WindowLength ELSE 1

Init ==
    /\ now = 0
    /\ entry = [b \in Buckets |-> None]
    /\ deque = [w \in Windows |-> <<>>]
    /\ mutex = [w \in Windows |-> None]
    /\ caller = [c \in Callers |-> Idle]
    /\ cleaner = [cutoff |-> 0, todo |-> {}, due |-> CleanupInterval]
    /\ granted = [b \in RpmBuckets |-> <<>>]
    /\ caught = [b \in Buckets |-> 0]
    /\ stray = [b \in RpmBuckets |-> <<>>]
----------------------------------------------------------------------------
\* The eviction loop pops the first n entries of d.
Evicts(d, n, cutoff) ==
    /\ n \in 0..Len(d)
    /\ \A i \in 1..n : d[i].at <= cutoff
    /\ n < Len(d) => d[n + 1].at > cutoff

Remaining(d, n) == SubSeq(d, n + 1, Len(d))

SumOf(amounts) ==
    LET sum[i \in 0..Len(amounts)] == IF i = 0 THEN 0 ELSE sum[i - 1] + amounts[i]
    IN  sum[Len(amounts)]

TotalTokens(d) == SumOf([i \in DOMAIN d |-> d[i].tokens])

\* The callers with a clone of window w's Arc.
Holders(w) == {c \in Callers : caller[c].win = w}

\* Windows that nothing refers to: dropped, or not allocated yet.
FreeWindows ==
    {w \in Windows : Holders(w) = {} /\ \A b \in Buckets : entry[b] # w}
----------------------------------------------------------------------------
(* The three calls begin alike: rpm_window(), tpm_window().                *)

\* Mutant: insert in place of get-or-insert.
GetOrInsertInserts(c, b, tokens) ==
    \E w \in FreeWindows :
        /\ entry' = [entry EXCEPT ![b] = w]
        /\ deque' = [deque EXCEPT ![w] = <<>>]
        /\ caller' = [caller EXCEPT ![c] =
               [pc |-> "found", bucket |-> b, win |-> w, tokens |-> tokens]]
        /\ UNCHANGED <<now, mutex, cleaner, history>>

\* Under the shard lock: get the window of b or insert a new one, clone its Arc.
GetOrInsert(c, b, tokens) ==
    \E w \in Windows :
        /\ IF entry[b] # None
           THEN w = entry[b] /\ UNCHANGED <<entry, deque>>
           ELSE /\ w \in FreeWindows
                /\ entry' = [entry EXCEPT ![b] = w]
                /\ deque' = [deque EXCEPT ![w] = <<>>]
        /\ caller' = [caller EXCEPT ![c] =
               [pc |-> "found", bucket |-> b, win |-> w, tokens |-> tokens]]
        /\ UNCHANGED <<now, mutex, cleaner, history>>

BeginCheck(c, b) == caller[c].pc = "idle" /\ GetOrInsert(c, b, 0)

\* record_tokens() with tokens > 0 (with 0 it returns at once: Abandon).
BeginRecord(c, tokens) ==
    caller[c].pc = "owing" /\ GetOrInsert(c, caller[c].bucket, tokens)

\* The response failed, or used no tokens.
Abandon(c) ==
    /\ caller[c].pc = "owing"
    /\ caller' = [caller EXCEPT ![c] = Idle]
    /\ UNCHANGED <<now, mapVars, cleaner, history>>

Lock(c) ==
    /\ caller[c].pc = "found"
    /\ mutex[caller[c].win] = None
    /\ mutex' = [mutex EXCEPT ![caller[c].win] = c]
    /\ caller' = [caller EXCEPT ![c].pc = "locked"]
    /\ UNCHANGED <<now, entry, deque, cleaner, history>>

\* The end of a call: the deque is d, the guard and the Arc are dropped.
Return(c, d, next) ==
    /\ deque' = [deque EXCEPT ![caller[c].win] = d]
    /\ mutex' = [mutex EXCEPT ![caller[c].win] = None]
    /\ caller' = [caller EXCEPT ![c] = next]
    /\ UNCHANGED <<now, entry, cleaner, caught>>

CheckRpm(c) ==
    LET b == caller[c].bucket
        w == caller[c].win
    IN  /\ caller[c].pc = "locked"
        /\ b \in RpmBuckets
        /\ \E n \in 0..Len(deque[w]) :
             /\ Evicts(deque[w], n, now - WindowLength)
             /\ LET rest == Remaining(deque[w], n)
                IN  \/ /\ Len(rest) >= Limit[b]
                       /\ Return(c, rest, Idle)
                       /\ UNCHANGED <<granted, stray>>
                    \/ /\ Len(rest) < Limit[b]
                       /\ Return(c, Append(rest, [at |-> now, tokens |-> 1]), Idle)
                       /\ IF entry[b] = w
                          THEN /\ granted' = [granted EXCEPT ![b] = Append(@, now)]
                               /\ UNCHANGED stray
                          ELSE /\ stray' = [stray EXCEPT ![b] = Append(@, now)]
                               /\ UNCHANGED granted

\* Mutant: > for >= in the test of the sum.
CheckTpmAtLimit(c) ==
    LET b == caller[c].bucket
        w == caller[c].win
    IN  /\ caller[c].pc = "locked"
        /\ b \in TpmBuckets
        /\ caller[c].tokens = 0
        /\ \E n \in 0..Len(deque[w]) :
             /\ Evicts(deque[w], n, now - WindowLength)
             /\ LET rest == Remaining(deque[w], n)
                IN  Return(c, rest, IF TotalTokens(rest) > Limit[b] THEN Idle ELSE Owing(b))
        /\ UNCHANGED <<granted, stray>>

CheckTpm(c) ==
    LET b == caller[c].bucket
        w == caller[c].win
    IN  /\ caller[c].pc = "locked"
        /\ b \in TpmBuckets
        /\ caller[c].tokens = 0
        /\ \E n \in 0..Len(deque[w]) :
             /\ Evicts(deque[w], n, now - WindowLength)
             /\ LET rest == Remaining(deque[w], n)
                IN  Return(c, rest, IF TotalTokens(rest) >= Limit[b] THEN Idle ELSE Owing(b))
        /\ UNCHANGED <<granted, stray>>

\* Mutant: the entry carries when it expires, not when it was made.
RecordTokensExpiry(c) ==
    /\ caller[c].pc = "locked"
    /\ caller[c].tokens > 0
    /\ Return(c, Append(deque[caller[c].win],
                        [at |-> now + WindowLength, tokens |-> caller[c].tokens]), Idle)
    /\ UNCHANGED <<granted, stray>>

\* Appends without a look at the limit: the request was let through long ago.
RecordTokens(c) ==
    /\ caller[c].pc = "locked"
    /\ caller[c].tokens > 0
    /\ Return(c, Append(deque[caller[c].win],
                        [at |-> now, tokens |-> caller[c].tokens]), Idle)
    /\ UNCHANGED <<granted, stray>>
----------------------------------------------------------------------------
(* cleanup_stale(): the RPM map first, then the TPM map.                   *)

BeginCleanup ==
    /\ cleaner.todo = {}
    /\ now >= cleaner.due
    /\ cleaner' = [cleaner EXCEPT !.cutoff = now - WindowLength, !.todo = Buckets]
    /\ UNCHANGED <<now, mapVars, caller, granted, caught, stray>>

\* Mutant: a window nobody has locked goes, whatever it still counts.
CleanEntryUnlocked(b) ==
    LET w == entry[b]
    IN  IF w = None \/ mutex[w] # None
        THEN UNCHANGED <<entry, deque, caught>>
        ELSE /\ deque' = [deque EXCEPT ![w] = <<>>]
             /\ entry' = [entry EXCEPT ![b] = None]
             /\ caught' = [caught EXCEPT ![b] = @ + Cardinality(Holders(w))]

\* One entry of retain(), under its shard lock: a window that somebody has
\* locked stays; another one is evicted up to the cutoff of the whole pass,
\* and taken out of the map if that leaves it empty.
CleanEntry(b) ==
    LET w == entry[b]
    IN  IF w = None \/ mutex[w] # None
        THEN UNCHANGED <<entry, deque, caught>>
        ELSE \E n \in 0..Len(deque[w]) :
               /\ Evicts(deque[w], n, cleaner.cutoff)
               /\ deque' = [deque EXCEPT ![w] = Remaining(@, n)]
               /\ IF n = Len(deque[w])
                  THEN /\ entry' = [entry EXCEPT ![b] = None]
                       /\ caught' = [caught EXCEPT ![b] = @ + Cardinality(Holders(w))]
                  ELSE UNCHANGED <<entry, caught>>

Cleanup(b) ==
    /\ b \in cleaner.todo
    /\ b \in TpmBuckets => cleaner.todo \cap RpmBuckets = {}
    /\ CleanEntry(b)
    /\ cleaner' = [cleaner EXCEPT !.todo = @ \ {b}, !.due = now + CleanupInterval]
    /\ UNCHANGED <<now, mutex, caller, granted, stray>>
----------------------------------------------------------------------------
Tick ==
    /\ now < MaxTime
    /\ now' = now + 1
    /\ UNCHANGED <<mapVars, caller, cleaner, history>>

Next ==
    \/ Tick
    \/ \E c \in Callers :
         \/ \E b \in Buckets : BeginCheck(c, b)
         \/ \E n \in Tokens : BeginRecord(c, n)
         \/ Abandon(c)
         \/ Lock(c)
         \/ CheckRpm(c)
         \/ CheckTpm(c)
         \/ RecordTokens(c)
    \/ BeginCleanup
    \/ \E b \in Buckets : Cleanup(b)

Spec == Init /\ [][Next]_vars
----------------------------------------------------------------------------
\* The hard limit ("atomic check + increment behind a per-key mutex"): of the
\* admissions counted in the map, any two that are Limit apart are at least a
\* window apart in time, so no window ever holds more than Limit of them,
\* across every eviction, every cleanup and every window object of the bucket.
HardLimit ==
    \A b \in RpmBuckets : \A i \in 1..Len(granted[b]) :
        i + Limit[b] <= Len(granted[b]) =>
            granted[b][i + Limit[b]] - granted[b][i] >= WindowLength

\* The price of the race that cleanup_stale documents: the admissions that no
\* later caller sees are at most the callers that were caught, between the map
\* and the mutex, by a cleanup that removed their window.
StraysWereCaught ==
    \A b \in RpmBuckets :
        Len(stray[b]) + Cardinality({c \in Callers :
                       caller[c].bucket = b /\ caller[c].win # None
                                            /\ caller[c].win # entry[b]})
            <= caught[b]

\* Tokens recorded in the window of the map and not expired.
LiveTokens(b) ==
    LET d == IF entry[b] = None THEN <<>> ELSE deque[entry[b]]
        isLive(e) == e.at > now - WindowLength
    IN  SumOf([i \in DOMAIN d |-> IF isLive(d[i]) THEN d[i].tokens ELSE 0])

\* The soft limit ("bounded overshoot accepted"): as long as cleanup has
\* caught nobody, the tokens of any window stay below the limit plus what the
\* requests in flight together may add, those that still owe theirs included.
SoftLimit ==
    \A b \in TpmBuckets : caught[b] = 0 =>
        LET most == CHOOSE n \in Tokens : \A m \in Tokens : m <= n
            due == {c \in Callers : caller[c].bucket = b
                       /\ (caller[c].pc = "owing" \/ caller[c].tokens > 0)}
        IN  LiveTokens(b) + most * Cardinality(due)
                < Limit[b] + most * Cardinality(Callers)
=============================================================================
