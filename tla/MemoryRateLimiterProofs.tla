---------------------- MODULE MemoryRateLimiterProofs ----------------------
(***************************************************************************)
(* The limits of the in-process limiter, for every set of callers and      *)
(* buckets, every limit and every window length.                           *)
(*                                                                         *)
(* HardLimit speaks of the whole history of a bucket, the code only of the *)
(* deque that is in the map.  The link is Fits: the deque is the end of    *)
(* the history, and what the history has before it is out of the window.   *)
(* StrayInv counts the callers whose window is not in the map any more,    *)
(* SoftInv adds up what a window holds and what its callers still owe it.  *)
(***************************************************************************)
EXTENDS MemoryRateLimiter, FiniteSetTheorems, WellFoundedInduction, TLAPS

\* d holds the last admissions of g, and those before them are at most old.
Fits(g, d, old) ==
    /\ Len(d) <= Len(g)
    /\ \A j \in 1..Len(d) : g[Len(g) - Len(d) + j] = d[j].at
    /\ \A i \in 1..(Len(g) - Len(d)) : g[i] <= old

\* Two elements of g that are limit apart differ by a window at least.
Spaced(g, limit) ==
    \A i \in 1..Len(g) :
        i + limit <= Len(g) => g[i + limit] - g[i] >= WindowLength

Times == 0..MaxTime

\* The elements of a history and of a deque are numbers, resp. have one.
LEMMA HistoryElements ==
    ASSUME NEW g \in Seq(Times), NEW i \in 1..Len(g)
    PROVE  g[i] \in Times /\ g[i] \in Int
<1>1. g[i] \in Times
  OBVIOUS
<1>2. Times \subseteq Int
  BY LimiterAssumption DEF Times
<1> QED
  BY <1>1, <1>2

LEMMA DequeElements ==
    ASSUME NEW d \in Seq(EntryType), NEW i \in 1..Len(d)
    PROVE  d[i].at \in Times /\ d[i].at \in Int
<1>1. d[i] \in EntryType
  OBVIOUS
<1> QED
  BY <1>1, LimiterAssumption DEF EntryType, Times

\* What Remaining returns.
LEMMA RemainingElements ==
    ASSUME NEW d \in Seq(EntryType), NEW n \in 0..Len(d)
    PROVE  /\ Remaining(d, n) \in Seq(EntryType)
           /\ Len(Remaining(d, n)) = Len(d) - n
           /\ \A j \in 1..(Len(d) - n) : Remaining(d, n)[j] = d[n + j]
  BY DEF Remaining

\* Time passes: what was out of the window stays out of it.
LEMMA FitsLater ==
    ASSUME NEW g \in Seq(Times), NEW d \in Seq(EntryType),
           NEW old \in Int, NEW later \in Int, old <= later, Fits(g, d, old)
    PROVE  Fits(g, d, later)
<1>1. ASSUME NEW i \in 1..(Len(g) - Len(d))
      PROVE  g[i] <= later
  <2>1. i \in 1..Len(g) /\ g[i] <= old
    BY DEF Fits
  <2>2. g[i] \in Int
    BY <2>1, HistoryElements
  <2> QED
    BY <2>1, <2>2
<1> QED
  BY <1>1 DEF Fits

\* Evicting what is no newer than old keeps the fit.
LEMMA FitsAfterEviction ==
    ASSUME NEW g \in Seq(Times), NEW d \in Seq(EntryType), NEW n \in 0..Len(d),
           NEW old \in Int, NEW cutoff \in Int, cutoff <= old,
           Fits(g, d, old), Evicts(d, n, cutoff)
    PROVE  Fits(g, Remaining(d, n), old)
<1> DEFINE r == Remaining(d, n)
           h == Len(g) - Len(d)
<1>1. /\ Len(r) = Len(d) - n
      /\ \A j \in 1..(Len(d) - n) : r[j] = d[n + j]
  BY RemainingElements
<1>2. Len(r) <= Len(g) /\ Len(g) - Len(r) = h + n
  BY <1>1 DEF Fits
<1>3. \A j \in 1..Len(r) : g[h + n + j] = r[j].at
  <2> SUFFICES ASSUME NEW j \in 1..Len(r) PROVE g[h + n + j] = r[j].at
    OBVIOUS
  <2>1. n + j \in 1..Len(d) /\ r[j] = d[n + j]
    BY <1>1
  <2> QED
    BY <2>1 DEF Fits
<1>4. \A i \in 1..(h + n) : g[i] <= old
  <2> SUFFICES ASSUME NEW i \in 1..(h + n) PROVE g[i] <= old
    OBVIOUS
  <2>1. CASE i <= h
    BY <2>1 DEF Fits
  <2>2. CASE i > h
    <3>1. i - h \in 1..n /\ g[h + (i - h)] = d[i - h].at
      BY <2>2 DEF Fits
    <3>2. d[i - h].at <= cutoff
      BY <3>1 DEF Evicts
    <3>3. d[i - h].at \in Int
      BY <3>1, DequeElements
    <3> QED
      BY <3>1, <3>2, <3>3
  <2> QED
    BY <2>1, <2>2
<1> QED
  BY <1>2, <1>3, <1>4 DEF Fits

\* An admission is pushed on both.
LEMMA FitsAfterPush ==
    ASSUME NEW g \in Seq(Times), NEW d \in Seq(EntryType), NEW old \in Int,
           NEW at \in Times, Fits(g, d, old)
    PROVE  Fits(Append(g, at), Append(d, [at |-> at, tokens |-> 1]), old)
<1> DEFINE e == [at |-> at, tokens |-> 1]
           a == Append(g, at)
           q == Append(d, e)
<1>1. /\ Len(a) = Len(g) + 1 /\ Len(q) = Len(d) + 1
      /\ a[Len(g) + 1] = at /\ q[Len(d) + 1] = e
      /\ \A k \in 1..Len(g) : a[k] = g[k]
      /\ \A k \in 1..Len(d) : q[k] = d[k]
  OBVIOUS
<1>2. Len(d) <= Len(g) /\ Len(d) \in Nat /\ Len(g) \in Nat
  BY DEF Fits
<1> HIDE DEF a, q
<1>3. \A j \in 1..Len(q) : a[Len(a) - Len(q) + j] = q[j].at
  <2>a. Len(a) - Len(q) = Len(g) - Len(d)
    BY <1>1, <1>2
  <2> SUFFICES ASSUME NEW j \in 1..Len(q)
               PROVE  a[Len(g) - Len(d) + j] = q[j].at
    BY <2>a, Zenon
  <2>1. CASE j = Len(d) + 1
    BY <1>1, <1>2, <2>1
  <2>2. CASE j \in 1..Len(d)
    <3>1. g[Len(g) - Len(d) + j] = d[j].at
      BY <2>2 DEF Fits
    <3>2. Len(g) - Len(d) + j \in 1..Len(g)
      BY <1>2, <2>2
    <3> QED
      BY <1>1, <2>2, <3>1, <3>2
  <2> QED
    BY <1>1, <1>2, <2>1, <2>2
<1>4. \A i \in 1..(Len(a) - Len(q)) : a[i] <= old
  BY <1>1, <1>2 DEF Fits
<1>5. Fits(a, q, old)
  BY <1>1, <1>2, <1>3, <1>4 DEF Fits
<1> QED
  BY <1>5 DEF a, q

\* The limit test: with fewer than limit admissions in the deque, the one that
\* is limit before the new one has left the window.
LEMMA SpacedAfterPush ==
    ASSUME NEW g \in Seq(Times), NEW d \in Seq(EntryType), NEW at \in Times,
           NEW limit \in Nat, Len(d) < limit,
           Fits(g, d, at - WindowLength), Spaced(g, limit)
    PROVE  Spaced(Append(g, at), limit)
<1> DEFINE a == Append(g, at)
<1> SUFFICES ASSUME NEW i \in 1..Len(a), i + limit <= Len(a)
             PROVE  a[i + limit] - a[i] >= WindowLength
  BY DEF Spaced
<1>1. /\ Len(a) = Len(g) + 1
      /\ a[Len(g) + 1] = at
      /\ \A k \in 1..Len(g) : a[k] = g[k]
  OBVIOUS
<1>2. CASE i + limit <= Len(g)
  BY <1>1, <1>2 DEF Spaced
<1>3. CASE i + limit = Len(g) + 1
  <2>1. i \in 1..(Len(g) - Len(d))
    BY <1>3 DEF Fits
  <2>2. g[i] <= at - WindowLength
    BY <2>1 DEF Fits
  <2> QED
    BY <1>1, <1>3, <2>1, <2>2, LimiterAssumption DEF Times
<1> QED
  BY <1>1, <1>2, <1>3
----------------------------------------------------------------------------
(* The inductive invariant.                                                *)

\* The window of b in the map, as far as admissions are concerned.
InMap(b) == IF entry[b] = None THEN <<>> ELSE deque[entry[b]]

\* No two buckets share a window, and whoever holds a window that is in the
\* map works on the bucket it is in the map for.
WindowsApart ==
    /\ \A a, b \in Buckets : entry[a] # None /\ entry[a] = entry[b] => a = b
    /\ \A c \in Callers, b \in Buckets :
          caller[c].win # None /\ caller[c].win = entry[b] => caller[c].bucket = b

\* Only requests that check_tpm let through record tokens.
RecordersOnTpm ==
    \A c \in Callers : caller[c].tokens > 0 => caller[c].bucket \in TpmBuckets

\* A cleanup pass evicts with the cutoff it began with, which only gets older.
CutoffIsPast == cleaner.todo # {} => cleaner.cutoff <= now - WindowLength

HistoryFits ==
    \A b \in RpmBuckets : Fits(granted[b], InMap(b), now - WindowLength)

HardLimitInv ==
    /\ TypeOK
    /\ WindowsApart
    /\ RecordersOnTpm
    /\ CutoffIsPast
    /\ HistoryFits
    /\ HardLimit

\* What a step does to the callers keeps their type.
CallersOK ==
    /\ caller \in [Callers -> CallerType]
    /\ \A c \in Callers : caller[c].pc \in {"found", "locked"} =>
          caller[c].bucket \in Buckets /\ caller[c].win \in Windows
    /\ \A c \in Callers : caller[c].pc = "owing" => caller[c].bucket \in TpmBuckets

LEMMA CallerUpdate ==
    ASSUME CallersOK, NEW c \in Callers, NEW r \in CallerType,
           caller' = [caller EXCEPT ![c] = r],
           r.pc \in {"found", "locked"} => r.bucket \in Buckets /\ r.win \in Windows,
           r.pc = "owing" => r.bucket \in TpmBuckets
    PROVE  CallersOK'
  BY DEF CallersOK

LEMMA IdleType == Idle \in CallerType /\ Idle.pc = "idle"
  BY DEF Idle, CallerType

LEMMA OwingType ==
    ASSUME NEW b \in TpmBuckets
    PROVE  Owing(b) \in CallerType /\ Owing(b).pc = "owing" /\ Owing(b).bucket = b
  BY DEF Owing, CallerType, Buckets

\* A call that begins finds a window for its bucket and keeps the types.
LEMMA GetOrInsertType ==
    ASSUME TypeOK, NEW c \in Callers, NEW b \in Buckets, NEW n \in Nat,
           GetOrInsert(c, b, n)
    PROVE  TypeOK'
<1>1. PICK w \in Windows :
        /\ IF entry[b] # None
           THEN w = entry[b] /\ UNCHANGED <<entry, deque>>
           ELSE /\ w \in FreeWindows
                /\ entry' = [entry EXCEPT ![b] = w]
                /\ deque' = [deque EXCEPT ![w] = <<>>]
        /\ caller' = [caller EXCEPT ![c] =
               [pc |-> "found", bucket |-> b, win |-> w, tokens |-> n]]
        /\ UNCHANGED <<now, mutex, cleaner, history>>
  BY DEF GetOrInsert
<1>2. CallersOK'
  <2> DEFINE r == [pc |-> "found", bucket |-> b, win |-> w, tokens |-> n]
  <2>1. r \in CallerType
    BY DEF CallerType
  <2>2. CallersOK
    BY DEF TypeOK, CallersOK
  <2> QED
    BY <1>1, <2>1, <2>2, CallerUpdate
<1>3. entry' \in [Buckets -> Windows \cup {None}]
  BY <1>1 DEF TypeOK
<1>4. deque' \in [Windows -> Seq(EntryType)]
  <2>1. deque \in [Windows -> Seq(EntryType)] /\ <<>> \in Seq(EntryType)
    BY DEF TypeOK
  <2> QED
    BY <1>1, <2>1
<1> QED
  BY <1>1, <1>2, <1>3, <1>4 DEF TypeOK, CallersOK, history

\* The end of a call keeps the types of what it writes.
LEMMA ReturnType ==
    ASSUME TypeOK, NEW c \in Callers, caller[c].pc = "locked",
           NEW d \in Seq(EntryType), NEW r \in CallerType, Return(c, d, r),
           r.pc \notin {"found", "locked"},
           r.pc = "owing" => r.bucket \in TpmBuckets,
           granted' \in [RpmBuckets -> Seq(0..MaxTime)],
           stray' \in [RpmBuckets -> Seq(0..MaxTime)]
    PROVE  TypeOK'
<1>1. CallersOK'
  <2>1. CallersOK
    BY DEF TypeOK, CallersOK
  <2> QED
    BY <2>1, CallerUpdate DEF Return
<1>2. deque' \in [Windows -> Seq(EntryType)]
  <2>1. deque \in [Windows -> Seq(EntryType)]
    BY DEF TypeOK
  <2> QED
    BY <2>1 DEF Return
<1>3. mutex' \in [Windows -> Callers \cup {None}]
  BY DEF TypeOK, Return
<1> QED
  BY <1>1, <1>2, <1>3 DEF TypeOK, CallersOK, Return

LEMMA PushType ==
    ASSUME NEW d \in Seq(EntryType), NEW at \in 0..MaxTime, NEW n \in Nat
    PROVE  Append(d, [at |-> at, tokens |-> n]) \in Seq(EntryType)
<1>1. [at |-> at, tokens |-> n] \in EntryType
  BY DEF EntryType
<1> QED
  BY <1>1

LEMMA CheckRpmType ==
    ASSUME TypeOK, NEW c \in Callers, CheckRpm(c)
    PROVE  TypeOK'
<1> DEFINE b == caller[c].bucket
           w == caller[c].win
<1>1. caller[c].pc = "locked" /\ b \in RpmBuckets /\ w \in Windows /\ now \in 0..MaxTime
  BY DEF CheckRpm, TypeOK
<1>2. deque[w] \in Seq(EntryType)
  BY <1>1 DEF TypeOK
<1>3. PICK n \in 0..Len(deque[w]) :
        /\ Evicts(deque[w], n, now - WindowLength)
        /\ LET rest == Remaining(deque[w], n)
           IN  \/ /\ Len(rest) >= Limit[b]
                  /\ Return(c, rest, Idle)
                  /\ UNCHANGED <<granted, stray>>
               \/ /\ Len(rest) < Limit[b]
                  /\ Return(c, Append(rest, [at |-> now, tokens |-> 1]), Idle)
                  /\ IF entry[b] = w
                     THEN /\ granted' = [granted EXCEPT ![b] = Append(@, now)]
                          /\ UNCHANGED stray
                     ELSE /\ stray' = [stray EXCEPT ![b] = Append(@, now)]
                          /\ UNCHANGED granted
  BY Zenon DEF CheckRpm
<1>4. Remaining(deque[w], n) \in Seq(EntryType)
  BY <1>2, RemainingElements
<1>5. Append(Remaining(deque[w], n), [at |-> now, tokens |-> 1]) \in Seq(EntryType)
  BY <1>1, <1>4, PushType
<1>6. /\ granted' \in [RpmBuckets -> Seq(0..MaxTime)]
      /\ stray' \in [RpmBuckets -> Seq(0..MaxTime)]
  <2>1. /\ granted \in [RpmBuckets -> Seq(0..MaxTime)]
        /\ stray \in [RpmBuckets -> Seq(0..MaxTime)]
    BY DEF TypeOK
  <2>2. /\ Append(granted[b], now) \in Seq(0..MaxTime)
        /\ Append(stray[b], now) \in Seq(0..MaxTime)
    <3>1. granted[b] \in Seq(0..MaxTime) /\ stray[b] \in Seq(0..MaxTime)
      BY <1>1, <2>1
    <3> QED
      BY <1>1, <3>1
  <2> QED
    BY <1>1, <1>3, <2>1, <2>2
<1> QED
  BY <1>1, <1>3, <1>4, <1>5, <1>6, ReturnType, IdleType

LEMMA CheckTpmType ==
    ASSUME TypeOK, NEW c \in Callers, CheckTpm(c)
    PROVE  TypeOK'
<1> DEFINE b == caller[c].bucket
           w == caller[c].win
<1>1. /\ caller[c].pc = "locked" /\ b \in TpmBuckets /\ w \in Windows
      /\ UNCHANGED <<granted, stray>>
  BY DEF CheckTpm, TypeOK
<1>2. deque[w] \in Seq(EntryType)
  BY <1>1 DEF TypeOK
<1>3. PICK n \in 0..Len(deque[w]) :
        LET rest == Remaining(deque[w], n)
        IN  Return(c, rest, Idle) \/ Return(c, rest, Owing(b))
  BY Zenon DEF CheckTpm
<1>4. Remaining(deque[w], n) \in Seq(EntryType)
  BY <1>2, RemainingElements
<1>5. /\ granted' \in [RpmBuckets -> Seq(0..MaxTime)]
      /\ stray' \in [RpmBuckets -> Seq(0..MaxTime)]
  BY <1>1 DEF TypeOK
<1> QED
  BY <1>1, <1>3, <1>4, <1>5, ReturnType, IdleType, OwingType

LEMMA RecordTokensType ==
    ASSUME TypeOK, NEW c \in Callers, RecordTokens(c)
    PROVE  TypeOK'
<1> DEFINE w == caller[c].win
           n == caller[c].tokens
<1>1. caller[c].pc = "locked" /\ w \in Windows /\ n \in Nat /\ now \in 0..MaxTime
  BY DEF RecordTokens, TypeOK, CallerType
<1>2. deque[w] \in Seq(EntryType)
  BY <1>1 DEF TypeOK
<1>3. Append(deque[w], [at |-> now, tokens |-> n]) \in Seq(EntryType)
  BY <1>1, <1>2, PushType
<1>4. /\ granted' \in [RpmBuckets -> Seq(0..MaxTime)]
      /\ stray' \in [RpmBuckets -> Seq(0..MaxTime)]
  BY DEF TypeOK, RecordTokens
<1> QED
  BY <1>1, <1>3, <1>4, ReturnType, IdleType DEF RecordTokens

LEMMA CleanupType ==
    ASSUME TypeOK, NEW b \in Buckets, Cleanup(b)
    PROVE  TypeOK'
<1>1. /\ cleaner' \in [cutoff : Int, todo : SUBSET Buckets, due : Nat]
      /\ UNCHANGED <<now, mutex, caller, granted, stray>>
  <2>1. now + CleanupInterval \in Nat
    BY LimiterAssumption DEF TypeOK, CleanupInterval
  <2> QED
    BY <2>1 DEF Cleanup, TypeOK
<1>2. CASE entry[b] = None \/ mutex[entry[b]] # None
  BY <1>1, <1>2 DEF Cleanup, CleanEntry, TypeOK
<1>3. CASE ~ (entry[b] = None \/ mutex[entry[b]] # None)
  <2> DEFINE w == entry[b]
  <2>1. PICK n \in 0..Len(deque[w]) :
          /\ deque' = [deque EXCEPT ![w] = Remaining(@, n)]
          /\ IF n = Len(deque[w])
             THEN /\ entry' = [entry EXCEPT ![b] = None]
                  /\ caught' = [caught EXCEPT ![b] = @ + Cardinality(Holders(w))]
             ELSE UNCHANGED <<entry, caught>>
    BY <1>3 DEF Cleanup, CleanEntry
  <2>2. deque' \in [Windows -> Seq(EntryType)]
    <3>1. w \in Windows /\ deque \in [Windows -> Seq(EntryType)]
      BY <1>3 DEF TypeOK
    <3>2. Remaining(deque[w], n) \in Seq(EntryType)
      BY <3>1, RemainingElements
    <3> QED
      BY <2>1, <3>1, <3>2
  <2>3. entry' \in [Buckets -> Windows \cup {None}]
    BY <2>1 DEF TypeOK
  <2>4. caught' \in [Buckets -> Nat]
    <3>1. Cardinality(Holders(w)) \in Nat
      <4>1. IsFiniteSet(Holders(w))
        BY LimiterAssumption, FS_Subset DEF Holders
      <4> QED
        BY <4>1, FS_CardinalityType
    <3>2. caught \in [Buckets -> Nat]
      BY DEF TypeOK
    <3>3. caught[b] + Cardinality(Holders(w)) \in Nat
      BY <3>1, <3>2
    <3>4. CASE n = Len(deque[w])
      BY <2>1, <3>2, <3>3, <3>4
    <3>5. CASE n # Len(deque[w])
      BY <2>1, <3>2, <3>5
    <3> QED
      BY <3>4, <3>5
  <2> QED
    BY <1>1, <2>2, <2>3, <2>4 DEF TypeOK
<1> QED
  BY <1>2, <1>3

\* Every variable keeps its type.
LEMMA TypePreserved ==
    ASSUME TypeOK, [Next]_vars
    PROVE  TypeOK'
<1>1. CASE Tick
  BY <1>1, LimiterAssumption DEF Tick, TypeOK, mapVars, history
<1>2. ASSUME NEW c \in Callers, NEW b \in Buckets, BeginCheck(c, b)
      PROVE  TypeOK'
  BY <1>2, GetOrInsertType DEF BeginCheck
<1>3. ASSUME NEW c \in Callers, NEW n \in Tokens, BeginRecord(c, n)
      PROVE  TypeOK'
  <2>1. n \in Nat /\ caller[c].bucket \in Buckets
    BY <1>3, LimiterAssumption DEF BeginRecord, TypeOK, Buckets
  <2> QED
    BY <1>3, <2>1, GetOrInsertType DEF BeginRecord
<1>4. ASSUME NEW c \in Callers, Abandon(c)
      PROVE  TypeOK'
  <2>1. CallersOK'
    BY <1>4, CallerUpdate, IdleType DEF Abandon, TypeOK, CallersOK
  <2> QED
    BY <1>4, <2>1 DEF Abandon, TypeOK, CallersOK, mapVars, history
<1>5. ASSUME NEW c \in Callers, Lock(c)
      PROVE  TypeOK'
  <2> DEFINE r == [caller[c] EXCEPT !.pc = "locked"]
  <2>1. /\ r \in CallerType
        /\ r.pc = "locked" /\ r.bucket \in Buckets /\ r.win \in Windows
    BY <1>5 DEF Lock, TypeOK, CallerType
  <2>2. CallersOK'
    <3>1. caller' = [caller EXCEPT ![c] = r]
      BY <1>5 DEF Lock
    <3>2. CallersOK
      BY DEF TypeOK, CallersOK
    <3> QED
      BY <2>1, <3>1, <3>2, CallerUpdate
  <2>3. mutex' \in [Windows -> Callers \cup {None}]
    BY <1>5 DEF Lock, TypeOK
  <2> QED
    BY <1>5, <2>2, <2>3 DEF Lock, TypeOK, CallersOK, history
<1>6. CASE BeginCleanup
  <2>1. cleaner' \in [cutoff : Int, todo : SUBSET Buckets, due : Nat]
    <3>1. now - WindowLength \in Int
      BY LimiterAssumption DEF TypeOK
    <3> QED
      BY <1>6, <3>1 DEF BeginCleanup, TypeOK
  <2> QED
    BY <1>6, <2>1 DEF BeginCleanup, TypeOK, mapVars
<1>7. CASE UNCHANGED vars
  BY <1>7 DEF vars, TypeOK, mapVars, history
<1> QED
  BY <1>1, <1>2, <1>3, <1>4, <1>5, <1>6, <1>7, CheckRpmType, CheckTpmType,
     RecordTokensType, CleanupType DEF Next
----------------------------------------------------------------------------
LEMMA ApartPreserved ==
    ASSUME TypeOK, WindowsApart, RecordersOnTpm, [Next]_vars
    PROVE  WindowsApart' /\ RecordersOnTpm'
<1> USE LimiterAssumption DEF WindowsApart, RecordersOnTpm
<1>1. CASE Tick
  BY <1>1 DEF Tick, mapVars
<1>2. ASSUME NEW c \in Callers, NEW b \in Buckets, NEW n \in Nat,
             n > 0 => b \in TpmBuckets, GetOrInsert(c, b, n)
      PROVE  WindowsApart' /\ RecordersOnTpm'
  <2>1. PICK w \in Windows :
          /\ IF entry[b] # None
             THEN w = entry[b] /\ UNCHANGED <<entry, deque>>
             ELSE /\ w \in FreeWindows
                  /\ entry' = [entry EXCEPT ![b] = w]
                  /\ deque' = [deque EXCEPT ![w] = <<>>]
          /\ caller' = [caller EXCEPT ![c] =
                 [pc |-> "found", bucket |-> b, win |-> w, tokens |-> n]]
    BY <1>2 DEF GetOrInsert
  <2>2. RecordersOnTpm'
    BY <1>2, <2>1 DEF TypeOK
  <2>3. w # None
    OBVIOUS
  <2>4. CASE entry[b] # None
    BY <1>2, <2>1, <2>2, <2>4 DEF TypeOK
  <2>5. CASE entry[b] = None
    <3>1. /\ \A k \in Callers : caller[k].win # w
          /\ \A a \in Buckets : entry[a] # w
      BY <2>1, <2>5 DEF FreeWindows, Holders
    <3>2. /\ entry' = [entry EXCEPT ![b] = w]
          /\ entry \in [Buckets -> Windows \cup {None}]
      BY <2>1, <2>5 DEF TypeOK
    <3>3. \A x, y \in Buckets : entry'[x] # None /\ entry'[x] = entry'[y] => x = y
      BY <3>1, <3>2
    <3>4. ASSUME NEW k \in Callers, NEW x \in Buckets,
                 caller'[k].win # None, caller'[k].win = entry'[x]
          PROVE  caller'[k].bucket = x
      <4>1. CASE k = c
        BY <2>1, <2>3, <3>1, <3>2, <3>4, <4>1 DEF TypeOK
      <4>2. CASE k # c
        BY <2>1, <3>1, <3>2, <3>4, <4>2 DEF TypeOK
      <4> QED
        BY <4>1, <4>2
    <3> QED
      BY <2>2, <3>3, <3>4
  <2> QED
    BY <2>4, <2>5
<1>3. ASSUME NEW c \in Callers, NEW b \in Buckets, BeginCheck(c, b)
      PROVE  WindowsApart' /\ RecordersOnTpm'
  BY <1>2, <1>3 DEF BeginCheck
<1>4. ASSUME NEW c \in Callers, NEW n \in Tokens, BeginRecord(c, n)
      PROVE  WindowsApart' /\ RecordersOnTpm'
  BY <1>2, <1>4 DEF BeginRecord, TypeOK, Buckets
<1>5. ASSUME NEW c \in Callers, NEW d, NEW b \in TpmBuckets, NEW r,
             r = Idle \/ r = Owing(b), Return(c, d, r)
      PROVE  WindowsApart' /\ RecordersOnTpm'
  BY <1>5 DEF Return, Idle, Owing, TypeOK
<1>6. ASSUME NEW c \in Callers, NEW d, Return(c, d, Idle)
      PROVE  WindowsApart' /\ RecordersOnTpm'
  BY <1>6 DEF Return, Idle, TypeOK
<1>7. ASSUME NEW c \in Callers, Abandon(c)
      PROVE  WindowsApart' /\ RecordersOnTpm'
  BY <1>7 DEF Abandon, Idle, TypeOK, mapVars
<1>8. ASSUME NEW c \in Callers, Lock(c)
      PROVE  WindowsApart' /\ RecordersOnTpm'
  BY <1>8 DEF Lock, TypeOK, CallerType
<1>9. ASSUME NEW c \in Callers, CheckRpm(c)
      PROVE  WindowsApart' /\ RecordersOnTpm'
  <2>1. \E d : Return(c, d, Idle)
    BY <1>9 DEF CheckRpm
  <2> QED
    BY <1>6, <2>1
<1>10. ASSUME NEW c \in Callers, CheckTpm(c)
       PROVE  WindowsApart' /\ RecordersOnTpm'
  <2>1. \E d, r : (r = Idle \/ r = Owing(caller[c].bucket)) /\ Return(c, d, r)
    BY <1>10 DEF CheckTpm
  <2>2. caller[c].bucket \in TpmBuckets
    BY <1>10 DEF CheckTpm
  <2> QED
    BY <1>5, <2>1, <2>2
<1>11. ASSUME NEW c \in Callers, RecordTokens(c)
       PROVE  WindowsApart' /\ RecordersOnTpm'
  BY <1>6, <1>11 DEF RecordTokens
<1>12. CASE BeginCleanup
  BY <1>12 DEF BeginCleanup, mapVars
<1>13. ASSUME NEW b \in Buckets, Cleanup(b)
       PROVE  WindowsApart' /\ RecordersOnTpm'
  <2>1. entry' = entry \/ entry' = [entry EXCEPT ![b] = None]
    BY <1>13 DEF Cleanup, CleanEntry
  <2> QED
    BY <1>13, <2>1 DEF Cleanup, TypeOK
<1>14. CASE UNCHANGED vars
  BY <1>14 DEF vars, mapVars
<1> QED
  BY <1>1, <1>3, <1>4, <1>7, <1>8, <1>9, <1>10, <1>11, <1>12, <1>13, <1>14 DEF Next

\* now and the cleaner move only in three actions.
LEMMA CutoffPreserved ==
    ASSUME TypeOK, CutoffIsPast, [Next]_vars
    PROVE  CutoffIsPast'
<1>1. CASE Tick
  BY <1>1, LimiterAssumption DEF Tick, CutoffIsPast, TypeOK
<1>2. CASE BeginCleanup
  BY <1>2, LimiterAssumption DEF BeginCleanup, CutoffIsPast, TypeOK
<1>3. ASSUME NEW b \in Buckets, Cleanup(b)
      PROVE  CutoffIsPast'
  BY <1>3, LimiterAssumption DEF Cleanup, CutoffIsPast, TypeOK
<1>4. CASE UNCHANGED <<now, cleaner>>
  BY <1>4 DEF CutoffIsPast
<1>5. ASSUME NEW c \in Callers, NEW b, NEW n, GetOrInsert(c, b, n)
      PROVE  UNCHANGED <<now, cleaner>>
  BY <1>5 DEF GetOrInsert
<1>6. ASSUME NEW c \in Callers, NEW d, NEW r, Return(c, d, r)
      PROVE  UNCHANGED <<now, cleaner>>
  BY <1>6 DEF Return
<1>7. ASSUME NEW c \in Callers,
             CheckRpm(c) \/ CheckTpm(c) \/ RecordTokens(c)
      PROVE  UNCHANGED <<now, cleaner>>
  <2>1. \E d, r : Return(c, d, r)
    BY <1>7 DEF CheckRpm, CheckTpm, RecordTokens
  <2> QED
    BY <1>6, <2>1
<1>8. ASSUME NEW c \in Callers, Abandon(c) \/ Lock(c)
      PROVE  UNCHANGED <<now, cleaner>>
  BY <1>8 DEF Abandon, Lock
<1>9. CASE UNCHANGED vars
  BY <1>4, <1>9 DEF vars
<1> QED
  BY <1>1, <1>2, <1>3, <1>4, <1>5, <1>7, <1>8, <1>9
  DEF Next, BeginCheck, BeginRecord
----------------------------------------------------------------------------
LEMMA InMapType ==
    ASSUME TypeOK, NEW b \in Buckets
    PROVE  InMap(b) \in Seq(EntryType)
  BY DEF TypeOK, InMap

\* Most steps touch neither the admissions nor the RPM windows in the map.
LEMMA Framed ==
    ASSUME HistoryFits, HardLimit, UNCHANGED <<now, granted>>,
           \A b \in RpmBuckets : InMap(b)' = InMap(b)
    PROVE  HistoryFits' /\ HardLimit'
<1>1. HardLimit'
  BY DEF HardLimit
<1>2. \A b \in RpmBuckets : Fits(granted[b], InMap(b), now - WindowLength)
  BY DEF HistoryFits
<1>3. \A b \in RpmBuckets : Fits(granted'[b], InMap(b)', now' - WindowLength)
  BY <1>2
<1> QED
  BY <1>1, <1>3 DEF HistoryFits

\* A window that is inserted is empty, and no other bucket has it.
LEMMA InsertIsFramed ==
    ASSUME TypeOK, NEW c \in Callers, NEW b \in Buckets, NEW n, GetOrInsert(c, b, n)
    PROVE  UNCHANGED <<now, granted>> /\ \A x \in Buckets : InMap(x)' = InMap(x)
<1>1. PICK w \in Windows :
        /\ IF entry[b] # None
           THEN w = entry[b] /\ UNCHANGED <<entry, deque>>
           ELSE /\ w \in FreeWindows
                /\ entry' = [entry EXCEPT ![b] = w]
                /\ deque' = [deque EXCEPT ![w] = <<>>]
        /\ UNCHANGED <<now, mutex, cleaner, history>>
  BY DEF GetOrInsert
<1>2. CASE entry[b] # None
  BY <1>1, <1>2 DEF InMap, history
<1>3. CASE entry[b] = None
  <2>1. /\ \A a \in Buckets : entry[a] # w
        /\ entry' = [entry EXCEPT ![b] = w]
        /\ deque' = [deque EXCEPT ![w] = <<>>]
    BY <1>1, <1>3 DEF FreeWindows
  <2>2. entry \in [Buckets -> Windows \cup {None}] /\ DOMAIN deque = Windows
    BY DEF TypeOK
  <2>3. ASSUME NEW x \in Buckets
        PROVE  InMap(x)' = InMap(x)
    <3>1. CASE x = b
      BY <1>3, <2>1, <2>2, <3>1, LimiterAssumption DEF InMap
    <3>2. CASE x # b
      <4>1. entry'[x] = entry[x] /\ entry[x] # w
        BY <2>1, <2>2, <3>2 DEF Buckets
      <4>2. entry[x] # None => deque'[entry[x]] = deque[entry[x]]
        BY <2>1, <2>2, <4>1 DEF Buckets
      <4> QED
        BY <4>1, <4>2 DEF InMap
    <3> QED
      BY <3>1, <3>2
  <2> QED
    BY <1>1, <2>3 DEF history
<1> QED
  BY <1>2, <1>3

\* The end of a call writes one window, which at most its own bucket has.
LEMMA ReturnIsFramed ==
    ASSUME TypeOK, WindowsApart, NEW c \in Callers, caller[c].pc = "locked",
           NEW d, NEW r, Return(c, d, r), NEW x \in Buckets,
           caller[c].bucket # x \/ caller[c].win # entry[x]
    PROVE  InMap(x)' = InMap(x)
<1>1. caller[c].win # entry[x] /\ entry[x] \in Windows \cup {None}
  BY LimiterAssumption DEF WindowsApart, TypeOK, Buckets
<1>2. entry[x] # None => deque'[entry[x]] = deque[entry[x]]
  BY <1>1 DEF Return, TypeOK
<1> QED
  BY <1>2 DEF Return, InMap
----------------------------------------------------------------------------
LEMMA TickKeepsLimit ==
    ASSUME TypeOK, HistoryFits, HardLimit, Tick
    PROVE  HistoryFits' /\ HardLimit'
<1>1. HardLimit'
  BY DEF HardLimit, Tick, history
<1>2. ASSUME NEW b \in RpmBuckets
      PROVE  Fits(granted[b], InMap(b), now + 1 - WindowLength)
  <2>1. granted[b] \in Seq(Times) /\ InMap(b) \in Seq(EntryType)
    BY InMapType DEF TypeOK, Times, Buckets
  <2>2. Fits(granted[b], InMap(b), now - WindowLength)
    BY DEF HistoryFits
  <2>3. /\ now - WindowLength \in Int /\ now + 1 - WindowLength \in Int
        /\ now - WindowLength <= now + 1 - WindowLength
    BY LimiterAssumption DEF TypeOK
  <2> QED
    BY <2>1, <2>2, <2>3, FitsLater
<1>3. /\ now' = now + 1 /\ granted' = granted
      /\ \A b \in RpmBuckets : InMap(b)' = InMap(b)
  BY DEF Tick, mapVars, history, InMap
<1>4. ASSUME NEW b \in RpmBuckets
      PROVE  Fits(granted'[b], InMap(b)', now' - WindowLength)
  <2>1. granted'[b] = granted[b] /\ InMap(b)' = InMap(b)
    BY <1>3
  <2>2. now' - WindowLength = now + 1 - WindowLength
    BY LimiterAssumption DEF Tick, TypeOK
  <2> QED
    BY <1>2, <2>1, <2>2
<1> QED
  BY <1>1, <1>4 DEF HistoryFits

\* The admission of a request: eviction, limit test and push are one step.
LEMMA CheckRpmKeepsLimit ==
    ASSUME TypeOK, WindowsApart, HistoryFits, HardLimit,
           NEW c \in Callers, CheckRpm(c)
    PROVE  HistoryFits' /\ HardLimit'
<1> DEFINE b == caller[c].bucket
           w == caller[c].win
           old == now - WindowLength
<1>1. /\ caller[c].pc = "locked" /\ b \in RpmBuckets /\ b \in Buckets
      /\ w \in Windows /\ w # None /\ now \in Times /\ old \in Int
  BY LimiterAssumption DEF CheckRpm, TypeOK, Times, Buckets
<1>2. PICK n \in 0..Len(deque[w]) :
        /\ Evicts(deque[w], n, now - WindowLength)
        /\ LET rest == Remaining(deque[w], n)
           IN  \/ /\ Len(rest) >= Limit[b]
                  /\ Return(c, rest, Idle)
                  /\ UNCHANGED <<granted, stray>>
               \/ /\ Len(rest) < Limit[b]
                  /\ Return(c, Append(rest, [at |-> now, tokens |-> 1]), Idle)
                  /\ IF entry[b] = w
                     THEN /\ granted' = [granted EXCEPT ![b] = Append(@, now)]
                          /\ UNCHANGED stray
                     ELSE /\ stray' = [stray EXCEPT ![b] = Append(@, now)]
                          /\ UNCHANGED granted
  BY Zenon DEF CheckRpm
<1> DEFINE rest == Remaining(deque[w], n)
           more == Append(rest, [at |-> now, tokens |-> 1])
<1>3. /\ now' = now
      /\ entry' = entry
      /\ \/ Return(c, rest, Idle) /\ deque' = [deque EXCEPT ![w] = rest]
         \/ Return(c, more, Idle) /\ deque' = [deque EXCEPT ![w] = more]
  BY <1>2 DEF Return
<1>4. ASSUME NEW x \in RpmBuckets, x # b \/ entry[b] # w
      PROVE  InMap(x)' = InMap(x)
  <2>1. caller[c].bucket # x \/ caller[c].win # entry[x]
    BY <1>4
  <2> QED
    BY <1>1, <1>3, <2>1, ReturnIsFramed DEF Buckets
<1>5. CASE entry[b] # w
  <2>1. granted' = granted
    BY <1>2, <1>5
  <2> QED
    BY <1>3, <1>4, <1>5, <2>1, Framed
<1>6. CASE entry[b] = w
  <2>1. /\ deque[w] \in Seq(EntryType) /\ granted[b] \in Seq(Times)
        /\ DOMAIN deque = Windows /\ DOMAIN granted = RpmBuckets
        /\ Limit[b] \in Nat
    BY <1>1, LimiterAssumption DEF TypeOK, Times
  <2>2. ASSUME NEW x \in RpmBuckets, x = b
        PROVE  InMap(x) = deque[w] /\ InMap(x)' = deque'[w]
    BY <1>1, <1>3, <1>6, <2>2 DEF InMap
  <2>3. Fits(granted[b], deque[w], old)
    BY <1>1, <2>2 DEF HistoryFits
  <2>4. rest \in Seq(EntryType)
    BY <2>1, RemainingElements
  <2>5. Fits(granted[b], rest, old)
    BY <1>1, <1>2, <2>1, <2>3, FitsAfterEviction
  <2>6. Spaced(granted[b], Limit[b])
    BY <1>1 DEF HardLimit, Spaced
  <2>7. /\ \A x \in RpmBuckets \ {b} : granted'[x] = granted[x]
        /\ Fits(granted'[b], deque'[w], old)
        /\ Spaced(granted'[b], Limit[b])
    <3>1. CASE Return(c, rest, Idle) /\ granted' = granted
      <4>1. deque'[w] = rest
        BY <1>1, <2>1, <3>1 DEF Return
      <4> QED
        BY <2>5, <2>6, <3>1, <4>1
    <3>2. CASE /\ Len(rest) < Limit[b]
               /\ Return(c, more, Idle)
               /\ granted' = [granted EXCEPT ![b] = Append(@, now)]
      <4>1. deque'[w] = more /\ granted'[b] = Append(granted[b], now)
        BY <1>1, <2>1, <3>2 DEF Return
      <4>2. Fits(Append(granted[b], now), more, old)
        BY <1>1, <2>1, <2>4, <2>5, FitsAfterPush
      <4>3. Spaced(Append(granted[b], now), Limit[b])
        BY <1>1, <2>1, <2>4, <2>5, <2>6, <3>2, SpacedAfterPush
      <4> QED
        BY <3>2, <4>1, <4>2, <4>3
    <3> QED
      BY <1>2, <1>6, <3>1, <3>2
  <2>8. \A x \in RpmBuckets : Fits(granted'[x], InMap(x)', now' - WindowLength)
    <3> SUFFICES ASSUME NEW x \in RpmBuckets
                 PROVE  Fits(granted'[x], InMap(x)', now' - WindowLength)
      OBVIOUS
    <3>1. CASE x = b
      BY <1>3, <2>2, <2>7, <3>1
    <3>2. CASE x # b
      <4>1. Fits(granted[x], InMap(x), now - WindowLength)
        BY DEF HistoryFits
      <4>2. granted'[x] = granted[x] /\ InMap(x)' = InMap(x)
        BY <1>4, <2>7, <3>2
      <4> QED
        BY <1>3, <4>1, <4>2
    <3> QED
      BY <3>1, <3>2
  <2>9. \A x \in RpmBuckets : Spaced(granted'[x], Limit[x])
    BY <2>7 DEF HardLimit, Spaced
  <2> QED
    BY <2>8, <2>9 DEF HistoryFits, HardLimit, Spaced
<1> QED
  BY <1>5, <1>6

\* A cleanup pass evicts from the map no more than the next caller would.
LEMMA CleanupKeepsLimit ==
    ASSUME TypeOK, WindowsApart, CutoffIsPast, HistoryFits, HardLimit,
           NEW b \in Buckets, Cleanup(b)
    PROVE  HistoryFits' /\ HardLimit'
<1> DEFINE w == entry[b]
           old == now - WindowLength
<1>1. UNCHANGED <<now, granted>> /\ cleaner.cutoff <= old
      /\ cleaner.cutoff \in Int /\ old \in Int
  BY LimiterAssumption DEF Cleanup, CutoffIsPast, TypeOK
<1>2. CASE w = None \/ mutex[w] # None
  <2>1. \A x \in RpmBuckets : InMap(x)' = InMap(x)
    BY <1>2 DEF Cleanup, CleanEntry, InMap
  <2> QED
    BY <1>1, <2>1, Framed
<1>3. CASE ~ (w = None \/ mutex[w] # None)
  <2>1. PICK n \in 0..Len(deque[w]) :
          /\ Evicts(deque[w], n, cleaner.cutoff)
          /\ deque' = [deque EXCEPT ![w] = Remaining(@, n)]
          /\ IF n = Len(deque[w])
             THEN entry' = [entry EXCEPT ![b] = None]
             ELSE entry' = entry
    BY <1>3 DEF Cleanup, CleanEntry
  <2>2. /\ w \in Windows /\ w # None /\ deque[w] \in Seq(EntryType)
        /\ DOMAIN deque = Windows /\ DOMAIN entry = Buckets
    BY <1>3 DEF TypeOK
  <2> DEFINE rest == Remaining(deque[w], n)
  <2>3. ASSUME NEW x \in RpmBuckets, x # b
        PROVE  InMap(x)' = InMap(x)
    <3>1. entry[x] # None => entry[x] # w
      BY <2>2, <2>3 DEF WindowsApart, Buckets
    <3>2. entry'[x] = entry[x]
      BY <2>1, <2>2, <2>3 DEF Buckets
    <3>3. entry[x] # None => deque'[entry[x]] = deque[entry[x]]
      BY <2>1, <2>2, <3>1 DEF TypeOK, Buckets
    <3> QED
      BY <3>2, <3>3 DEF InMap
  <2>4. InMap(b)' = rest
    <3>1. deque'[w] = rest
      BY <2>1, <2>2
    <3>2. CASE n # Len(deque[w])
      BY <2>1, <2>2, <3>1, <3>2 DEF InMap
    <3>3. CASE n = Len(deque[w])
      <4>1. Len(rest) = 0 /\ rest \in Seq(EntryType)
        BY <2>2, <3>3, RemainingElements
      <4>2. rest = <<>>
        BY <4>1
      <4> QED
        BY <2>1, <2>2, <3>3, <4>2 DEF InMap
    <3> QED
      BY <3>2, <3>3
  <2>5. ASSUME NEW x \in RpmBuckets
        PROVE  Fits(granted'[x], InMap(x)', now' - WindowLength)
    <3>1. Fits(granted[x], InMap(x), old) /\ granted[x] \in Seq(Times)
      BY DEF HistoryFits, TypeOK, Times
    <3>2. CASE x # b
      BY <1>1, <2>3, <3>1, <3>2
    <3>3. CASE x = b
      <4>1. InMap(b) = deque[w]
        BY <1>3 DEF InMap
      <4>2. Fits(granted[b], rest, old)
        BY <1>1, <2>1, <2>2, <3>1, <3>3, <4>1, FitsAfterEviction
      <4> QED
        BY <1>1, <2>4, <3>3, <4>2
    <3> QED
      BY <3>2, <3>3
  <2>6. HardLimit'
    BY <1>1 DEF HardLimit
  <2> QED
    BY <2>5, <2>6 DEF HistoryFits
<1> QED
  BY <1>2, <1>3
----------------------------------------------------------------------------
\* No step breaks the hard limit, nor the link between deques and history.
LEMMA StepKeepsLimit ==
    ASSUME HardLimitInv, [Next]_vars
    PROVE  HistoryFits' /\ HardLimit'
<1> USE DEF HardLimitInv
<1>1. CASE Tick
  BY <1>1, TickKeepsLimit
<1>2. ASSUME NEW c \in Callers, NEW b \in Buckets, BeginCheck(c, b)
      PROVE  HistoryFits' /\ HardLimit'
  BY <1>2, InsertIsFramed, Framed DEF BeginCheck, Buckets
<1>3. ASSUME NEW c \in Callers, NEW n \in Tokens, BeginRecord(c, n)
      PROVE  HistoryFits' /\ HardLimit'
  <2>1. caller[c].bucket \in Buckets
    BY <1>3 DEF BeginRecord, TypeOK, Buckets
  <2> QED
    BY <1>3, <2>1, InsertIsFramed, Framed DEF BeginRecord, Buckets
<1>4. ASSUME NEW c \in Callers, Abandon(c) \/ Lock(c)
      PROVE  HistoryFits' /\ HardLimit'
  <2>1. UNCHANGED <<now, granted>> /\ \A b \in RpmBuckets : InMap(b)' = InMap(b)
    BY <1>4 DEF Abandon, Lock, mapVars, history, InMap
  <2> QED
    BY <2>1, Framed
<1>5. ASSUME NEW c \in Callers, CheckRpm(c)
      PROVE  HistoryFits' /\ HardLimit'
  BY <1>5, CheckRpmKeepsLimit
<1>6. ASSUME NEW c \in Callers, CheckTpm(c) \/ RecordTokens(c)
      PROVE  HistoryFits' /\ HardLimit'
  <2>1. caller[c].pc = "locked" /\ caller[c].bucket \in TpmBuckets
    BY <1>6 DEF CheckTpm, RecordTokens, RecordersOnTpm
  <2>2. /\ \E d, r : Return(c, d, r)
        /\ UNCHANGED <<now, granted>>
    BY <1>6 DEF CheckTpm, RecordTokens, Return
  <2>3. \A b \in RpmBuckets : InMap(b)' = InMap(b)
    BY <2>1, <2>2, ReturnIsFramed, LimiterAssumption DEF Buckets
  <2> QED
    BY <2>2, <2>3, Framed
<1>7. CASE BeginCleanup
  <2>1. UNCHANGED <<now, granted>> /\ \A b \in RpmBuckets : InMap(b)' = InMap(b)
    BY <1>7 DEF BeginCleanup, mapVars, InMap
  <2> QED
    BY <2>1, Framed
<1>8. ASSUME NEW b \in Buckets, Cleanup(b)
      PROVE  HistoryFits' /\ HardLimit'
  BY <1>8, CleanupKeepsLimit
<1>9. CASE UNCHANGED vars
  <2>1. UNCHANGED <<now, granted>> /\ \A b \in RpmBuckets : InMap(b)' = InMap(b)
    BY <1>9 DEF vars, mapVars, history, InMap
  <2> QED
    BY <2>1, Framed
<1> QED
  BY <1>1, <1>2, <1>3, <1>4, <1>5, <1>6, <1>7, <1>8, <1>9 DEF Next

LEMMA InitHardLimitInv == Init => HardLimitInv
<1> SUFFICES ASSUME Init PROVE HardLimitInv
  OBVIOUS
<1>1. TypeOK
  <2>1. <<>> \in Seq(EntryType) /\ <<>> \in Seq(0..MaxTime)
    OBVIOUS
  <2>2. cleaner \in [cutoff : Int, todo : SUBSET Buckets, due : Nat]
    BY LimiterAssumption DEF Init, CleanupInterval
  <2> QED
    BY <2>1, <2>2, LimiterAssumption, IdleType DEF Init, TypeOK
<1>2. WindowsApart /\ RecordersOnTpm /\ CutoffIsPast
  BY DEF Init, Idle, WindowsApart, RecordersOnTpm, CutoffIsPast
<1>3. ASSUME NEW b \in RpmBuckets
      PROVE  granted[b] = <<>> /\ InMap(b) = <<>>
  BY DEF Init, InMap, Buckets
<1>4. HistoryFits
  <2>1. \A old : Fits(<<>>, <<>>, old)
    BY DEF Fits
  <2> QED
    BY <1>3, <2>1 DEF HistoryFits
<1>5. HardLimit
  BY <1>3 DEF HardLimit
<1> QED
  BY <1>1, <1>2, <1>4, <1>5 DEF HardLimitInv

LEMMA HardLimitInvariant == Spec => []HardLimitInv
<1>1. HardLimitInv /\ [Next]_vars => HardLimitInv'
  <2> SUFFICES ASSUME HardLimitInv, [Next]_vars PROVE HardLimitInv'
    OBVIOUS
  <2>1. TypeOK'
    BY TypePreserved DEF HardLimitInv
  <2>2. WindowsApart' /\ RecordersOnTpm'
    BY ApartPreserved DEF HardLimitInv
  <2>3. CutoffIsPast'
    BY CutoffPreserved DEF HardLimitInv
  <2>4. HistoryFits' /\ HardLimit'
    BY StepKeepsLimit
  <2> QED
    BY <2>1, <2>2, <2>3, <2>4 DEF HardLimitInv
<1> QED
  BY InitHardLimitInv, <1>1, PTL DEF Spec

\* Every variable of the limiter keeps its type: in particular a caller that
\* found a window has one, and tokens are owed to TPM buckets only.
THEOREM LimiterTypeCorrect == Spec => []TypeOK
<1>1. HardLimitInv => TypeOK
  BY DEF HardLimitInv
<1> QED
  BY HardLimitInvariant, <1>1, PTL

\* The hard limit of check_rpm holds whatever callers, evictions and cleanup
\* passes do in whatever order: of the admissions that the map accounts for, no
\* window of time holds more than the limit.
THEOREM HardLimitHolds == Spec => []HardLimit
<1>1. HardLimitInv => HardLimit
  BY DEF HardLimitInv
<1> QED
  BY HardLimitInvariant, <1>1, PTL
----------------------------------------------------------------------------
(* The race that cleanup_stale documents.  A caller that holds a window is *)
(* outside if the map has another one, or none: it was caught, and what it *)
(* is granted then is a stray.  Who comes to be outside, or leaves a stray *)
(* behind instead, is counted in caught the moment the window goes.        *)

Outside(b) ==
    {c \in Callers : caller[c].bucket = b /\ caller[c].win # None
                                          /\ caller[c].win # entry[b]}

StrayCount(b) == IF b \in RpmBuckets THEN Len(stray[b]) ELSE 0

\* A caller refers to a window from its look at the map to the end of its call.
HeldInCall ==
    \A c \in Callers : caller[c].pc \in {"idle", "owing"} => caller[c].win = None

\* StraysWereCaught, and the same of the callers of the TPM map, whose tokens
\* go missing with the window.
StraysCounted ==
    \A b \in Buckets : StrayCount(b) + Cardinality(Outside(b)) <= caught[b]

StrayInv == HardLimitInv /\ HeldInCall /\ StraysCounted

LEMMA OutsideIsFinite ==
    ASSUME NEW b
    PROVE  IsFiniteSet(Outside(b)) /\ Cardinality(Outside(b)) \in Nat
<1>1. IsFiniteSet(Outside(b))
  BY LimiterAssumption, FS_Subset DEF Outside
<1> QED
  BY <1>1, FS_CardinalityType

LEMMA StrayCountType ==
    ASSUME TypeOK, NEW b \in Buckets
    PROVE  StrayCount(b) \in Nat /\ caught[b] \in Nat
  BY DEF StrayCount, TypeOK

\* Steps that leave the strays alone and put nobody outside.
LEMMA NobodyCaught ==
    ASSUME TypeOK, StraysCounted, UNCHANGED <<stray, caught>>,
           \A b \in Buckets : Outside(b)' \subseteq Outside(b)
    PROVE  StraysCounted'
<1> SUFFICES ASSUME NEW b \in Buckets
             PROVE  StrayCount(b)' + Cardinality(Outside(b)') <= caught'[b]
  BY DEF StraysCounted
<1>1. /\ IsFiniteSet(Outside(b)) /\ Cardinality(Outside(b)) \in Nat
      /\ StrayCount(b) \in Nat /\ caught[b] \in Nat
  BY OutsideIsFinite, StrayCountType
<1>2. PICK after : after = Outside(b)'
  OBVIOUS
<1>3. Cardinality(after) \in Nat /\ Cardinality(after) <= Cardinality(Outside(b))
  <2>1. after \subseteq Outside(b)
    BY <1>2
  <2>2. IsFiniteSet(after) /\ Cardinality(after) <= Cardinality(Outside(b))
    BY <1>1, <2>1, FS_Subset
  <2> QED
    BY <2>2, FS_CardinalityType
<1>4. StrayCount(b)' = StrayCount(b) /\ caught'[b] = caught[b]
  BY DEF StrayCount
<1>5. StrayCount(b) + Cardinality(Outside(b)) <= caught[b]
  BY DEF StraysCounted
<1> QED
  BY <1>1, <1>2, <1>3, <1>4, <1>5

\* The step to a window puts nobody outside: the caller has the window of the
\* map, and a window that is inserted for it is nobody else's.
LEMMA InsertCatchesNobody ==
    ASSUME TypeOK, HeldInCall, NEW c \in Callers, NEW b \in Buckets, NEW n,
           caller[c].pc \in {"idle", "owing"}, GetOrInsert(c, b, n)
    PROVE  HeldInCall' /\ \A x \in Buckets : Outside(x)' \subseteq Outside(x)
<1>1. PICK w \in Windows :
        /\ IF entry[b] # None
           THEN w = entry[b] /\ UNCHANGED <<entry, deque>>
           ELSE /\ w \in FreeWindows
                /\ entry' = [entry EXCEPT ![b] = w]
                /\ deque' = [deque EXCEPT ![w] = <<>>]
        /\ caller' = [caller EXCEPT ![c] =
               [pc |-> "found", bucket |-> b, win |-> w, tokens |-> n]]
  BY DEF GetOrInsert
<1>2. /\ \A k \in Callers \ {c} : caller'[k] = caller[k]
      /\ caller'[c] = [pc |-> "found", bucket |-> b, win |-> w, tokens |-> n]
  BY <1>1 DEF TypeOK
<1>3. /\ entry'[b] = w
      /\ \A x \in Buckets \ {b} : entry'[x] = entry[x]
  BY <1>1 DEF TypeOK
<1>4. HeldInCall'
  <2> SUFFICES ASSUME NEW k \in Callers, caller'[k].pc \in {"idle", "owing"}
               PROVE  caller'[k].win = None
    BY DEF HeldInCall
  <2>1. k # c
    BY <1>2
  <2> QED
    BY <1>2, <2>1 DEF HeldInCall
<1>5. ASSUME NEW x \in Buckets, NEW k \in Outside(x)'
      PROVE  k \in Outside(x)
  <2>1. /\ k \in Callers /\ caller'[k].bucket = x /\ caller'[k].win # None
        /\ caller'[k].win # entry'[x]
    BY <1>5 DEF Outside
  <2>2. k # c
    BY <1>2, <1>3, <2>1
  <2>3. caller[k].bucket = x /\ caller[k].win # None /\ caller[k].win # entry'[x]
    BY <1>2, <2>1, <2>2
  <2>4. caller[k].win # entry[x]
    <3>1. CASE x = b /\ entry[b] = None
      BY <2>3, <3>1
    <3>2. CASE x # b \/ entry[b] # None
      BY <1>1, <1>3, <2>3, <3>2
    <3> QED
      BY <3>1, <3>2
  <2> QED
    BY <2>1, <2>3, <2>4 DEF Outside
<1> QED
  BY <1>4, <1>5

\* The end of a call: the caller is outside no more, whoever else is stays.
LEMMA ReturnLeaves ==
    ASSUME TypeOK, HeldInCall, NEW c \in Callers, NEW d, NEW r,
           r.pc \in {"idle", "owing"}, r.win = None, Return(c, d, r)
    PROVE  /\ HeldInCall'
           /\ caught' = caught
           /\ \A x \in Buckets : Outside(x)' = Outside(x) \ {c}
<1>1. /\ caller' = [caller EXCEPT ![c] = r] /\ entry' = entry /\ caught' = caught
      /\ DOMAIN caller = Callers
  BY DEF Return, TypeOK
<1>2. HeldInCall'
  BY <1>1 DEF HeldInCall
<1>3. ASSUME NEW x \in Buckets
      PROVE  Outside(x)' = Outside(x) \ {c}
  BY <1>1 DEF Outside
<1> QED
  BY <1>1, <1>2, <1>3

\* An admission counted outside the map moves its caller from the callers that
\* are outside to the strays.
LEMMA CheckRpmCounts ==
    ASSUME TypeOK, HeldInCall, StraysCounted, NEW c \in Callers, CheckRpm(c)
    PROVE  HeldInCall' /\ StraysCounted'
<1> DEFINE b == caller[c].bucket
           w == caller[c].win
<1>1. caller[c].pc = "locked" /\ b \in RpmBuckets /\ b \in Buckets /\ w \in Windows /\ w # None
  BY LimiterAssumption DEF CheckRpm, TypeOK, Buckets
<1>2. /\ \E d : Return(c, d, Idle)
      /\ \/ UNCHANGED stray
         \/ entry[b] # w /\ stray' = [stray EXCEPT ![b] = Append(@, now)]
  BY Zenon DEF CheckRpm
<1>3. /\ HeldInCall'
      /\ caught' = caught
      /\ \A x \in Buckets : Outside(x)' = Outside(x) \ {c}
  BY <1>2, ReturnLeaves, IdleType DEF Idle
<1>4. CASE UNCHANGED stray
  BY <1>3, <1>4, NobodyCaught
<1>5. CASE entry[b] # w /\ stray' = [stray EXCEPT ![b] = Append(@, now)]
  <2> SUFFICES ASSUME NEW x \in Buckets
               PROVE  StrayCount(x)' + Cardinality(Outside(x)') <= caught'[x]
    BY <1>3 DEF StraysCounted
  <2>1. /\ IsFiniteSet(Outside(x)) /\ Cardinality(Outside(x)) \in Nat
        /\ StrayCount(x) \in Nat /\ caught[x] \in Nat
    BY OutsideIsFinite, StrayCountType
  <2>2. StrayCount(x) + Cardinality(Outside(x)) <= caught[x]
    BY DEF StraysCounted
  <2>3. PICK after : after = Outside(x)'
    OBVIOUS
  <2>4. after = Outside(x) \ {c}
    BY <1>3, <2>3
  <2>5. CASE x = b
    <3>1. c \in Outside(x)
      BY <1>1, <1>5, <2>5 DEF Outside
    <3>2. Cardinality(after) = Cardinality(Outside(x)) - 1
      BY <2>1, <2>4, <3>1, FS_RemoveElement
    <3>3. StrayCount(x)' = StrayCount(x) + 1
      <4>1. stray[b] \in Seq(0..MaxTime) /\ stray'[b] = Append(stray[b], now)
        BY <1>1, <1>5 DEF TypeOK
      <4> QED
        BY <1>1, <2>5, <4>1 DEF StrayCount
    <3> QED
      BY <1>3, <2>1, <2>2, <2>3, <3>2, <3>3
  <2>6. CASE x # b
    <3>1. Cardinality(after) \in Nat /\ Cardinality(after) <= Cardinality(Outside(x))
      <4>1. IsFiniteSet(after) /\ Cardinality(after) <= Cardinality(Outside(x))
        BY <2>1, <2>4, FS_Subset
      <4> QED
        BY <4>1, FS_CardinalityType
    <3>2. StrayCount(x)' = StrayCount(x)
      BY <1>5, <2>6 DEF StrayCount, TypeOK
    <3> QED
      BY <1>3, <2>1, <2>2, <2>3, <3>1, <3>2
  <2> QED
    BY <2>5, <2>6
<1> QED
  BY <1>2, <1>4, <1>5

\* A window goes: its holders, who all work on its bucket, come to be outside,
\* and caught grows by as many.
LEMMA CleanupCounts ==
    ASSUME TypeOK, WindowsApart, HeldInCall, StraysCounted,
           NEW b \in Buckets, Cleanup(b)
    PROVE  HeldInCall' /\ StraysCounted'
<1> DEFINE w == entry[b]
<1>1. UNCHANGED <<caller, stray>>
  BY DEF Cleanup
<1>2. HeldInCall'
  BY <1>1 DEF HeldInCall
<1>3. CASE UNCHANGED <<entry, caught>>
  <2>1. \A x \in Buckets : Outside(x)' = Outside(x)
    BY <1>1, <1>3 DEF Outside
  <2> QED
    BY <1>1, <1>2, <1>3, <2>1, NobodyCaught
<1>4. CASE /\ w # None
           /\ entry' = [entry EXCEPT ![b] = None]
           /\ caught' = [caught EXCEPT ![b] = @ + Cardinality(Holders(w))]
  <2> SUFFICES ASSUME NEW x \in Buckets
               PROVE  StrayCount(x)' + Cardinality(Outside(x)') <= caught'[x]
    BY <1>2 DEF StraysCounted
  <2>1. /\ IsFiniteSet(Outside(x)) /\ Cardinality(Outside(x)) \in Nat
        /\ StrayCount(x) \in Nat /\ caught[x] \in Nat
    BY OutsideIsFinite, StrayCountType
  <2>2. StrayCount(x) + Cardinality(Outside(x)) <= caught[x]
    BY DEF StraysCounted
  <2>3. StrayCount(x)' = StrayCount(x)
    BY <1>1 DEF StrayCount
  <2>4. PICK after : after = Outside(x)'
    OBVIOUS
  <2>5. CASE x = b
    <3>1. after = Outside(x) \cup Holders(w)
      <4>1. entry'[b] = None
        BY <1>4 DEF TypeOK
      <4>2. \A c \in Holders(w) : caller[c].bucket = b
        BY <1>4 DEF Holders, WindowsApart
      <4> QED
        BY <1>1, <1>4, <2>4, <2>5, <4>1, <4>2 DEF Outside, Holders
    <3>2. Outside(x) \cap Holders(w) = {}
      BY <2>5 DEF Outside, Holders
    <3>3. IsFiniteSet(Holders(w)) /\ Cardinality(Holders(w)) \in Nat
      <4>1. IsFiniteSet(Holders(w))
        BY LimiterAssumption, FS_Subset DEF Holders
      <4> QED
        BY <4>1, FS_CardinalityType
    <3>4. Cardinality(after) = Cardinality(Outside(x)) + Cardinality(Holders(w))
      <4>1. Cardinality(Outside(x) \cap Holders(w)) = 0
        BY <3>2, FS_EmptySet
      <4>2. Cardinality(Outside(x) \cup Holders(w))
              = Cardinality(Outside(x)) + Cardinality(Holders(w))
                  - Cardinality(Outside(x) \cap Holders(w))
        BY <2>1, <3>3, FS_Union
      <4> QED
        BY <2>1, <3>1, <3>3, <4>1, <4>2
    <3>5. caught'[x] = caught[x] + Cardinality(Holders(w))
      BY <1>4, <2>5 DEF TypeOK
    <3> QED
      BY <2>1, <2>2, <2>3, <2>4, <3>3, <3>4, <3>5
  <2>6. CASE x # b
    <3>1. Outside(x)' = Outside(x)
      BY <1>1, <1>4, <2>6 DEF Outside, TypeOK
    <3>2. caught'[x] = caught[x]
      BY <1>4, <2>6 DEF TypeOK
    <3> QED
      BY <2>1, <2>2, <2>3, <3>1, <3>2
  <2> QED
    BY <2>5, <2>6
<1> QED
  BY <1>3, <1>4 DEF Cleanup, CleanEntry

LEMMA StepCountsStrays ==
    ASSUME StrayInv, [Next]_vars
    PROVE  HeldInCall' /\ StraysCounted'
<1> USE DEF StrayInv, HardLimitInv
<1>1. ASSUME UNCHANGED <<entry, stray, caught, caller>>
      PROVE  HeldInCall' /\ StraysCounted'
  BY <1>1 DEF HeldInCall, StraysCounted, StrayCount, Outside
<1>2. CASE Tick \/ BeginCleanup \/ UNCHANGED vars
  BY <1>1, <1>2 DEF Tick, BeginCleanup, vars, mapVars, history
<1>3. ASSUME NEW c \in Callers, NEW b \in Buckets, NEW n, GetOrInsert(c, b, n),
             caller[c].pc \in {"idle", "owing"}
      PROVE  HeldInCall' /\ StraysCounted'
  <2>1. HeldInCall' /\ \A x \in Buckets : Outside(x)' \subseteq Outside(x)
    BY <1>3, InsertCatchesNobody
  <2>2. UNCHANGED <<stray, caught>>
    BY <1>3 DEF GetOrInsert, history
  <2> QED
    BY <2>1, <2>2, NobodyCaught
<1>4. ASSUME NEW c \in Callers, NEW b \in Buckets, BeginCheck(c, b)
      PROVE  HeldInCall' /\ StraysCounted'
  BY <1>3, <1>4 DEF BeginCheck
<1>5. ASSUME NEW c \in Callers, NEW n \in Tokens, BeginRecord(c, n)
      PROVE  HeldInCall' /\ StraysCounted'
  <2>1. caller[c].bucket \in Buckets
    BY <1>5 DEF BeginRecord, TypeOK, Buckets
  <2> QED
    BY <1>3, <1>5, <2>1 DEF BeginRecord
<1>6. ASSUME NEW c \in Callers, Abandon(c)
      PROVE  HeldInCall' /\ StraysCounted'
  <2>1. HeldInCall'
    BY <1>6 DEF Abandon, HeldInCall, Idle, TypeOK
  <2>2. \A x \in Buckets : Outside(x)' \subseteq Outside(x)
    BY <1>6 DEF Abandon, Outside, Idle, TypeOK, mapVars
  <2>3. UNCHANGED <<stray, caught>>
    BY <1>6 DEF Abandon, history
  <2> QED
    BY <2>1, <2>2, <2>3, NobodyCaught
<1>7. ASSUME NEW c \in Callers, Lock(c)
      PROVE  HeldInCall' /\ StraysCounted'
  <2>1. caller' = [caller EXCEPT ![c].pc = "locked"] /\ UNCHANGED <<entry, stray, caught>>
    BY <1>7 DEF Lock, history
  <2>2. \A k \in Callers : /\ caller'[k].win = caller[k].win
                           /\ caller'[k].bucket = caller[k].bucket
                           /\ caller'[k].pc \in {caller[k].pc, "locked"}
    BY <2>1 DEF TypeOK, CallerType
  <2>3. HeldInCall' /\ \A x \in Buckets : Outside(x)' = Outside(x)
    BY <2>1, <2>2 DEF HeldInCall, Outside
  <2> QED
    BY <2>1, <2>3, NobodyCaught
<1>8. ASSUME NEW c \in Callers, CheckRpm(c)
      PROVE  HeldInCall' /\ StraysCounted'
  BY <1>8, CheckRpmCounts
<1>9. ASSUME NEW c \in Callers, CheckTpm(c) \/ RecordTokens(c)
      PROVE  HeldInCall' /\ StraysCounted'
  <2>1. /\ \E d, r : r \in {Idle, Owing(caller[c].bucket)} /\ Return(c, d, r)
        /\ stray' = stray
    BY <1>9 DEF CheckTpm, RecordTokens
  <2>2. \A r \in {Idle, Owing(caller[c].bucket)} :
           r.pc \in {"idle", "owing"} /\ r.win = None
    BY DEF Idle, Owing
  <2>3. /\ HeldInCall' /\ caught' = caught
        /\ \A x \in Buckets : Outside(x)' = Outside(x) \ {c}
    BY <2>1, <2>2, ReturnLeaves
  <2> QED
    BY <2>1, <2>3, NobodyCaught
<1>10. ASSUME NEW b \in Buckets, Cleanup(b)
       PROVE  HeldInCall' /\ StraysCounted'
  BY <1>10, CleanupCounts
<1> QED
  BY <1>2, <1>4, <1>5, <1>6, <1>7, <1>8, <1>9, <1>10 DEF Next

LEMMA StrayInvariant == Spec => []StrayInv
<1>1. Init => HeldInCall /\ StraysCounted
  <2> SUFFICES ASSUME Init PROVE HeldInCall /\ StraysCounted
    OBVIOUS
  <2>1. HeldInCall
    BY DEF Init, HeldInCall, Idle
  <2>2. \A b \in Buckets : Outside(b) = {} /\ StrayCount(b) = 0 /\ caught[b] = 0
    BY DEF Init, Outside, StrayCount, Idle
  <2> QED
    BY <2>1, <2>2, FS_EmptySet DEF StraysCounted
<1>2. HardLimitInv /\ HeldInCall /\ StraysCounted /\ [Next]_vars
         => (HeldInCall /\ StraysCounted)'
  BY StepCountsStrays DEF StrayInv
<1> QED
  BY <1>1, <1>2, HardLimitInvariant, PTL DEF Spec, StrayInv

\* The admissions that no later caller sees are no more than the callers that
\* cleanup_stale caught between the map and the mutex, whatever the callers,
\* the windows and the moments of the cleanup.
THEOREM StraysWereCaughtHolds == Spec => []StraysWereCaught
<1>1. StrayInv => StraysWereCaught
  <2> SUFFICES ASSUME StrayInv, NEW b \in RpmBuckets
               PROVE  Len(stray[b]) + Cardinality(Outside(b)) <= caught[b]
    BY DEF StraysWereCaught, Outside
  <2> QED
    BY DEF StrayInv, StraysCounted, StrayCount, Buckets
<1> QED
  BY StrayInvariant, <1>1, PTL
----------------------------------------------------------------------------
(* Sums over a deque.                                                      *)

LEMMA LeastExists ==
    ASSUME NEW T \in SUBSET Nat, T # {}
    PROVE  \E x \in T : \A y \in T : x <= y
<1> DEFINE less == OpToRel(<, Nat)
<1>1. IsWellFoundedOn(less, Nat)
  BY NatLessThanWellFounded
<1> HIDE DEF less
<1>2. PICK x \in T : \A y \in T : ~ (<<y, x>> \in less)
  BY <1>1, WFMin
<1>3. \A y \in T : ~ (y < x)
  BY <1>2 DEF less, OpToRel
<1> QED
  BY <1>3

\* A set of numbers that has 0, and with a number the next one, has them all.
LEMMA NumberInduction ==
    ASSUME NEW P, 0 \in P, \A n \in Nat : n \in P => n + 1 \in P
    PROVE  Nat \subseteq P
<1> SUFFICES ASSUME Nat \ P # {} PROVE FALSE
  OBVIOUS
<1>1. PICK x \in Nat \ P : \A y \in Nat \ P : x <= y
  BY LeastExists
<1>2. x # 0 /\ x - 1 \in Nat /\ ~ (x <= x - 1)
  BY <1>1
<1>3. x - 1 \in P
  BY <1>1, <1>2
<1> QED
  BY <1>2, <1>3

\* The sums of the prefixes of f.
Sums(f) ==
    CHOOSE sum : sum = [i \in 0..Len(f) |-> IF i = 0 THEN 0 ELSE sum[i - 1] + f[i]]

LEMMA SumsExist ==
    ASSUME NEW f \in Seq(Nat)
    PROVE  \E sum : sum = [i \in 0..Len(f) |-> IF i = 0 THEN 0 ELSE sum[i - 1] + f[i]]
<1> DEFINE Upto(n, s) == s = [i \in 0..n |-> IF i = 0 THEN 0 ELSE s[i - 1] + f[i]]
           P == {n \in Nat : \E s : Upto(n, s)}
<1>1. 0 \in P
  <2>1. Upto(0, [i \in 0..0 |-> 0])
    OBVIOUS
  <2> QED
    BY <2>1
<1>2. ASSUME NEW n \in Nat, n \in P PROVE n + 1 \in P
  <2>1. PICK s : Upto(n, s)
    BY <1>2
  <2> DEFINE g == [i \in 0..(n + 1) |-> IF i = n + 1 THEN s[n] + f[n + 1] ELSE s[i]]
  <2>2. ASSUME NEW i \in 0..(n + 1)
        PROVE  g[i] = IF i = 0 THEN 0 ELSE g[i - 1] + f[i]
    <3>1. CASE i = n + 1
      <4>1. g[i - 1] = s[n] /\ i # 0
        BY <3>1
      <4> QED
        BY <3>1, <4>1
    <3>2. CASE i # n + 1
      <4>1. i \in 0..n /\ g[i] = s[i] /\ (i # 0 => i - 1 \in 0..n /\ g[i - 1] = s[i - 1])
        BY <3>2
      <4>2. s[i] = IF i = 0 THEN 0 ELSE s[i - 1] + f[i]
        BY <2>1, <4>1
      <4> QED
        BY <4>1, <4>2
    <3> QED
      BY <3>1, <3>2
  <2>3. Upto(n + 1, g)
    <3>1. g = [i \in 0..(n + 1) |-> g[i]]
      OBVIOUS
    <3> HIDE DEF g
    <3> QED
      BY <2>2, <3>1
  <2> HIDE DEF g, Upto
  <2> QED
    BY <2>3
<1> HIDE DEF P
<1>3. Len(f) \in P
  BY <1>1, <1>2, NumberInduction
<1> QED
  BY <1>3 DEF P

LEMMA SumsAre ==
    ASSUME NEW f \in Seq(Nat)
    PROVE  /\ SumOf(f) = Sums(f)[Len(f)]
           /\ Sums(f)[0] = 0
           /\ \A i \in 1..Len(f) : Sums(f)[i] = Sums(f)[i - 1] + f[i]
<1>1. SumOf(f) = Sums(f)[Len(f)]
  BY DEF SumOf, Sums
<1>2. Sums(f) = [i \in 0..Len(f) |-> IF i = 0 THEN 0 ELSE Sums(f)[i - 1] + f[i]]
  <2> DEFINE Is(sum) == sum = [i \in 0..Len(f) |-> IF i = 0 THEN 0 ELSE sum[i - 1] + f[i]]
  <2>1. \E sum : Is(sum)
    BY SumsExist
  <2>2. Sums(f) = CHOOSE sum : Is(sum)
    BY DEF Sums
  <2> HIDE DEF Is
  <2>3. Is(Sums(f))
    BY <2>1, <2>2
  <2> QED
    BY <2>3 DEF Is
<1>3. ASSUME NEW i \in 0..Len(f)
      PROVE  Sums(f)[i] = IF i = 0 THEN 0 ELSE Sums(f)[i - 1] + f[i]
  BY ONLY <1>2, <1>3
<1> QED
  BY <1>1, <1>3

LEMMA SumsAreNat ==
    ASSUME NEW f \in Seq(Nat), NEW n \in 0..Len(f)
    PROVE  Sums(f)[n] \in Nat
<1> DEFINE P == {i \in Nat : i <= Len(f) => Sums(f)[i] \in Nat}
<1>1. 0 \in P
  BY SumsAre
<1>2. ASSUME NEW i \in Nat, i \in P PROVE i + 1 \in P
  <2> SUFFICES ASSUME i + 1 <= Len(f) PROVE Sums(f)[i + 1] \in Nat
    OBVIOUS
  <2>1. i + 1 \in 1..Len(f) /\ i <= Len(f) /\ (i + 1) - 1 = i /\ f[i + 1] \in Nat
    OBVIOUS
  <2>2. Sums(f)[i + 1] = Sums(f)[i] + f[i + 1] /\ Sums(f)[i] \in Nat
    BY <1>2, <2>1, SumsAre
  <2> QED
    BY <2>1, <2>2
<1> HIDE DEF P
<1>3. Nat \subseteq P
  BY <1>1, <1>2, NumberInduction
<1>4. n \in Nat /\ n <= Len(f)
  OBVIOUS
<1> QED
  BY <1>3, <1>4 DEF P

\* The first m amounts of g sum up to no more than m amounts of f that are each
\* as large at least, with whatever stands before them in f.
LEMMA SumsOrdered ==
    ASSUME NEW f \in Seq(Nat), NEW g \in Seq(Nat), NEW k \in Nat, NEW m \in Nat,
           m <= Len(g), k + m <= Len(f), \A j \in 1..m : g[j] <= f[k + j]
    PROVE  Sums(g)[m] <= Sums(f)[k + m]
<1> DEFINE P == {i \in Nat : i <= m => Sums(g)[i] <= Sums(f)[k + i]}
<1>1. 0 \in P
  <2>1. k \in 0..Len(f) /\ k + 0 = k
    OBVIOUS
  <2> QED
    BY <2>1, SumsAre, SumsAreNat
<1>2. ASSUME NEW i \in Nat, i \in P PROVE i + 1 \in P
  <2> SUFFICES ASSUME i + 1 <= m PROVE Sums(g)[i + 1] <= Sums(f)[k + (i + 1)]
    OBVIOUS
  <2>1. /\ i + 1 \in 1..Len(g) /\ k + (i + 1) \in 1..Len(f)
        /\ i \in 0..Len(g) /\ k + i \in 0..Len(f)
        /\ (i + 1) - 1 = i /\ (k + (i + 1)) - 1 = k + i /\ i + 1 \in 1..m
    OBVIOUS
  <2>a. g[i + 1] \in Nat /\ f[k + (i + 1)] \in Nat
    BY ONLY <2>1, f \in Seq(Nat), g \in Seq(Nat)
  <2>2. /\ Sums(g)[i + 1] = Sums(g)[i] + g[i + 1]
        /\ Sums(f)[k + (i + 1)] = Sums(f)[k + i] + f[k + (i + 1)]
        /\ Sums(g)[i] \in Nat /\ Sums(f)[k + i] \in Nat
    BY <2>1, SumsAre, SumsAreNat
  <2>3. Sums(g)[i] <= Sums(f)[k + i] /\ g[i + 1] <= f[k + (i + 1)]
    BY <1>2, <2>1
  <2>4. \A x, y, a, b \in Nat : x <= y /\ a <= b => x + a <= y + b
    OBVIOUS
  <2> QED
    BY ONLY <2>a, <2>2, <2>3, <2>4
<1> HIDE DEF P
<1>3. m \in P
  BY <1>1, <1>2, NumberInduction
<1> QED
  BY <1>3 DEF P

\* The tokens of d that are newer than cutoff.
Costs(d, cutoff) == [i \in DOMAIN d |-> IF d[i].at > cutoff THEN d[i].tokens ELSE 0]
Live(d, cutoff) == SumOf(Costs(d, cutoff))

LEMMA CostOf ==
    ASSUME NEW d \in Seq(EntryType), NEW cutoff, NEW i \in 1..Len(d)
    PROVE  /\ d[i].tokens \in Nat
           /\ Costs(d, cutoff)[i] = IF d[i].at > cutoff THEN d[i].tokens ELSE 0
<1>1. d[i] \in EntryType /\ i \in DOMAIN d
  OBVIOUS
<1>2. d[i].tokens \in Nat
  BY <1>1 DEF EntryType
<1> QED
  BY <1>1, <1>2 DEF Costs

LEMMA CostsAre ==
    ASSUME NEW d \in Seq(EntryType), NEW cutoff
    PROVE  Costs(d, cutoff) \in Seq(Nat) /\ Len(Costs(d, cutoff)) = Len(d)
<1>1. \A i \in 1..Len(d) : d[i].tokens \in Nat
  BY CostOf
<1> QED
  BY <1>1 DEF Costs

LEMMA LiveIsNat ==
    ASSUME NEW d \in Seq(EntryType), NEW cutoff
    PROVE  Live(d, cutoff) \in Nat
<1> DEFINE f == Costs(d, cutoff)
<1>1. f \in Seq(Nat) /\ Len(f) \in 0..Len(f)
  BY CostsAre
<1> HIDE DEF f
<1>2. SumOf(f) = Sums(f)[Len(f)] /\ Sums(f)[Len(f)] \in Nat
  BY <1>1, SumsAre, SumsAreNat
<1> QED
  BY <1>2 DEF Live, f

LEMMA LiveOfNothing ==
    ASSUME NEW cutoff
    PROVE  Live(<<>>, cutoff) = 0
<1> DEFINE f == Costs(<<>>, cutoff)
<1>1. f \in Seq(Nat) /\ Len(f) = 0
  BY DEF Costs
<1> HIDE DEF f
<1>2. SumOf(f) = 0
  BY <1>1, SumsAre
<1> QED
  BY <1>2 DEF Live, f

\* Time and eviction take nothing but tokens away.
LEMMA LiveShrinks ==
    ASSUME NEW d \in Seq(EntryType), NEW n \in 0..Len(d),
           NEW cutoff \in Int, NEW later \in Int, cutoff <= later
    PROVE  Live(Remaining(d, n), later) <= Live(d, cutoff)
<1> DEFINE f == Costs(d, cutoff)
           g == Costs(Remaining(d, n), later)
           m == Len(d) - n
<1>1. /\ m \in Nat /\ n \in Nat /\ n + m = Len(d)
      /\ Remaining(d, n) \in Seq(EntryType) /\ Len(Remaining(d, n)) = m
      /\ \A j \in 1..m : Remaining(d, n)[j] = d[n + j]
  <2>1. /\ Remaining(d, n) \in Seq(EntryType)
        /\ Len(Remaining(d, n)) = Len(d) - n
        /\ \A j \in 1..(Len(d) - n) : Remaining(d, n)[j] = d[n + j]
    BY RemainingElements
  <2>2. Len(d) \in Nat
    OBVIOUS
  <2>3. m \in Nat /\ n \in Nat /\ n + m = Len(d)
    BY <2>2
  <2> QED
    BY <2>1, <2>3
<1>2. /\ f \in Seq(Nat) /\ g \in Seq(Nat) /\ Len(f) = Len(d) /\ Len(g) = m
  BY <1>1, CostsAre
<1>3. ASSUME NEW j \in 1..m PROVE g[j] <= f[n + j]
  <2>1. n + j \in 1..Len(d) /\ Remaining(d, n)[j] = d[n + j]
    BY <1>1
  <2>2. d[n + j].at \in Int /\ d[n + j].tokens \in Nat
    BY <2>1, DequeElements, CostOf
  <2>3. f[n + j] = IF d[n + j].at > cutoff THEN d[n + j].tokens ELSE 0
    BY <2>1, CostOf
  <2>4. g[j] = IF d[n + j].at > later THEN d[n + j].tokens ELSE 0
    <3>1. j \in 1..Len(Remaining(d, n)) /\ Remaining(d, n) \in Seq(EntryType)
      BY <1>1
    <3> QED
      BY <2>1, <3>1, CostOf
  <2> HIDE DEF f, g
  <2> QED
    BY <2>2, <2>3, <2>4
<1>a. m <= Len(g) /\ n + m <= Len(f)
  BY <1>1, <1>2
<1> HIDE DEF f, g, m
<1>4. Sums(g)[m] <= Sums(f)[n + m]
  BY <1>1, <1>2, <1>a, <1>3, SumsOrdered
<1>5. SumOf(g) <= SumOf(f)
  BY <1>1, <1>2, <1>4, SumsAre
<1> QED
  BY <1>5 DEF Live, f, g

\* An entry adds no more than its own tokens.
LEMMA LiveAfterPush ==
    ASSUME NEW d \in Seq(EntryType), NEW e \in EntryType, NEW cutoff \in Int
    PROVE  Live(Append(d, e), cutoff) <= Live(d, cutoff) + e.tokens
<1> DEFINE a == Append(d, e)
           f == Costs(d, cutoff)
           g == Costs(a, cutoff)
           m == Len(d)
<1>1. /\ a \in Seq(EntryType) /\ Len(a) = m + 1 /\ m \in Nat /\ a[m + 1] = e
      /\ \A j \in 1..m : a[j] = d[j]
  OBVIOUS
<1> HIDE DEF a
<1>2. f \in Seq(Nat) /\ g \in Seq(Nat) /\ Len(f) = m /\ Len(g) = m + 1
  BY <1>1, CostsAre
<1>3. ASSUME NEW j \in 1..m PROVE g[j] <= f[0 + j]
  <2>1. 0 + j = j /\ j \in 1..Len(a) /\ j \in 1..Len(d) /\ a[j] = d[j]
    BY <1>1
  <2>2. /\ f[j] = IF d[j].at > cutoff THEN d[j].tokens ELSE 0
        /\ d[j].tokens \in Nat
    BY <2>1, CostOf
  <2>3. g[j] = IF a[j].at > cutoff THEN a[j].tokens ELSE 0
    BY <1>1, <2>1, CostOf
  <2> HIDE DEF f, g
  <2> QED
    BY <2>1, <2>2, <2>3
<1>4. g[m + 1] <= e.tokens /\ g[m + 1] \in Nat /\ e.tokens \in Nat
  <2>1. m + 1 \in 1..Len(a) /\ a[m + 1] = e /\ e.tokens \in Nat
    BY <1>1 DEF EntryType
  <2>2. g[m + 1] = IF e.at > cutoff THEN e.tokens ELSE 0
    BY <1>1, <2>1, CostOf
  <2> HIDE DEF g
  <2> QED
    BY <2>1, <2>2
<1> HIDE DEF f, g
<1>5. Sums(g)[m] <= Sums(f)[m]
  <2>1. 0 \in Nat /\ 0 + m = m /\ m <= Len(g) /\ 0 + m <= Len(f)
    BY <1>1, <1>2
  <2> HIDE DEF m
  <2> QED
    BY <1>1, <1>2, <1>3, <2>1, SumsOrdered
<1>6. Sums(g)[m + 1] = Sums(g)[m] + g[m + 1] /\ Sums(g)[m] \in Nat /\ Sums(f)[m] \in Nat
  <2>1. m + 1 \in 1..Len(g) /\ (m + 1) - 1 = m /\ m \in 0..Len(g) /\ m \in 0..Len(f)
    BY <1>1, <1>2
  <2> HIDE DEF m
  <2> QED
    BY <1>2, <2>1, SumsAre, SumsAreNat
<1>7. SumOf(g) = Sums(g)[m + 1] /\ SumOf(f) = Sums(f)[m]
  BY <1>2, SumsAre
<1>8. SumOf(g) <= SumOf(f) + e.tokens
  <2> HIDE DEF m
  <2> QED
    BY <1>4, <1>5, <1>6, <1>7
<1> QED
  BY <1>8 DEF Live, f, g, a

\* What is live is part of what is there.
LEMMA LiveIsPart ==
    ASSUME NEW d \in Seq(EntryType), NEW cutoff \in Int
    PROVE  Live(d, cutoff) <= TotalTokens(d) /\ TotalTokens(d) \in Nat
<1> DEFINE f == [i \in DOMAIN d |-> d[i].tokens]
           g == Costs(d, cutoff)
           m == Len(d)
<1>1. \A i \in 1..Len(d) : d[i].tokens \in Nat /\ f[i] = d[i].tokens
  <2>1. ASSUME NEW i \in 1..Len(d) PROVE d[i].tokens \in Nat /\ f[i] = d[i].tokens
    <3>1. i \in DOMAIN d /\ d[i].tokens \in Nat
      BY CostOf
    <3> QED
      BY <3>1
  <2> QED
    BY <2>1
<1>2. f \in Seq(Nat) /\ g \in Seq(Nat) /\ Len(f) = m /\ Len(g) = m /\ m \in Nat
  <2>1. DOMAIN d = 1..m /\ m \in Nat
    OBVIOUS
  <2>2. f \in Seq(Nat) /\ Len(f) = m
    BY <1>1, <2>1
  <2>3. g \in Seq(Nat) /\ Len(g) = m
    BY CostsAre
  <2> QED
    BY <2>1, <2>2, <2>3
<1>3. ASSUME NEW j \in 1..m PROVE g[j] <= f[0 + j]
  <2>1. 0 + j = j /\ f[j] = d[j].tokens /\ f[j] \in Nat
    BY <1>1
  <2>2. g[j] = IF d[j].at > cutoff THEN d[j].tokens ELSE 0
    BY CostOf
  <2> HIDE DEF f, g
  <2> QED
    BY <2>1, <2>2
<1> HIDE DEF f, g, m
<1>4. Sums(g)[m] <= Sums(f)[m] /\ Sums(f)[m] \in Nat
  <2>1. 0 \in Nat /\ 0 + m = m /\ m <= Len(g) /\ 0 + m <= Len(f) /\ m \in 0..Len(f)
    BY <1>2
  <2> QED
    BY <1>2, <1>3, <2>1, SumsOrdered, SumsAreNat
<1>5. SumOf(g) <= SumOf(f) /\ SumOf(f) \in Nat
  BY <1>2, <1>4, SumsAre
<1> QED
  BY <1>5 DEF Live, TotalTokens, f, g
----------------------------------------------------------------------------
(* The soft limit.  A caller that is let through finds less than the limit *)
(* live in the window, and that holds for the tokens of the window and of  *)
(* all callers together from then on: who records tokens owes them no more,*)
(* and recorded in another window they would only go missing.              *)

Most == CHOOSE n \in Tokens : \A m \in Tokens : m <= n

LEMMA MostIs == Most \in Tokens /\ Most \in Nat \ {0} /\ \A n \in Tokens : n <= Most
  BY LimiterAssumption DEF Most

\* The callers that may still record tokens in b.
Due(b) ==
    {c \in Callers : caller[c].bucket = b
       /\ (caller[c].pc = "owing" \/ caller[c].tokens > 0)}

LEMMA DueIsFinite ==
    ASSUME NEW b
    PROVE  IsFiniteSet(Due(b)) /\ Cardinality(Due(b)) \in Nat
           /\ Cardinality(Due(b)) <= Cardinality(Callers) /\ Cardinality(Callers) \in Nat
<1>1. IsFiniteSet(Due(b)) /\ Cardinality(Due(b)) <= Cardinality(Callers)
  BY LimiterAssumption, FS_Subset DEF Due
<1> QED
  BY <1>1, LimiterAssumption, FS_CardinalityType

LEMMA Products ==
    ASSUME NEW m \in Nat, NEW a \in Nat, NEW b \in Nat
    PROVE  m * a \in Nat /\ (a <= b => m * a <= m * b) /\ m * (a + 1) = m * a + m
  OBVIOUS

LiveIn(b) == Live(InMap(b), now - WindowLength)

Bounded(b) ==
    caught[b] = 0 =>
        LiveIn(b) + Most * Cardinality(Due(b)) < Limit[b] + Most * Cardinality(Callers)

\* What a caller records is what its response may cost.
TokensTaken == \A c \in Callers : caller[c].tokens \in Tokens \cup {0}

SoftInv == StrayInv /\ TokensTaken /\ \A b \in TpmBuckets : Bounded(b)

\* Steps after which no more is live, and nobody owes anew.
LEMMA BoundedKept ==
    ASSUME TypeOK, NEW b \in TpmBuckets, Bounded(b),
           caught'[b] = 0 => caught[b] = 0,
           TypeOK', LiveIn(b)' <= LiveIn(b), Due(b)' \subseteq Due(b)
    PROVE  Bounded(b)'
<1> SUFFICES ASSUME caught'[b] = 0
             PROVE  LiveIn(b)' + Most * Cardinality(Due(b)')
                      < Limit[b] + Most * Cardinality(Callers)
  BY DEF Bounded
<1>1. PICK after : after = Due(b)'
  OBVIOUS
<1>2. PICK live : live = LiveIn(b)'
  OBVIOUS
<1>3. /\ IsFiniteSet(Due(b)) /\ Cardinality(Due(b)) \in Nat
      /\ Cardinality(Callers) \in Nat /\ Most \in Nat /\ Limit[b] \in Nat
  BY DueIsFinite, MostIs, LimiterAssumption DEF Buckets
<1>4. Cardinality(after) \in Nat /\ Cardinality(after) <= Cardinality(Due(b))
  <2>1. after \subseteq Due(b)
    BY <1>1
  <2>2. IsFiniteSet(after) /\ Cardinality(after) <= Cardinality(Due(b))
    BY <1>3, <2>1, FS_Subset
  <2> QED
    BY <2>2, FS_CardinalityType
<1>5. live \in Nat /\ LiveIn(b) \in Nat /\ live <= LiveIn(b)
  <2>1. LiveIn(b) \in Nat
    BY InMapType, LiveIsNat DEF LiveIn, Buckets
  <2>2. LiveIn(b)' \in Nat
    <3>1. PICK d : d = InMap(b)'
      OBVIOUS
    <3>2. d \in Seq(EntryType)
      BY <3>1 DEF TypeOK, InMap, Buckets
    <3>3. PICK cutoff : cutoff = (now - WindowLength)'
      OBVIOUS
    <3>4. LiveIn(b)' = Live(d, cutoff)
      BY <3>1, <3>3 DEF LiveIn, Live, Costs, SumOf
    <3> QED
      BY <3>2, <3>4, LiveIsNat
  <2> QED
    BY <1>2, <2>1, <2>2
<1>6. /\ Most * Cardinality(after) <= Most * Cardinality(Due(b))
      /\ Most * Cardinality(after) \in Nat /\ Most * Cardinality(Due(b)) \in Nat
      /\ Most * Cardinality(Callers) \in Nat
  BY <1>3, <1>4, Products
<1>7. LiveIn(b) + Most * Cardinality(Due(b)) < Limit[b] + Most * Cardinality(Callers)
  BY DEF Bounded
<1> QED
  BY <1>1, <1>2, <1>3, <1>5, <1>6, <1>7

LEMMA LiveKept ==
    ASSUME NEW b, InMap(b)' = InMap(b), now' = now
    PROVE  LiveIn(b)' = LiveIn(b)
  BY DEF LiveIn, Live, Costs, SumOf

\* What is live after a step that leaves the window d in the map.
LEMMA LiveInIs ==
    ASSUME NEW b, NEW d, NEW later, InMap(b)' = d, now' - WindowLength = later
    PROVE  LiveIn(b)' = Live(d, later)
  BY DEF LiveIn, Live, Costs, SumOf

LEMMA LiveInType ==
    ASSUME TypeOK, NEW b \in Buckets
    PROVE  LiveIn(b) \in Nat /\ now - WindowLength \in Int
  BY InMapType, LiveIsNat, LimiterAssumption DEF LiveIn, TypeOK

LEMMA TickKeepsBound ==
    ASSUME SoftInv, TypeOK', Tick
    PROVE  TokensTaken' /\ \A b \in TpmBuckets : Bounded(b)'
<1>1. TypeOK /\ UNCHANGED <<entry, deque, caller, caught>> /\ now' = now + 1
  BY DEF SoftInv, StrayInv, HardLimitInv, Tick, mapVars, history
<1>2. ASSUME NEW b \in TpmBuckets PROVE Bounded(b)'
  <2> DEFINE d == InMap(b)
             cutoff == now - WindowLength
             later == now + 1 - WindowLength
  <2>1. d \in Seq(EntryType)
    BY <1>1, InMapType DEF Buckets
  <2>2. cutoff \in Int /\ later \in Int /\ cutoff <= later /\ 0 \in 0..Len(d)
    BY <1>1, <2>1, LimiterAssumption DEF TypeOK
  <2>3. Remaining(d, 0) = d
    <3> HIDE DEF d
    <3> QED
      BY <2>1 DEF Remaining
  <2>4. LiveIn(b)' = Live(d, later)
    <3>1. InMap(b)' = d
      BY <1>1 DEF InMap
    <3>2. now' - WindowLength = later
      BY <1>1, LimiterAssumption DEF TypeOK
    <3> HIDE DEF d, later
    <3> QED
      BY <3>1, <3>2, LiveInIs
  <2>5. Live(d, later) <= Live(d, cutoff)
    <3> HIDE DEF d, cutoff, later
    <3> QED
      BY <2>1, <2>2, <2>3, LiveShrinks
  <2>6. Due(b)' \subseteq Due(b)
    BY <1>1 DEF Due
  <2> QED
    BY <1>1, <2>4, <2>5, <2>6, BoundedKept DEF SoftInv, LiveIn
<1> QED
  BY <1>1, <1>2 DEF SoftInv, TokensTaken

\* Most steps leave the windows as they are.
LEMMA WindowsKept ==
    ASSUME SoftInv, TypeOK', now' = now, caught' = caught, TokensTaken',
           \A b \in TpmBuckets : InMap(b)' = InMap(b) /\ Due(b)' \subseteq Due(b)
    PROVE  TokensTaken' /\ \A b \in TpmBuckets : Bounded(b)'
<1>1. TypeOK
  BY DEF SoftInv, StrayInv, HardLimitInv
<1>2. ASSUME NEW b \in TpmBuckets PROVE Bounded(b)'
  <2>1. LiveIn(b)' = LiveIn(b) /\ LiveIn(b) \in Nat
    BY <1>1, LiveKept, LiveInType DEF Buckets
  <2> QED
    BY <1>1, <2>1, BoundedKept DEF SoftInv
<1> QED
  BY <1>2

LEMMA InsertKeepsBound ==
    ASSUME SoftInv, TypeOK', NEW c \in Callers, NEW b \in Buckets,
           NEW n \in Tokens \cup {0}, GetOrInsert(c, b, n),
           n > 0 => caller[c].pc = "owing" /\ caller[c].bucket = b
    PROVE  TokensTaken' /\ \A x \in TpmBuckets : Bounded(x)'
<1>1. TypeOK /\ caught' = caught /\ now' = now
  BY DEF SoftInv, StrayInv, HardLimitInv, GetOrInsert, history
<1>2. \A x \in TpmBuckets : InMap(x)' = InMap(x)
  BY <1>1, InsertIsFramed DEF Buckets
<1>3. PICK w \in Windows : caller' = [caller EXCEPT ![c] =
          [pc |-> "found", bucket |-> b, win |-> w, tokens |-> n]]
  BY DEF GetOrInsert
<1>4. /\ \A k \in Callers \ {c} : caller'[k] = caller[k]
      /\ caller'[c] = [pc |-> "found", bucket |-> b, win |-> w, tokens |-> n]
  BY <1>1, <1>3 DEF TypeOK
<1>5. TokensTaken'
  BY <1>4 DEF SoftInv, TokensTaken
<1>6. \A x \in TpmBuckets : Due(x)' \subseteq Due(x)
  BY <1>4 DEF Due
<1> QED
  BY <1>1, <1>2, <1>5, <1>6, WindowsKept

\* A caller that goes idle owes nothing more.
LEMMA IdleKeepsBound ==
    ASSUME SoftInv, NEW c \in Callers, caller' = [caller EXCEPT ![c] = Idle]
    PROVE  TokensTaken' /\ \A x \in TpmBuckets : Due(x)' \subseteq Due(x)
<1>1. /\ \A k \in Callers \ {c} : caller'[k] = caller[k]
      /\ caller'[c] = Idle
  BY DEF SoftInv, StrayInv, HardLimitInv, TypeOK
<1>2. TokensTaken'
  BY <1>1 DEF SoftInv, TokensTaken, Idle
<1>3. \A x \in TpmBuckets : Due(x)' \subseteq Due(x)
  BY <1>1 DEF Due, Idle
<1> QED
  BY <1>2, <1>3

LEMMA CheckRpmKeepsBound ==
    ASSUME SoftInv, TypeOK', NEW c \in Callers, CheckRpm(c)
    PROVE  TokensTaken' /\ \A x \in TpmBuckets : Bounded(x)'
<1>1. TypeOK /\ WindowsApart
  BY DEF SoftInv, StrayInv, HardLimitInv
<1>2. /\ caller[c].pc = "locked" /\ caller[c].bucket \in RpmBuckets
      /\ \E d : Return(c, d, Idle)
  BY Zenon DEF CheckRpm
<1>3. \A x \in TpmBuckets : InMap(x)' = InMap(x)
  <2>1. \A x \in TpmBuckets : x \in Buckets /\ caller[c].bucket # x
    BY <1>2, LimiterAssumption DEF Buckets
  <2> QED
    BY <1>1, <1>2, <2>1, ReturnIsFramed
<1>4. /\ now' = now /\ caught' = caught
      /\ caller' = [caller EXCEPT ![c] = Idle]
  BY <1>2 DEF Return
<1> QED
  BY <1>3, <1>4, IdleKeepsBound, WindowsKept

\* Cleanup evicts what does not count any more.
LEMMA CleanupKeepsBound ==
    ASSUME SoftInv, TypeOK', NEW b \in Buckets, Cleanup(b)
    PROVE  TokensTaken' /\ \A x \in TpmBuckets : Bounded(x)'
<1> DEFINE w == entry[b]
<1>1. TypeOK /\ WindowsApart /\ UNCHANGED <<now, caller>>
  BY DEF SoftInv, StrayInv, HardLimitInv, Cleanup
<1>2. TokensTaken' /\ \A x \in TpmBuckets : Due(x)' = Due(x)
  BY <1>1 DEF SoftInv, TokensTaken, Due
<1>3. CASE UNCHANGED <<entry, deque, caught>>
  BY <1>1, <1>2, <1>3, WindowsKept DEF InMap
<1>4. ASSUME w # None, NEW n \in 0..Len(deque[w]),
             deque' = [deque EXCEPT ![w] = Remaining(@, n)],
             \/ /\ n = Len(deque[w])
                /\ entry' = [entry EXCEPT ![b] = None]
                /\ caught' = [caught EXCEPT ![b] = @ + Cardinality(Holders(w))]
             \/ UNCHANGED <<entry, caught>>,
             NEW x \in TpmBuckets
      PROVE  Bounded(x)'
  <2>1. x \in Buckets /\ w \in Windows
    BY <1>1, <1>4 DEF Buckets, TypeOK
  <2>2. Cardinality(Holders(w)) \in Nat
    <3>1. IsFiniteSet(Holders(w))
      BY LimiterAssumption, FS_Subset DEF Holders
    <3> QED
      BY <3>1, FS_CardinalityType
  <2>3. caught'[x] = 0 => caught[x] = 0
    <3>1. DOMAIN caught = Buckets /\ caught[x] \in Nat
      BY <1>1, <2>1 DEF TypeOK
    <3> QED
      BY <1>4, <2>1, <2>2, <3>1
  <2>4. LiveIn(x)' <= LiveIn(x)
    <3> DEFINE cutoff == now - WindowLength
    <3>1. LiveIn(x) \in Nat /\ cutoff \in Int /\ now' - WindowLength = cutoff
      BY <1>1, <2>1, LiveInType
    <3>2. CASE x = b
      <4>1. InMap(x) = deque[w] /\ deque[w] \in Seq(EntryType)
        BY <1>1, <1>4, <2>1, <3>2 DEF InMap, TypeOK
      <4>2. CASE entry' = [entry EXCEPT ![b] = None]
        <5>1. InMap(x)' = <<>>
          BY <1>1, <3>2, <4>2 DEF InMap, TypeOK
        <5> QED
          BY <3>1, <5>1, LiveInIs, LiveOfNothing
      <4>3. CASE entry' = entry
        <5> DEFINE r == Remaining(deque[w], n)
        <5>1. InMap(x)' = r
          BY <1>1, <1>4, <2>1, <3>2, <4>3 DEF InMap, TypeOK
        <5>2. LiveIn(x)' = Live(r, cutoff)
          <6> HIDE DEF r
          <6> QED
            BY <3>1, <5>1, LiveInIs
        <5>3. Live(r, cutoff) <= Live(deque[w], cutoff)
          <6>1. PICK d : d = deque[w]
            OBVIOUS
          <6>2. d \in Seq(EntryType) /\ n \in 0..Len(d) /\ cutoff <= cutoff
            BY <3>1, <4>1, <6>1
          <6> HIDE DEF cutoff
          <6>3. Live(Remaining(d, n), cutoff) <= Live(d, cutoff)
            BY <3>1, <6>2, LiveShrinks
          <6> QED
            BY <6>1, <6>3
        <5> QED
          BY <4>1, <5>2, <5>3 DEF LiveIn
      <4> QED
        BY <1>4, <4>2, <4>3
    <3>3. CASE x # b
      <4>1. entry'[x] = entry[x] /\ (entry[x] # None => entry[x] # w)
        BY <1>1, <1>4, <2>1, <3>3 DEF TypeOK, WindowsApart
      <4>2. entry[x] # None => deque'[entry[x]] = deque[entry[x]]
        BY <1>1, <1>4, <2>1, <4>1 DEF TypeOK
      <4>3. InMap(x)' = InMap(x)
        BY <4>1, <4>2 DEF InMap
      <4> QED
        BY <1>1, <3>1, <4>3, LiveKept
    <3> QED
      BY <3>2, <3>3
  <2> QED
    BY <1>1, <1>2, <2>3, <2>4, BoundedKept DEF SoftInv
<1>5. CASE ~ UNCHANGED <<entry, deque, caught>>
  <2>1. PICK n \in 0..Len(deque[w]) :
           /\ w # None
           /\ deque' = [deque EXCEPT ![w] = Remaining(@, n)]
           /\ \/ /\ n = Len(deque[w])
                 /\ entry' = [entry EXCEPT ![b] = None]
                 /\ caught' = [caught EXCEPT ![b] = @ + Cardinality(Holders(w))]
              \/ UNCHANGED <<entry, caught>>
    BY <1>5 DEF Cleanup, CleanEntry
  <2> HIDE DEF w
  <2> QED
    BY <1>2, <1>4, <2>1
<1> QED
  BY <1>3, <1>5

\* The end of a call: other buckets keep their windows, and nobody else's debts
\* change.
LEMMA ReturnKeepsOthers ==
    ASSUME SoftInv, TypeOK', NEW c \in Callers, NEW d, NEW r, Return(c, d, r),
           caller[c].pc = "locked", r \in {Idle, Owing(caller[c].bucket)},
           NEW x \in TpmBuckets, caller[c].bucket # x
    PROVE  Bounded(x)'
<1>1. TypeOK /\ WindowsApart /\ x \in Buckets
  BY DEF SoftInv, StrayInv, HardLimitInv, Buckets
<1>2. /\ now' = now /\ caught' = caught /\ caller' = [caller EXCEPT ![c] = r]
  BY DEF Return
<1>3. LiveIn(x)' = LiveIn(x) /\ LiveIn(x) \in Nat
  <2>1. InMap(x)' = InMap(x)
    BY <1>1, ReturnIsFramed
  <2> QED
    BY <1>1, <1>2, <2>1, LiveKept, LiveInType
<1>4. Due(x)' \subseteq Due(x)
  <2>1. /\ \A k \in Callers \ {c} : caller'[k] = caller[k]
        /\ caller'[c] = r
    BY <1>1, <1>2 DEF TypeOK
  <2>2. \/ r.bucket # x
        \/ r.pc # "owing" /\ r.tokens = 0
    BY DEF Idle, Owing
  <2> QED
    BY <2>1, <2>2 DEF Due
<1> QED
  BY <1>1, <1>2, <1>3, <1>4, BoundedKept DEF SoftInv

\* Who holds a window that is no more in the map was caught.
LEMMA OutsideWasCaught ==
    ASSUME SoftInv, NEW c \in Callers, caller[c].pc = "locked",
           caller[c].bucket \in TpmBuckets,
           caller[c].win # entry[caller[c].bucket]
    PROVE  caught[caller[c].bucket] # 0
<1> DEFINE b == caller[c].bucket
<1>1. TypeOK /\ StraysCounted /\ b \in Buckets
  BY DEF SoftInv, StrayInv, HardLimitInv, Buckets
<1>2. c \in Outside(b)
  BY <1>1, LimiterAssumption DEF Outside, TypeOK
<1>3. IsFiniteSet(Outside(b)) /\ Cardinality(Outside(b)) \in Nat
      /\ StrayCount(b) \in Nat /\ caught[b] \in Nat
  BY <1>1, OutsideIsFinite, StrayCountType
<1>4. Cardinality(Outside(b)) # 0
  BY <1>2, <1>3, FS_EmptySet
<1> QED
  BY <1>1, <1>3, <1>4 DEF StraysCounted

\* The window that is in the map when its caller is done with it.
LEMMA ReturnInMap ==
    ASSUME TypeOK, NEW c \in Callers, NEW d, NEW r, Return(c, d, r),
           NEW b \in Buckets, NEW w \in Windows,
           w = caller[c].win, w = entry[b]
    PROVE  InMap(b) = deque[w] /\ InMap(b)' = d /\ deque[w] \in Seq(EntryType)
<1>1. w # None /\ w = entry[b] /\ entry' = entry
  BY LimiterAssumption DEF Return
<1>2. deque' = [deque EXCEPT ![w] = d] /\ deque \in [Windows -> Seq(EntryType)]
  BY DEF Return, TypeOK
<1>3. deque'[w] = d /\ deque[w] \in Seq(EntryType)
  BY <1>2
<1> QED
  BY <1>1, <1>3 DEF InMap

LEMMA BoundedIf ==
    ASSUME NEW b, NEW live, NEW due, LiveIn(b)' = live, Due(b)' = due,
           live + Most * Cardinality(due) < Limit[b] + Most * Cardinality(Callers)
    PROVE  Bounded(b)'
  BY DEF Bounded

LEMMA CheckTpmKeepsBound ==
    ASSUME SoftInv, TypeOK', NEW c \in Callers, CheckTpm(c)
    PROVE  TokensTaken' /\ \A x \in TpmBuckets : Bounded(x)'
<1>1. TypeOK /\ WindowsApart
  BY DEF SoftInv, StrayInv, HardLimitInv
<1>2. PICK b \in TpmBuckets : b = caller[c].bucket
  BY DEF CheckTpm
<1>3. PICK w \in Windows : w = caller[c].win
  BY <1>1 DEF CheckTpm, TypeOK
<1>4. PICK n \in 0..Len(deque[w]) :
        Return(c, Remaining(deque[w], n),
               IF TotalTokens(Remaining(deque[w], n)) >= Limit[b] THEN Idle ELSE Owing(b))
  BY <1>2, <1>3 DEF CheckTpm
<1>5. PICK rest : rest = Remaining(deque[w], n)
  OBVIOUS
<1>6. PICK r : r = IF TotalTokens(rest) >= Limit[b] THEN Idle ELSE Owing(b)
  OBVIOUS
<1>7. /\ Return(c, rest, r) /\ r \in {Idle, Owing(caller[c].bucket)}
      /\ caller[c].pc = "locked" /\ b \in Buckets
  <2>1. Return(c, rest, r)
    BY <1>4, <1>5, <1>6
  <2>2. caller[c].pc = "locked" /\ b \in Buckets
    BY DEF CheckTpm, Buckets
  <2>3. r \in {Idle, Owing(caller[c].bucket)}
    BY <1>2, <1>6
  <2> QED
    BY <2>1, <2>2, <2>3
<1>8. /\ now' = now /\ caught' = caught
      /\ \A k \in Callers \ {c} : caller'[k] = caller[k]
      /\ caller'[c] = r
  BY <1>1, <1>7 DEF Return, TypeOK
<1>9. TokensTaken'
  BY <1>7, <1>8 DEF SoftInv, TokensTaken, Idle, Owing
<1>10. ASSUME NEW x \in TpmBuckets, x # b PROVE Bounded(x)'
  <2>1. caller[c].bucket # x
    BY <1>2, <1>10
  <2> QED
    BY <1>7, <2>1, ReturnKeepsOthers
<1>11. Bounded(b)'
  <2>1. CASE w # entry[b]
    <3>1. caught[b] # 0
      BY <1>2, <1>3, <1>7, <2>1, OutsideWasCaught
    <3>2. caught'[b] # 0
      BY <1>8, <3>1
    <3> QED
      BY <3>2 DEF Bounded
  <2>2. CASE w = entry[b]
    <3>1. InMap(b) = deque[w] /\ InMap(b)' = rest /\ deque[w] \in Seq(EntryType)
      BY <1>1, <1>3, <1>7, <2>2, ReturnInMap
    <3>2. PICK d : d = deque[w]
      OBVIOUS
    <3>3. PICK cutoff : cutoff = now - WindowLength
      OBVIOUS
    <3>4. /\ LiveIn(b) = Live(d, cutoff) /\ cutoff \in Int /\ cutoff <= cutoff
          /\ d \in Seq(EntryType) /\ n \in 0..Len(d) /\ rest = Remaining(d, n)
      <4>1. cutoff \in Int /\ cutoff <= cutoff
        BY <1>1, <1>7, <3>3, LiveInType
      <4>2. LiveIn(b) = Live(d, cutoff)
        BY <3>1, <3>2, <3>3 DEF LiveIn
      <4> QED
        BY <1>4, <1>5, <3>1, <3>2, <4>1, <4>2
    <3>5. LiveIn(b)' = Live(rest, cutoff)
      <4>1. now' - WindowLength = cutoff
        BY <1>8, <3>3
      <4> QED
        BY <3>1, <4>1, LiveInIs
    <3>6. rest \in Seq(EntryType)
      BY <3>4, RemainingElements
    <3>7. CASE r = Idle
      <4>1. Live(rest, cutoff) <= Live(d, cutoff)
        BY <3>4, LiveShrinks
      <4>2. LiveIn(b)' <= LiveIn(b)
        BY <3>4, <3>5, <4>1
      <4>3. Due(b)' \subseteq Due(b)
        BY <1>8, <3>7 DEF Due, Idle
      <4> QED
        BY <1>1, <1>8, <4>2, <4>3, BoundedKept DEF SoftInv
    <3>8. CASE r # Idle
      <4>1. ~ (TotalTokens(rest) >= Limit[b]) /\ Limit[b] \in Nat
        BY <1>6, <1>7, <3>8, LimiterAssumption
      <4>2. /\ Live(rest, cutoff) \in Nat /\ TotalTokens(rest) \in Nat
            /\ Live(rest, cutoff) <= TotalTokens(rest)
        BY <3>4, <3>6, LiveIsNat, LiveIsPart
      <4>3. PICK live : live = Live(rest, cutoff)
        OBVIOUS
      <4>4. live \in Nat /\ live < Limit[b]
        BY <4>1, <4>2, <4>3
      <4>5. PICK after : after = Due(b)'
        OBVIOUS
      <4>6. /\ Cardinality(after) \in Nat /\ Cardinality(Callers) \in Nat
            /\ Cardinality(after) <= Cardinality(Callers)
        <5>1. after \subseteq Callers
          BY <4>5 DEF Due
        <5> QED
          BY <5>1, LimiterAssumption, FS_Subset, FS_CardinalityType
      <4>7. /\ Most * Cardinality(after) \in Nat
            /\ Most * Cardinality(Callers) \in Nat
            /\ Most * Cardinality(after) <= Most * Cardinality(Callers)
        BY <4>6, MostIs, Products
      <4>8. live + Most * Cardinality(after) < Limit[b] + Most * Cardinality(Callers)
        BY ONLY <4>1, <4>4, <4>7
      <4>9. LiveIn(b)' = live /\ Due(b)' = after
        BY <3>5, <4>3, <4>5
      <4> QED
        BY <4>8, <4>9, BoundedIf
    <3> QED
      BY <3>7, <3>8
  <2> QED
    BY <2>1, <2>2
<1> QED
  BY <1>9, <1>10, <1>11

\* Who records tokens turns what it owed into what is live.
LEMMA RecordTokensKeepsBound ==
    ASSUME SoftInv, TypeOK', NEW c \in Callers, RecordTokens(c),
           caller[c].bucket \in TpmBuckets
    PROVE  TokensTaken' /\ \A x \in TpmBuckets : Bounded(x)'
<1>1. TypeOK /\ WindowsApart
  BY DEF SoftInv, StrayInv, HardLimitInv
<1>2. PICK b \in TpmBuckets : b = caller[c].bucket
  OBVIOUS
<1>3. PICK w \in Windows : w = caller[c].win
  BY <1>1 DEF RecordTokens, TypeOK
<1>4. PICK t : t = caller[c].tokens
  OBVIOUS
<1>5. PICK e : e = [at |-> now, tokens |-> t]
  OBVIOUS
<1>6. t \in Nat /\ t <= Most /\ e \in EntryType /\ e.tokens = t
  <2>1. t \in Tokens /\ t > 0
    BY <1>4 DEF SoftInv, TokensTaken, RecordTokens
  <2>2. t \in Nat /\ t <= Most
    BY <2>1, MostIs, LimiterAssumption
  <2>3. e \in EntryType /\ e.tokens = t
    BY <1>1, <1>5, <2>2 DEF EntryType, TypeOK
  <2> QED
    BY <2>2, <2>3
<1>7. /\ Return(c, Append(deque[w], e), Idle)
      /\ caller[c].pc = "locked" /\ b \in Buckets
  BY <1>3, <1>4, <1>5 DEF RecordTokens, Buckets
<1>8. /\ now' = now /\ caught' = caught /\ caller' = [caller EXCEPT ![c] = Idle]
      /\ \A k \in Callers \ {c} : caller'[k] = caller[k]
      /\ caller'[c] = Idle
  BY <1>1, <1>7 DEF Return, TypeOK
<1>9. TokensTaken'
  BY <1>8, IdleKeepsBound
<1>10. ASSUME NEW x \in TpmBuckets, x # b PROVE Bounded(x)'
  <2>1. caller[c].bucket # x
    BY <1>2, <1>10
  <2> QED
    BY <1>7, <2>1, ReturnKeepsOthers
<1>11. Bounded(b)'
  <2>1. CASE w # entry[b]
    <3>1. caught[b] # 0
      BY <1>2, <1>3, <1>7, <2>1, OutsideWasCaught
    <3>2. caught'[b] # 0
      BY <1>8, <3>1
    <3> QED
      BY <3>2 DEF Bounded
  <2>2. CASE w = entry[b] /\ caught[b] = 0
    <3>0. PICK a : a = Append(deque[w], e)
      OBVIOUS
    <3>1. InMap(b) = deque[w] /\ InMap(b)' = a /\ deque[w] \in Seq(EntryType)
      BY <1>1, <1>3, <1>7, <2>2, <3>0, ReturnInMap
    <3>2. PICK d : d = deque[w]
      OBVIOUS
    <3>3. PICK cutoff : cutoff = now - WindowLength
      OBVIOUS
    <3>4. /\ LiveIn(b) = Live(d, cutoff) /\ cutoff \in Int
          /\ d \in Seq(EntryType) /\ a = Append(d, e) /\ a \in Seq(EntryType)
      <4>1. cutoff \in Int
        BY <1>1, <1>7, <3>3, LiveInType
      <4>2. LiveIn(b) = Live(d, cutoff)
        BY <3>1, <3>2, <3>3 DEF LiveIn
      <4> QED
        BY <1>6, <3>0, <3>1, <3>2, <4>1, <4>2
    <3>5. LiveIn(b)' = Live(a, cutoff)
      <4>1. now' - WindowLength = cutoff
        BY <1>8, <3>3
      <4> QED
        BY <3>1, <4>1, LiveInIs
    <3>6. PICK before : before = Due(b)
      OBVIOUS
    <3>7. PICK after : after = Due(b)'
      OBVIOUS
    <3>8. after = before \ {c} /\ c \in before
      BY <1>2, <1>8, <3>6, <3>7 DEF Due, Idle, RecordTokens
    <3>9. /\ Cardinality(before) = Cardinality(after) + 1
          /\ Cardinality(before) \in Nat /\ Cardinality(after) \in Nat
          /\ Cardinality(Callers) \in Nat
      <4>1. IsFiniteSet(before) /\ Cardinality(before) \in Nat /\ Cardinality(Callers) \in Nat
        BY <3>6, DueIsFinite
      <4>2. IsFiniteSet(after) /\ Cardinality(after) = Cardinality(before) - 1
        BY <3>8, <4>1, FS_RemoveElement
      <4>3. Cardinality(after) \in Nat
        BY <4>2, FS_CardinalityType
      <4> QED
        BY <4>1, <4>2, <4>3
    <3>10. PICK p : p = Most * Cardinality(after)
      OBVIOUS
    <3>11. PICK q : q = Most * Cardinality(Callers)
      OBVIOUS
    <3>12. /\ p \in Nat /\ q \in Nat /\ Most \in Nat
           /\ Most * Cardinality(before) = p + Most
      BY <3>9, <3>10, <3>11, MostIs, Products
    <3>13. Live(d, cutoff) + Most * Cardinality(before) < Limit[b] + q
      BY <2>2, <3>4, <3>6, <3>11 DEF SoftInv, Bounded
    <3>14. /\ Live(a, cutoff) <= Live(d, cutoff) + t
           /\ Live(a, cutoff) \in Nat /\ Live(d, cutoff) \in Nat
      <4>1. Live(Append(d, e), cutoff) <= Live(d, cutoff) + e.tokens
        BY <1>6, <3>4, LiveAfterPush
      <4> QED
        BY <1>6, <3>4, <4>1, LiveIsNat
    <3>15. Limit[b] \in Nat
      BY <1>7, LimiterAssumption
    <3>16. \A x, y, l \in Nat : x <= y + t /\ y + (p + Most) < l + q => x + p < l + q
      BY ONLY <1>6, <3>12
    <3>17. Live(a, cutoff) + p < Limit[b] + q
      BY ONLY <3>12, <3>13, <3>14, <3>15, <3>16
    <3>18. LiveIn(b)' = Live(a, cutoff) /\ Due(b)' = after
      BY <3>5, <3>7
    <3> QED
      BY <3>10, <3>11, <3>17, <3>18, BoundedIf
  <2>3. CASE caught[b] # 0
    BY <1>8, <2>3 DEF Bounded
  <2> QED
    BY <2>1, <2>2, <2>3
<1> QED
  BY <1>9, <1>10, <1>11

LEMMA StepKeepsBound ==
    ASSUME SoftInv, TypeOK', [Next]_vars
    PROVE  TokensTaken' /\ \A x \in TpmBuckets : Bounded(x)'
<1>1. TypeOK /\ RecordersOnTpm
  BY DEF SoftInv, StrayInv, HardLimitInv
<1>2. CASE Tick
  BY <1>2, TickKeepsBound
<1>3. ASSUME NEW c \in Callers, NEW b \in Buckets, BeginCheck(c, b)
      PROVE  TokensTaken' /\ \A x \in TpmBuckets : Bounded(x)'
  <2>1. 0 \in Tokens \cup {0} /\ ~ (0 > 0) /\ GetOrInsert(c, b, 0)
    BY <1>3 DEF BeginCheck
  <2> QED
    BY <2>1, InsertKeepsBound
<1>4. ASSUME NEW c \in Callers, NEW n \in Tokens, BeginRecord(c, n)
      PROVE  TokensTaken' /\ \A x \in TpmBuckets : Bounded(x)'
  <2>1. PICK b : b = caller[c].bucket
    OBVIOUS
  <2>2. b \in Buckets /\ caller[c].pc = "owing" /\ GetOrInsert(c, b, n)
    BY <1>1, <1>4, <2>1 DEF BeginRecord, TypeOK, Buckets
  <2> QED
    BY <2>1, <2>2, InsertKeepsBound
<1>5. ASSUME NEW c \in Callers, Abandon(c)
      PROVE  TokensTaken' /\ \A x \in TpmBuckets : Bounded(x)'
  <2>1. /\ caller' = [caller EXCEPT ![c] = Idle]
        /\ UNCHANGED <<now, entry, deque, caught>>
    BY <1>5 DEF Abandon, mapVars, history
  <2>2. \A x \in TpmBuckets : InMap(x)' = InMap(x)
    BY <2>1 DEF InMap
  <2> QED
    BY <2>1, <2>2, IdleKeepsBound, WindowsKept
<1>6. ASSUME NEW c \in Callers, Lock(c)
      PROVE  TokensTaken' /\ \A x \in TpmBuckets : Bounded(x)'
  <2>1. /\ caller[c].pc = "found"
        /\ caller' = [caller EXCEPT ![c].pc = "locked"]
        /\ UNCHANGED <<now, entry, deque, caught>>
    BY <1>6 DEF Lock, history
  <2>2. \A k \in Callers : /\ caller'[k].tokens = caller[k].tokens
                           /\ caller'[k].bucket = caller[k].bucket
                           /\ caller'[k].pc \in {caller[k].pc, "locked"}
    BY <1>1, <2>1 DEF TypeOK, CallerType
  <2>3. TokensTaken'
    BY <2>2 DEF SoftInv, TokensTaken
  <2>4. \A x \in TpmBuckets : InMap(x)' = InMap(x) /\ Due(x)' \subseteq Due(x)
    BY <2>1, <2>2 DEF InMap, Due
  <2> QED
    BY <2>1, <2>3, <2>4, WindowsKept
<1>7. ASSUME NEW c \in Callers, RecordTokens(c)
      PROVE  TokensTaken' /\ \A x \in TpmBuckets : Bounded(x)'
  <2>1. caller[c].bucket \in TpmBuckets
    BY <1>1, <1>7 DEF RecordTokens, RecordersOnTpm
  <2> QED
    BY <1>7, <2>1, RecordTokensKeepsBound
<1>8. CASE BeginCleanup \/ UNCHANGED vars
  <2>1. UNCHANGED <<now, entry, deque, caller, caught>>
    BY <1>8 DEF BeginCleanup, vars, mapVars, history
  <2>2. TokensTaken'
    BY <2>1 DEF SoftInv, TokensTaken
  <2>3. \A x \in TpmBuckets : InMap(x)' = InMap(x) /\ Due(x)' \subseteq Due(x)
    BY <2>1 DEF InMap, Due
  <2> QED
    BY <2>1, <2>2, <2>3, WindowsKept
<1> QED
  BY <1>2, <1>3, <1>4, <1>5, <1>6, <1>7, <1>8,
     CheckRpmKeepsBound, CheckTpmKeepsBound, CleanupKeepsBound DEF Next

LEMMA InitBounded ==
    ASSUME Init
    PROVE  TokensTaken /\ \A b \in TpmBuckets : Bounded(b)
<1>1. TokensTaken
  BY DEF Init, TokensTaken, Idle
<1>2. ASSUME NEW b \in TpmBuckets PROVE Bounded(b)
  <2>1. Due(b) = {} /\ InMap(b) = <<>>
    BY <1>2 DEF Init, Due, Idle, InMap, Buckets
  <2>2. LiveIn(b) = 0 /\ Cardinality(Due(b)) = 0
    BY <2>1, LiveOfNothing, FS_EmptySet DEF LiveIn
  <2>3. Cardinality(Callers) \in Nat /\ Cardinality(Callers) # 0
    BY LimiterAssumption, FS_EmptySet, FS_CardinalityType
  <2>4. PICK n \in Nat : n + 1 = Cardinality(Callers)
    <3>1. Cardinality(Callers) - 1 \in Nat /\ (Cardinality(Callers) - 1) + 1 = Cardinality(Callers)
      BY <2>3
    <3> QED
      BY <3>1
  <2>5. Most * (n + 1) = Most * n + Most /\ Most * n \in Nat /\ Most \in Nat \ {0}
        /\ Most * 0 = 0
    BY MostIs, Products
  <2>6. Limit[b] \in Nat
    BY LimiterAssumption DEF Buckets
  <2>7. 0 + 0 < Limit[b] + (Most * n + Most)
    BY <2>5, <2>6
  <2> QED
    BY <2>2, <2>4, <2>5, <2>7 DEF Bounded
<1> QED
  BY <1>1, <1>2

LEMMA SoftInvariant == Spec => []SoftInv
<1>1. Init => TokensTaken /\ \A b \in TpmBuckets : Bounded(b)
  BY InitBounded
<1>2. SoftInv /\ StrayInv' /\ [Next]_vars => SoftInv'
  BY StepKeepsBound DEF SoftInv, StrayInv, HardLimitInv
<1>3. Init /\ StrayInv => SoftInv
  BY <1>1 DEF SoftInv
<1> QED
  BY <1>2, <1>3, StrayInvariant, PTL DEF Spec

\* The overshoot of the soft limit is bounded: as long as cleanup_stale has
\* caught nobody, the tokens recorded in a window and those the requests in
\* flight may add stay below the limit plus the most that all callers together
\* can use, whatever order they check and record in.
THEOREM SoftLimitHolds == Spec => []SoftLimit
<1>1. ASSUME NEW b PROVE LiveTokens(b) = LiveIn(b)
  BY DEF LiveTokens, LiveIn, Live, Costs, InMap
<1>2. SoftInv => SoftLimit
  BY <1>1 DEF SoftInv, Bounded, SoftLimit, Most, Due
<1> QED
  BY <1>2, SoftInvariant, PTL
=============================================================================
