------------------------ MODULE UpstreamGroupProofs ------------------------
(***************************************************************************)
(* For any group (bindings, weights, tiers, disabled ones) and any number  *)
(* of callers that choose in it at the same time: the running weights      *)
(* cancel out and stay bounded, nobody is passed on to a lower tier for    *)
(* nothing, and a key keeps its binding.                                   *)
(*                                                                         *)
(* The sum of the running weights is a fold by recursion over the subsets  *)
(* of a finite set.  The induction is taken in the form SubsetInduction,   *)
(* over a set of subsets, which needs no predicate as a parameter.         *)
(***************************************************************************)
EXTENDS UpstreamGroup, FiniteSetTheorems, WellFoundedInduction, TLAPS

(* The operators of a breaker.                                             *)

LEMMA NewBreakerType == NewBreaker(0) \in BreakerType
  BY BreakerAssumption DEF NewBreaker, BreakerType, States

LEMMA TransitionType ==
    ASSUME NEW b \in BreakerType, NEW target \in States, NEW now \in Nat
    PROVE  TransitionTo(b, target, now) \in BreakerType
  BY BreakerAssumption DEF TransitionTo, BreakerType, States

\* To look at a breaker does not make it refuse.
LEMMA CheckAndUpdateKeeps ==
    ASSUME NEW b \in BreakerType, NEW now \in Nat
    PROVE  /\ CheckAndUpdate(b, now) \in BreakerType
           /\ CanExecute(b, now) => CanExecute(CheckAndUpdate(b, now), now)
<1>1. "half_open" \in States
  BY DEF States
<1>2. CheckAndUpdate(b, now) \in BreakerType
  BY <1>1, TransitionType DEF CheckAndUpdate
<1>3. CanExecute(b, now) => CanExecute(CheckAndUpdate(b, now), now)
  BY DEF CanExecute, CheckAndUpdate, TransitionTo
<1> QED
  BY <1>2, <1>3

LEMMA OutcomeType ==
    ASSUME NEW b \in BreakerType, NEW success, NEW now \in Nat
    PROVE  RecordOutcome(b, success, now) \in BreakerType
<1>1. "closed" \in States /\ "open" \in States
  BY DEF States
<1>2. /\ [b EXCEPT !.failures = 0, !.successes = Inc(@)] \in BreakerType
      /\ [b EXCEPT !.successes = 0, !.failures = Inc(@)] \in BreakerType
  <2>1. 0 \in 0..CountCap /\ \A n \in 0..CountCap : Inc(n) \in 0..CountCap
    BY BreakerAssumption DEF Inc
  <2>2. b.failures \in 0..CountCap /\ b.successes \in 0..CountCap
    BY DEF BreakerType
  <2> QED
    BY <2>1, <2>2 DEF BreakerType
<1>3. RecordSuccess(b, now) \in BreakerType
  <2> DEFINE c == [b EXCEPT !.failures = 0, !.successes = Inc(@)]
  <2>1. c \in BreakerType /\ TransitionTo(c, "closed", now) \in BreakerType
    BY <1>1, <1>2, TransitionType
  <2> QED
    BY <2>1 DEF RecordSuccess
<1>4. RecordFailure(b, now) \in BreakerType
  <2> DEFINE c == [b EXCEPT !.successes = 0, !.failures = Inc(@)]
  <2>1. c \in BreakerType /\ TransitionTo(c, "open", now) \in BreakerType
    BY <1>1, <1>2, TransitionType
  <2> QED
    BY <2>1 DEF RecordFailure
<1> QED
  BY <1>3, <1>4 DEF RecordOutcome

\* Time that passes does not make it refuse either.
Older(b) == [b EXCEPT !.since = IF @ > 0 THEN @ - 1 ELSE 0]

LEMMA OlderKeeps ==
    ASSUME NEW b \in BreakerType, NEW now \in Nat
    PROVE  /\ Older(b) \in BreakerType
           /\ CanExecute(b, now) => CanExecute(Older(b), now)
<1>1. Older(b) \in BreakerType /\ Older(b).state = b.state
  BY DEF Older, BreakerType
<1>2. Elapsed(now, b.since) => Elapsed(now, Older(b).since)
  <2>1. b.since \in Nat /\ Older(b).since = IF b.since > 0 THEN b.since - 1 ELSE 0
    BY DEF Older, BreakerType
  <2> QED
    BY <2>1, BreakerAssumption DEF Elapsed
<1>3. CanExecute(b, now) <=> (b.state # "open" \/ Elapsed(now, b.since))
  BY DEF CanExecute, CheckAndUpdate, TransitionTo
<1>4. CanExecute(Older(b), now)
         <=> (Older(b).state # "open" \/ Elapsed(now, Older(b).since))
  BY DEF CanExecute, CheckAndUpdate, TransitionTo
<1> QED
  BY <1>1, <1>2, <1>3, <1>4
----------------------------------------------------------------------------
(* Induction.                                                              *)

\* A set of subsets of S that has every T all of whose proper subsets it has
\* has them all.
LEMMA SubsetInduction ==
    ASSUME NEW S, IsFiniteSet(S), NEW P,
           \A T \in SUBSET S : (\A U \in SUBSET T : U # T => U \in P) => T \in P
    PROVE  SUBSET S \subseteq P
<1> DEFINE bad == (SUBSET S) \ P
<1>1. SUFFICES ASSUME bad # {} PROVE FALSE
  OBVIOUS
<1>2. bad \subseteq FiniteSubsetsOf(S)
  BY FS_FiniteSubsetsOfFinite
<1>3. IsWellFoundedOn(StrictSubsetOrdering(S), FiniteSubsetsOf(S))
  BY FS_StrictSubsetOrderingWellFounded
<1> HIDE DEF bad
<1>4. PICK T \in bad : \A U \in bad : ~ (<<U, T>> \in StrictSubsetOrdering(S))
  BY <1>1, <1>2, <1>3, WFMin
<1>5. ASSUME NEW U \in SUBSET T, U # T
      PROVE  U \in P
  <2>1. U \in SUBSET S /\ T \in SUBSET S
    BY DEF bad
  <2>2. <<U, T>> \in StrictSubsetOrdering(S)
    BY <1>5, <2>1 DEF StrictSubsetOrdering
  <2> QED
    BY <1>4, <2>1, <2>2 DEF bad
<1> QED
  BY <1>5 DEF bad

----------------------------------------------------------------------------
Some(S) == CHOOSE x \in S : TRUE

\* The sum of f over S.
Total(f, S) == MapThenSumSet(LAMBDA x : f[x], S)

\* The recursion that defines it.
Sums(f, S, g) ==
    g = [s \in SUBSET S |-> IF s = {} THEN 0 ELSE f[Some(s)] + g[s \ {Some(s)}]]

SumsOf(f, S) == CHOOSE g : Sums(f, S, g)

LEMMA TotalIsRecursion ==
    ASSUME NEW f, NEW S
    PROVE  Total(f, S) = SumsOf(f, S)[S]
  BY DEF Total, MapThenSumSet, MapThenFoldSet, SumsOf, Sums, Some

LEMMA SomeInside ==
    ASSUME NEW S, S # {}
    PROVE  Some(S) \in S
  BY DEF Some

LEMMA SumsUnique ==
    ASSUME NEW f, NEW S, IsFiniteSet(S), NEW g, NEW h, Sums(f, S, g), Sums(f, S, h)
    PROVE  g = h
<1> DEFINE P == {T \in SUBSET S : g[T] = h[T]}
<1>1. ASSUME NEW T \in SUBSET S, \A U \in SUBSET T : U # T => U \in P
      PROVE  T \in P
  <2>1. CASE T = {}
    BY <2>1 DEF Sums
  <2>2. CASE T # {}
    <3>1. Some(T) \in T
      BY <2>2, SomeInside
    <3>2. T \ {Some(T)} \in P
      BY <1>1, <3>1
    <3>3. /\ g[T] = f[Some(T)] + g[T \ {Some(T)}]
          /\ h[T] = f[Some(T)] + h[T \ {Some(T)}]
      BY <2>2 DEF Sums
    <3> QED
      BY <3>2, <3>3
  <2> QED
    BY <2>1, <2>2
<1> HIDE DEF P
<1>2. SUBSET S \subseteq P
  BY <1>1, SubsetInduction
<1>3. \A T \in SUBSET S : g[T] = h[T]
  BY <1>2 DEF P
<1>4. g = [T \in SUBSET S |-> g[T]] /\ h = [T \in SUBSET S |-> h[T]]
  BY DEF Sums
<1> QED
  BY <1>3, <1>4

LEMMA SumsRestrict ==
    ASSUME NEW f, NEW S, NEW g, Sums(f, S, g), NEW V \in SUBSET S
    PROVE  Sums(f, V, [s \in SUBSET V |-> g[s]])
<1> DEFINE h == [s \in SUBSET V |-> g[s]]
<1>1. \A s \in SUBSET V : s \ {Some(s)} \in SUBSET V /\ s \in SUBSET S
  OBVIOUS
<1>2. \A s \in SUBSET V :
         h[s] = IF s = {} THEN 0 ELSE f[Some(s)] + h[s \ {Some(s)}]
  BY <1>1 DEF Sums
<1>3. h = [s \in SUBSET V |-> h[s]]
  OBVIOUS
<1> HIDE DEF h
<1>4. h = [s \in SUBSET V |-> IF s = {} THEN 0 ELSE f[Some(s)] + h[s \ {Some(s)}]]
  BY <1>2, <1>3
<1> QED
  BY <1>4 DEF Sums, h

\* If g sums over S and h over a part V of it, they agree on V.
LEMMA SumsAgree ==
    ASSUME NEW f, NEW S, IsFiniteSet(S), NEW V \in SUBSET S,
           NEW g, NEW h, Sums(f, S, g), Sums(f, V, h)
    PROVE  g[V] = h[V]
<1>1. Sums(f, V, [s \in SUBSET V |-> g[s]])
  BY SumsRestrict
<1>2. IsFiniteSet(V)
  BY FS_Subset
<1>3. h = [s \in SUBSET V |-> g[s]]
  BY <1>1, <1>2, SumsUnique
<1> QED
  BY <1>3

LEMMA SumsExist ==
    ASSUME NEW f, NEW S, IsFiniteSet(S)
    PROVE  Sums(f, S, SumsOf(f, S))
<1> DEFINE P == {T \in SUBSET S : Sums(f, T, SumsOf(f, T))}
<1>1. ASSUME NEW T \in SUBSET S, \A U \in SUBSET T : U # T => U \in P
      PROVE  T \in P
  <2> DEFINE rest(s) == s \ {Some(s)}
             part(s) == SumsOf(f, rest(s))[rest(s)]
             g == [s \in SUBSET T |-> IF s = {} THEN 0 ELSE f[Some(s)] + part(s)]
  <2>1. ASSUME NEW s \in SUBSET T, s # {}
        PROVE  g[rest(s)] = part(s)
    <3> DEFINE V == rest(s)
    <3>1. V \in SUBSET T /\ V # T /\ IsFiniteSet(V)
      BY <2>1, SomeInside, FS_Subset
    <3>2. Sums(f, V, SumsOf(f, V))
      BY <1>1, <3>1
    <3>3. CASE V = {}
      BY <3>2, <3>3 DEF Sums
    <3>4. CASE V # {}
      <4>1. /\ rest(V) \in SUBSET V /\ rest(V) \in SUBSET T /\ rest(V) # T
        BY <3>1, <3>4
      <4>2. Sums(f, rest(V), SumsOf(f, rest(V)))
        BY <1>1, <4>1
      <4>3. SumsOf(f, V)[rest(V)] = part(V)
        BY <3>1, <3>2, <4>1, <4>2, SumsAgree
      <4>4. SumsOf(f, V)[V] = f[Some(V)] + SumsOf(f, V)[rest(V)]
        BY <3>2, <3>4 DEF Sums
      <4> QED
        BY <3>1, <3>4, <4>3, <4>4
    <3> QED
      BY <3>3, <3>4
  <2>2. g = [s \in SUBSET T |-> IF s = {} THEN 0 ELSE f[Some(s)] + g[rest(s)]]
    BY <2>1
  <2> HIDE DEF g
  <2>3. Sums(f, T, g)
    BY <2>2 DEF Sums
  <2>4. Sums(f, T, SumsOf(f, T))
    BY <2>3 DEF SumsOf
  <2> QED
    BY <2>4
<1>2. SUBSET S \subseteq P
  <2> HIDE DEF P
  <2> QED
    BY <1>1, SubsetInduction
<1> QED
  BY <1>2

----------------------------------------------------------------------------
(* What a sum is.                                                          *)

LEMMA TotalEmpty ==
    ASSUME NEW f
    PROVE  Total(f, {}) = 0
<1>1. Sums(f, {}, SumsOf(f, {}))
  BY SumsExist, FS_EmptySet
<1> QED
  BY <1>1, TotalIsRecursion DEF Sums

LEMMA TotalStep ==
    ASSUME NEW f, NEW S, IsFiniteSet(S), S # {}
    PROVE  Total(f, S) = f[Some(S)] + Total(f, S \ {Some(S)})
<1> DEFINE V == S \ {Some(S)}
<1>1. V \in SUBSET S /\ IsFiniteSet(V)
  BY FS_Subset
<1>2. Sums(f, S, SumsOf(f, S)) /\ Sums(f, V, SumsOf(f, V))
  BY <1>1, SumsExist
<1>3. SumsOf(f, S)[V] = SumsOf(f, V)[V]
  BY <1>1, <1>2, SumsAgree
<1>4. SumsOf(f, S)[S] = f[Some(S)] + SumsOf(f, S)[V]
  BY <1>2 DEF Sums
<1> QED
  BY <1>3, <1>4, TotalIsRecursion

LEMMA TotalType ==
    ASSUME NEW S, IsFiniteSet(S), NEW f, \A x \in S : f[x] \in Int
    PROVE  Total(f, S) \in Int
<1> DEFINE P == {T \in SUBSET S : Total(f, T) \in Int}
<1>1. ASSUME NEW T \in SUBSET S, \A U \in SUBSET T : U # T => U \in P
      PROVE  T \in P
  <2>1. CASE T = {}
    BY <2>1, TotalEmpty
  <2>2. CASE T # {}
    <3>1. Some(T) \in T /\ IsFiniteSet(T)
      BY <2>2, SomeInside, FS_Subset
    <3>2. T \ {Some(T)} \in P
      BY <1>1, <3>1
    <3>3. f[Some(T)] \in Int /\ Total(f, T \ {Some(T)}) \in Int
      BY <3>1, <3>2
    <3> QED
      BY <2>2, <3>1, <3>3, TotalStep
  <2> QED
    BY <2>1, <2>2
<1>2. SUBSET S \subseteq P
  <2> HIDE DEF P
  <2> QED
    BY <1>1, SubsetInduction
<1> QED
  BY <1>2

\* Any element may be taken out first.
LEMMA TotalTakeOut ==
    ASSUME NEW S, IsFiniteSet(S), NEW f, \A x \in S : f[x] \in Int, NEW y \in S
    PROVE  Total(f, S) = f[y] + Total(f, S \ {y})
<1> DEFINE P == {T \in SUBSET S : \A x \in T : Total(f, T) = f[x] + Total(f, T \ {x})}
<1>1. ASSUME NEW T \in SUBSET S, \A U \in SUBSET T : U # T => U \in P,
             NEW x \in T
      PROVE  Total(f, T) = f[x] + Total(f, T \ {x})
  <2> DEFINE z == Some(T)
  <2>1. z \in T /\ IsFiniteSet(T)
    BY SomeInside, FS_Subset
  <2>2. Total(f, T) = f[z] + Total(f, T \ {z})
    BY <2>1, TotalStep
  <2> HIDE DEF z
  <2>3. CASE x = z
    BY <2>2, <2>3
  <2>4. CASE x # z
    <3>1. /\ T \ {z} \in P /\ x \in T \ {z}
          /\ T \ {x} \in P /\ z \in T \ {x}
      BY <1>1, <2>1, <2>4
    <3>2. /\ Total(f, T \ {z}) = f[x] + Total(f, (T \ {z}) \ {x})
          /\ Total(f, T \ {x}) = f[z] + Total(f, (T \ {x}) \ {z})
      BY <3>1
    <3>3. (T \ {z}) \ {x} = (T \ {x}) \ {z}
      OBVIOUS
    <3>4. IsFiniteSet((T \ {z}) \ {x})
      BY <2>1, FS_Subset
    <3>5. Total(f, (T \ {z}) \ {x}) \in Int
      BY <3>4, TotalType
    <3>6. f[x] \in Int /\ f[z] \in Int
      BY <2>1
    <3>7. \A a, b, c, d, t \in Int :
             a = b + t /\ c = d + t => d + a = b + c
      OBVIOUS
    <3>8. Total(f, (T \ {x}) \ {z}) = Total(f, (T \ {z}) \ {x})
      BY <3>3
    <3>9. Total(f, T \ {x}) = f[z] + Total(f, (T \ {z}) \ {x})
      BY <3>2, <3>8
    <3>10. Total(f, T \ {z}) \in Int /\ Total(f, T \ {x}) \in Int
      BY <3>2, <3>5, <3>6, <3>9
    <3>11. f[z] + Total(f, T \ {z}) = f[x] + Total(f, T \ {x})
      BY <3>2, <3>5, <3>6, <3>7, <3>9, <3>10
    <3> QED
      BY <2>2, <3>11
  <2> QED
    BY <2>3, <2>4
<1>2. SUBSET S \subseteq P
  <2>1. ASSUME NEW T \in SUBSET S, \A U \in SUBSET T : U # T => U \in P
        PROVE  T \in P
    BY <1>1, <2>1
  <2> HIDE DEF P
  <2> QED
    BY <2>1, SubsetInduction
<1> QED
  BY <1>2

LEMMA TotalOfSame ==
    ASSUME NEW S, IsFiniteSet(S), NEW f, NEW g, \A x \in S : f[x] = g[x]
    PROVE  Total(f, S) = Total(g, S)
<1> DEFINE P == {T \in SUBSET S : Total(f, T) = Total(g, T)}
<1>1. ASSUME NEW T \in SUBSET S, \A U \in SUBSET T : U # T => U \in P
      PROVE  T \in P
  <2>1. CASE T = {}
    BY <2>1, TotalEmpty
  <2>2. CASE T # {}
    <3>1. Some(T) \in T /\ IsFiniteSet(T)
      BY <2>2, SomeInside, FS_Subset
    <3>2. T \ {Some(T)} \in P
      BY <1>1, <3>1
    <3>3. /\ Total(f, T) = f[Some(T)] + Total(f, T \ {Some(T)})
          /\ Total(g, T) = g[Some(T)] + Total(g, T \ {Some(T)})
      BY <2>2, <3>1, TotalStep
    <3> QED
      BY <3>1, <3>2, <3>3
  <2> QED
    BY <2>1, <2>2
<1>2. SUBSET S \subseteq P
  <2> HIDE DEF P
  <2> QED
    BY <1>1, SubsetInduction
<1> QED
  BY <1>2

LEMMA TotalOfZeros ==
    ASSUME NEW S, IsFiniteSet(S), NEW f, \A x \in S : f[x] = 0
    PROVE  Total(f, S) = 0
<1> DEFINE P == {T \in SUBSET S : Total(f, T) = 0}
<1>1. ASSUME NEW T \in SUBSET S, \A U \in SUBSET T : U # T => U \in P
      PROVE  T \in P
  <2>1. CASE T = {}
    BY <2>1, TotalEmpty
  <2>2. CASE T # {}
    <3>1. Some(T) \in T /\ IsFiniteSet(T)
      BY <2>2, SomeInside, FS_Subset
    <3>2. T \ {Some(T)} \in P
      BY <1>1, <3>1
    <3>3. Total(f, T) = f[Some(T)] + Total(f, T \ {Some(T)})
      BY <2>2, <3>1, TotalStep
    <3> QED
      BY <3>1, <3>2, <3>3
  <2> QED
    BY <2>1, <2>2
<1>2. SUBSET S \subseteq P
  <2> HIDE DEF P
  <2> QED
    BY <1>1, SubsetInduction
<1> QED
  BY <1>2

\* The sum of the sums is the sum over all.
LEMMA TotalOfPlus ==
    ASSUME NEW S, IsFiniteSet(S), NEW f, NEW g, NEW h,
           \A x \in S : f[x] \in Int /\ g[x] \in Int /\ h[x] = f[x] + g[x]
    PROVE  Total(h, S) = Total(f, S) + Total(g, S)
<1> DEFINE P == {T \in SUBSET S : Total(h, T) = Total(f, T) + Total(g, T)}
<1>1. ASSUME NEW T \in SUBSET S, \A U \in SUBSET T : U # T => U \in P
      PROVE  T \in P
  <2>1. CASE T = {}
    BY <2>1, TotalEmpty
  <2>2. CASE T # {}
    <3> DEFINE x == Some(T)
               V == T \ {x}
    <3>1. x \in T /\ IsFiniteSet(T) /\ IsFiniteSet(V)
      BY <2>2, SomeInside, FS_Subset
    <3>2. Total(h, V) = Total(f, V) + Total(g, V)
      BY <1>1, <3>1
    <3>3. /\ Total(f, T) = f[x] + Total(f, V)
          /\ Total(g, T) = g[x] + Total(g, V)
          /\ Total(h, T) = h[x] + Total(h, V)
      BY <2>2, <3>1, TotalStep
    <3>4. Total(f, V) \in Int /\ Total(g, V) \in Int
      BY <3>1, TotalType
    <3>5. f[x] \in Int /\ g[x] \in Int /\ h[x] = f[x] + g[x]
      BY <3>1
    <3> HIDE DEF x, V
    <3>6. Total(h, T) = Total(f, T) + Total(g, T)
      BY <3>2, <3>3, <3>4, <3>5
    <3> QED
      BY <3>6
  <2> QED
    BY <2>1, <2>2
<1>2. SUBSET S \subseteq P
  <2> HIDE DEF P
  <2> QED
    BY <1>1, SubsetInduction
<1> QED
  BY <1>2

\* What is 0 outside of R adds up to the sum over R.
LEMMA TotalOfPart ==
    ASSUME NEW S, IsFiniteSet(S), NEW R \in SUBSET S, NEW f, NEW g,
           \A x \in S : f[x] \in Int /\ g[x] = IF x \in R THEN f[x] ELSE 0
    PROVE  Total(g, S) = Total(f, R)
<1> DEFINE P == {T \in SUBSET S : Total(g, T) = Total(f, T \cap R)}
<1>1. ASSUME NEW T \in SUBSET S, \A U \in SUBSET T : U # T => U \in P
      PROVE  T \in P
  <2>1. CASE T = {}
    <3>1. T \cap R = {}
      BY <2>1
    <3> QED
      BY <2>1, <3>1, TotalEmpty
  <2>2. CASE T # {}
    <3> DEFINE x == Some(T)
               V == T \ {x}
    <3>1. x \in T /\ IsFiniteSet(T)
      BY <2>2, SomeInside, FS_Subset
    <3>2. Total(g, V) = Total(f, V \cap R)
      BY <1>1, <3>1
    <3>3. Total(g, T) = g[x] + Total(g, V)
      BY <2>2, <3>1, TotalStep
    <3>4. IsFiniteSet(V \cap R) /\ IsFiniteSet(T \cap R)
      BY <3>1, FS_Subset
    <3>5. Total(f, V \cap R) \in Int
      BY <3>4, TotalType
    <3>6. CASE x \in R
      <4>1. (T \cap R) \ {x} = V \cap R /\ x \in T \cap R
        BY <3>1, <3>6
      <4>2. \A y \in T \cap R : f[y] \in Int
        OBVIOUS
      <4>3. Total(f, T \cap R) = f[x] + Total(f, (T \cap R) \ {x})
        BY <3>4, <4>1, <4>2, TotalTakeOut
      <4> QED
        BY <3>1, <3>2, <3>3, <3>6, <4>1, <4>3
    <3>7. CASE x \notin R
      <4>1. T \cap R = V \cap R /\ g[x] = 0
        BY <3>1, <3>7
      <4>2. Total(f, T \cap R) = Total(f, V \cap R)
        BY <4>1
      <4>3. Total(g, T) = Total(f, V \cap R)
        BY <3>2, <3>3, <3>5, <4>1
      <4> QED
        BY <4>2, <4>3
    <3> QED
      BY <3>6, <3>7
  <2> QED
    BY <2>1, <2>2
<1>2. SUBSET S \subseteq P
  <2> HIDE DEF P
  <2> QED
    BY <1>1, SubsetInduction
<1>3. S \cap R = R
  OBVIOUS
<1> QED
  BY <1>2, <1>3

\* Taking t off one element takes it off the sum.
LEMMA TotalOfLess ==
    ASSUME NEW S, IsFiniteSet(S), NEW f, NEW g, NEW y \in S, NEW t \in Int,
           \A x \in S : /\ f[x] \in Int
                        /\ g[x] = IF x = y THEN f[x] - t ELSE f[x]
    PROVE  Total(g, S) = Total(f, S) - t
<1> DEFINE V == S \ {y}
<1>1. IsFiniteSet(V)
  BY FS_Subset
<1>2. Total(g, V) = Total(f, V)
  BY <1>1, TotalOfSame
<1>3. /\ Total(f, S) = f[y] + Total(f, V)
      /\ Total(g, S) = g[y] + Total(g, V)
  <2>1. \A x \in S : f[x] \in Int /\ g[x] \in Int
    OBVIOUS
  <2> QED
    BY <2>1, TotalTakeOut
<1>4. Total(f, V) \in Int /\ f[y] \in Int /\ g[y] = f[y] - t
  BY <1>1, TotalType
<1> QED
  BY <1>2, <1>3, <1>4
----------------------------------------------------------------------------
(* The least and the greatest.                                             *)

LEMMA LeastExists ==
    ASSUME NEW S \in SUBSET Nat, S # {}
    PROVE  Min(S) \in S /\ \A y \in S : Min(S) <= y
<1> DEFINE less == OpToRel(<, Nat)
<1>1. IsWellFoundedOn(less, Nat)
  BY NatLessThanWellFounded
<1> HIDE DEF less
<1>2. PICK x \in S : \A y \in S : ~ (<<y, x>> \in less)
  BY <1>1, WFMin
<1>3. \A y \in S : ~ (y < x)
  BY <1>2 DEF less, OpToRel
<1>4. \A y \in S : x <= y
  BY <1>3
<1> QED
  BY <1>4 DEF Min

\* Some element of a finite set has the greatest f.
LEMMA GreatestExists ==
    ASSUME NEW S, IsFiniteSet(S), S # {}, NEW f, \A x \in S : f[x] \in Int
    PROVE  \E x \in S : \A y \in S : f[y] <= f[x]
<1> DEFINE P == {T \in SUBSET S : T # {} => \E x \in T : \A y \in T : f[y] <= f[x]}
<1>1. ASSUME NEW T \in SUBSET S, \A U \in SUBSET T : U # T => U \in P, T # {}
      PROVE  \E x \in T : \A y \in T : f[y] <= f[x]
  <2>1. PICK z \in T : TRUE
    BY <1>1
  <2>2. T \ {z} \in P /\ f[z] \in Int
    BY <1>1
  <2>3. CASE T \ {z} = {}
    BY <2>2, <2>3
  <2>4. CASE T \ {z} # {}
    <3>1. PICK x \in T \ {z} : \A y \in T \ {z} : f[y] <= f[x]
      BY <2>2, <2>4
    <3>2. f[x] \in Int /\ \A y \in T : f[y] \in Int
      BY <3>1
    <3>3. CASE f[z] <= f[x]
      BY <3>1, <3>3
    <3>4. CASE f[x] < f[z]
      BY <2>2, <3>1, <3>2, <3>4
    <3> QED
      BY <2>2, <3>2, <3>3, <3>4
  <2> QED
    BY <2>3, <2>4
<1>2. SUBSET S \subseteq P
  <2>1. ASSUME NEW T \in SUBSET S, \A U \in SUBSET T : U # T => U \in P
        PROVE  T \in P
    BY <1>1, <2>1
  <2> HIDE DEF P
  <2> QED
    BY <2>1, SubsetInduction
<1> QED
  BY <1>2
----------------------------------------------------------------------------
CallerType ==
    [pc : {"idle", "testing", "picking", "using", "refused"},
     tier : 0..256, tested : SUBSET Bindings, passed : SUBSET Bindings,
     chosen : Bindings \cup {None}, key : Keys \cup {None}, steady : SUBSET Bindings]

Typed ==
    /\ breaker \in [Bindings -> BreakerType]
    /\ weight \in [Bindings -> Int]
    /\ caller \in [Callers -> CallerType]

\* A caller keeps to its tier and to what has passed in it.
InItsTier(c) ==
    /\ caller[c].passed \subseteq caller[c].tested \cap Enabled
    /\ caller[c].tested \subseteq Tier(caller[c].tier)
    /\ caller[c].pc = "picking" => caller[c].passed # {}
    /\ caller[c].pc = "using" => caller[c].chosen \in Enabled

\* What was available all along is available now, is in no tier that the
\* caller has left, and passed if it was tested.
NoneOverlooked(c) ==
    /\ \A b \in caller[c].steady : b \in Enabled /\ CanExecute(breaker[b], Now)
    /\ caller[c].pc \in {"testing", "picking"} =>
          \A b \in caller[c].steady :
             /\ Priority[b] >= caller[c].tier
             /\ b \in caller[c].tested => b \in caller[c].passed
    /\ caller[c].pc = "using" =>
          \A b \in caller[c].steady : Priority[caller[c].chosen] <= Priority[b]
    /\ caller[c].pc = "refused" => caller[c].steady = {}

CallerInv(c) == InItsTier(c) /\ NoneOverlooked(c)

Inv == Typed /\ \A c \in Callers : CallerInv(c)
----------------------------------------------------------------------------
(* The tiers.                                                              *)

LEMMA GroupTypes ==
    \A b \in Bindings : Weight[b] \in Int /\ Priority[b] \in 0..255
<1>1. Weight \in [Bindings -> 1..255] /\ Priority \in [Bindings -> 0..255]
  BY GroupAssumption
<1> QED
  BY <1>1

LEMMA NextTierIsLeast ==
    ASSUME NEW p \in Nat
    PROVE  /\ NextTier(p) \in 0..256
           /\ \A b \in Bindings : Priority[b] >= p => Priority[b] >= NextTier(p)
           /\ NextTier(p) = 256 => \A b \in Bindings : ~ (Priority[b] >= p)
<1> DEFINE S == {t \in Tiers : t >= p} \cup {256}
<1>1. \A b \in Bindings : Priority[b] \in 0..255
  BY GroupTypes
<1>2. S \in SUBSET Nat /\ S # {} /\ S \subseteq 0..256
  BY <1>1 DEF Tiers
<1>3. NextTier(p) = Min(S)
  BY DEF NextTier
<1>4. \A b \in Bindings : Priority[b] >= p => Priority[b] \in S
  BY DEF Tiers
<1> HIDE DEF S
<1>5. Min(S) \in S /\ \A y \in S : Min(S) <= y
  BY <1>2, LeastExists
<1>6. Min(S) \in 0..256 /\ \A b \in Bindings : Priority[b] >= p => Min(S) <= Priority[b]
  BY <1>2, <1>4, <1>5
<1> QED
  BY <1>1, <1>3, <1>6

\* A winner is one of the candidates, and none is ahead of it.
LEMMA WinnerAmong ==
    ASSUME Typed, NEW S \in SUBSET Bindings, S # {}
    PROVE  Winner(S) \in S /\ \A a \in S : Raised(S)[a] <= Raised(S)[Winner(S)]
<1> DEFINE best == {b \in S : \A a \in S : Raised(S)[a] <= Raised(S)[b]}
<1>1. \A b \in S : Raised(S)[b] \in Int
  BY GroupTypes DEF Typed, Raised
<1>2. IsFiniteSet(S)
  BY GroupAssumption, FS_Subset
<1>3. best # {}
  <2>1. \E b \in S : \A a \in S : Raised(S)[a] <= Raised(S)[b]
    BY <1>1, <1>2, GreatestExists
  <2> QED
    BY <2>1
<1>4. best \in SUBSET Nat
  BY GroupAssumption
<1>5. Min(best) \in best
  <2> HIDE DEF best
  <2> QED
    BY <1>3, <1>4, LeastExists
<1> QED
  BY <1>5 DEF Winner

LEMMA TotalWeightIsTotal ==
    ASSUME NEW S
    PROVE  TotalWeight(S) = Total(Weight, S)
  BY DEF TotalWeight, Total

LEMMA TotalWeightType ==
    ASSUME NEW S \in SUBSET Bindings
    PROVE  TotalWeight(S) \in Int
<1>1. IsFiniteSet(S)
  BY GroupAssumption, FS_Subset
<1>2. \A b \in S : Weight[b] \in Int
  BY GroupTypes
<1> QED
  BY <1>1, <1>2, TotalType, TotalWeightIsTotal

LEMMA NowType == Now \in Nat
  BY BreakerAssumption DEF Now
----------------------------------------------------------------------------
(* The invariant.                                                          *)

LEMMA InitInv == Init => Inv
<1> SUFFICES ASSUME Init PROVE Inv
  OBVIOUS
<1>1. Idle \in CallerType
  BY DEF Idle, CallerType
<1>2. Typed
  BY <1>1, NewBreakerType DEF Init, Typed
<1>3. \A c \in Callers : CallerInv(c)
  BY DEF Init, Idle, CallerInv, InItsTier, NoneOverlooked
<1> QED
  BY <1>2, <1>3 DEF Inv

\* A step that leaves a caller alone, and makes no breaker refuse, leaves what
\* is known of the caller.
LEMMA LeftAlone ==
    ASSUME NEW c \in Callers, CallerInv(c), caller'[c] = caller[c],
           \A b \in caller[c].steady :
              CanExecute(breaker[b], Now) => CanExecute(breaker'[b], Now)
    PROVE  CallerInv(c)'
<1>1. InItsTier(c)'
  BY DEF CallerInv, InItsTier, Tier
<1>2. NoneOverlooked(c)'
  BY DEF CallerInv, NoneOverlooked, CanExecute, CheckAndUpdate, TransitionTo,
         Elapsed, Now
<1> QED
  BY <1>1, <1>2 DEF CallerInv

LEMMA BeginSelectInv ==
    ASSUME Inv, NEW c \in Callers, NEW min \in 0..1, BeginSelect(c, min)
    PROVE  Inv'
<1> DEFINE steady == {b \in Bindings : Priority[b] >= min /\ Passes(b)}
           pc == IF NextTier(min) = 256 THEN "refused" ELSE "testing"
           q == [Idle EXCEPT !.pc = pc, !.tier = NextTier(min), !.steady = steady]
<1>1. Typed
  BY DEF Inv
<1>2. /\ caller' = [caller EXCEPT ![c] = q]
      /\ breaker' = breaker /\ weight' = weight
  BY DEF BeginSelect
<1>3. /\ NextTier(min) \in 0..256
      /\ \A b \in Bindings : Priority[b] >= min => Priority[b] >= NextTier(min)
      /\ NextTier(min) = 256 => \A b \in Bindings : ~ (Priority[b] >= min)
  BY NextTierIsLeast
<1>4. /\ \A b \in steady : /\ b \in Enabled /\ CanExecute(breaker[b], Now)
                           /\ Priority[b] >= NextTier(min)
      /\ pc = "refused" => steady = {}
      /\ pc \in {"refused", "testing"}
      /\ steady \subseteq Bindings
  BY <1>3 DEF Passes
<1> HIDE DEF steady, pc
<1>5. /\ q \in CallerType
      /\ q.pc = pc /\ q.tier = NextTier(min) /\ q.steady = steady
      /\ q.tested = {} /\ q.passed = {}
  BY <1>3, <1>4 DEF Idle, CallerType
<1> HIDE DEF q
<1>6. Typed' /\ caller'[c] = q /\ \A d \in Callers : d # c => caller'[d] = caller[d]
  BY <1>1, <1>2, <1>5 DEF Typed
<1>7. InItsTier(c)'
  BY <1>4, <1>5, <1>6 DEF InItsTier
<1>8. NoneOverlooked(c)'
  BY <1>2, <1>4, <1>5, <1>6 DEF NoneOverlooked, CanExecute, CheckAndUpdate,
     TransitionTo, Elapsed, Now
<1>9. ASSUME NEW d \in Callers, d # c
      PROVE  CallerInv(d)'
  BY <1>2, <1>6, <1>9, LeftAlone DEF Inv
<1> QED
  BY <1>6, <1>7, <1>8, <1>9 DEF Inv, CallerInv

LEMMA TestAvailableInv ==
    ASSUME Inv, NEW c \in Callers, TestAvailable(c)
    PROVE  Inv'
<1> DEFINE left == Tier(caller[c].tier) \ caller[c].tested
           b == Min(left)
           passed == IF Passes(b) THEN caller[c].passed \cup {b} ELSE caller[c].passed
           q == [caller[c] EXCEPT !.tested = @ \cup {b}, !.passed = passed]
<1>1. Typed /\ CallerInv(c) /\ caller[c] \in CallerType
  BY DEF Inv, Typed
<1>2. /\ caller[c].pc = "testing" /\ left # {} /\ weight' = weight
      /\ caller' = [caller EXCEPT ![c] = q]
      /\ breaker' = IF b \in Enabled
                    THEN [breaker EXCEPT ![b] = CheckAndUpdate(@, Now)]
                    ELSE breaker
  BY <1>1 DEF TestAvailable, Typed, CallerType
<1>3. b \in left
  <2>1. left \in SUBSET Nat
    BY GroupAssumption DEF Tier
  <2> HIDE DEF left
  <2> QED
    BY <1>2, <2>1, LeastExists
<1>4. b \in Bindings /\ b \in Tier(caller[c].tier) /\ b \notin caller[c].tested
  BY <1>3 DEF Tier
<1> HIDE DEF b
<1>5. /\ breaker' \in [Bindings -> BreakerType]
      /\ \A a \in Bindings :
            CanExecute(breaker[a], Now) => CanExecute(breaker'[a], Now)
  <2>1. \A a \in Bindings : breaker[a] \in BreakerType
    BY <1>1 DEF Typed
  <2>2. /\ CheckAndUpdate(breaker[b], Now) \in BreakerType
        /\ CanExecute(breaker[b], Now) => CanExecute(CheckAndUpdate(breaker[b], Now), Now)
    BY <1>4, <2>1, NowType, CheckAndUpdateKeeps
  <2> QED
    BY <1>1, <1>2, <1>4, <2>1, <2>2 DEF Typed
<1>6. passed \subseteq Bindings /\ passed \subseteq caller[c].passed \cup {b}
      /\ (b \in passed => b \in Enabled) /\ (Passes(b) => b \in passed)
      /\ caller[c].passed \subseteq passed
  BY <1>1, <1>4 DEF CallerType, CallerInv, InItsTier, Passes
<1> HIDE DEF passed
<1>7. /\ q \in CallerType
      /\ q.pc = "testing" /\ q.tier = caller[c].tier /\ q.steady = caller[c].steady
      /\ q.tested = caller[c].tested \cup {b} /\ q.passed = passed
  BY <1>1, <1>2, <1>4, <1>6 DEF CallerType
<1> HIDE DEF q
<1>8. Typed' /\ caller'[c] = q /\ \A d \in Callers : d # c => caller'[d] = caller[d]
  BY <1>1, <1>2, <1>5, <1>7 DEF Typed
<1>9. InItsTier(c)'
  BY <1>1, <1>4, <1>6, <1>7, <1>8 DEF CallerInv, InItsTier, Tier
<1>10. NoneOverlooked(c)'
  <2>1. \A a \in caller[c].steady : /\ a \in Enabled
                                    /\ CanExecute(breaker[a], Now)
                                    /\ CanExecute(breaker'[a], Now)
                                    /\ Priority[a] >= caller[c].tier
                                    /\ a \in caller[c].tested => a \in caller[c].passed
    BY <1>1, <1>2, <1>5 DEF CallerInv, NoneOverlooked, CallerType
  <2>2. \A a \in caller[c].steady : a \in q.tested => a \in q.passed
    BY <1>6, <1>7, <2>1 DEF Passes
  <2> QED
    BY <1>7, <1>8, <2>1, <2>2 DEF NoneOverlooked, CanExecute, CheckAndUpdate,
       TransitionTo, Elapsed, Now
<1>11. ASSUME NEW d \in Callers, d # c
       PROVE  CallerInv(d)'
  <2>1. caller[d].steady \subseteq Bindings
    BY <1>1 DEF Typed, CallerType
  <2> QED
    BY <1>5, <1>8, <1>11, <2>1, LeftAlone DEF Inv
<1> QED
  BY <1>8, <1>9, <1>10, <1>11 DEF Inv, CallerInv

LEMMA EndOfTierInv ==
    ASSUME Inv, NEW c \in Callers, EndOfTier(c)
    PROVE  Inv'
<1> DEFINE next == NextTier(caller[c].tier + 1)
<1>1. Typed /\ CallerInv(c) /\ caller[c] \in CallerType
  BY DEF Inv, Typed
<1>2. /\ caller[c].pc = "testing" /\ breaker' = breaker /\ weight' = weight
      /\ Tier(caller[c].tier) \subseteq caller[c].tested
  BY DEF EndOfTier
<1>3. \A b \in caller[c].steady : /\ b \in Bindings
                                  /\ Priority[b] >= caller[c].tier
                                  /\ Priority[b] \in 0..255
                                  /\ b \in caller[c].tested => b \in caller[c].passed
  <2>1. \A b \in caller[c].steady :
           /\ Priority[b] >= caller[c].tier
           /\ b \in caller[c].tested => b \in caller[c].passed
    BY <1>1, <1>2 DEF CallerInv, NoneOverlooked
  <2>2. caller[c].steady \subseteq Bindings
    BY <1>1 DEF CallerType
  <2>3. \A b \in Bindings : Priority[b] \in 0..255
    BY GroupAssumption
  <2> QED
    BY <2>1, <2>2, <2>3
<1>4. /\ next \in 0..256
      /\ \A b \in Bindings : Priority[b] >= caller[c].tier + 1 => Priority[b] >= next
      /\ next = 256 => \A b \in Bindings : ~ (Priority[b] >= caller[c].tier + 1)
  <2>1. caller[c].tier + 1 \in Nat
    BY <1>1 DEF CallerType
  <2> QED
    BY <2>1, NextTierIsLeast
<1>5. caller[c].passed = {} => \A b \in caller[c].steady :
                                  Priority[b] >= caller[c].tier + 1
  <2>1. ASSUME NEW b \in caller[c].steady, caller[c].passed = {}
        PROVE  Priority[b] >= caller[c].tier + 1
    <3>1. b \notin Tier(caller[c].tier)
      BY <1>2, <1>3, <2>1
    <3>2. Priority[b] # caller[c].tier /\ caller[c].tier \in 0..256
      BY <1>1, <1>3, <3>1 DEF Tier, CallerType
    <3>3. Priority[b] >= caller[c].tier /\ Priority[b] \in 0..255
      BY <1>3
    <3>4. \A m, n \in Int : m >= n => m = n \/ m >= n + 1
      OBVIOUS
    <3>5. Priority[b] \in Int /\ caller[c].tier \in Int
      BY <3>2, <3>3
    <3> QED
      BY <3>2, <3>3, <3>4, <3>5
  <2> QED
    BY <2>1
<1> HIDE DEF next
<1>6. PICK q : /\ caller' = [caller EXCEPT ![c] = q]
               /\ q \in CallerType
               /\ q.steady = caller[c].steady /\ q.passed = caller[c].passed
               /\ \/ /\ q.pc = "picking" /\ caller[c].passed # {}
                     /\ q.tier = caller[c].tier /\ q.tested = caller[c].tested
                  \/ /\ q.pc = "testing" /\ caller[c].passed = {}
                     /\ q.tier = next /\ q.tested = {}
                  \/ /\ q.pc = "refused" /\ caller[c].passed = {} /\ next = 256
                     /\ q.tier = caller[c].tier /\ q.tested = caller[c].tested
  <2>1. CASE caller[c].passed # {}
    <3> DEFINE q == [caller[c] EXCEPT !.pc = "picking"]
    <3>1. caller' = [caller EXCEPT ![c] = q] /\ q \in CallerType
      BY <1>1, <2>1 DEF EndOfTier, Typed, CallerType
    <3>2. /\ q.pc = "picking" /\ q.tier = caller[c].tier
          /\ q.tested = caller[c].tested /\ q.passed = caller[c].passed
          /\ q.steady = caller[c].steady
      BY <1>1 DEF CallerType
    <3> QED
      BY <2>1, <3>1, <3>2
  <2>2. CASE caller[c].passed = {} /\ next # 256
    <3> DEFINE q == [caller[c] EXCEPT !.tier = next, !.tested = {}]
    <3>1. caller' = [caller EXCEPT ![c] = q] /\ q \in CallerType
      BY <1>1, <1>4, <2>2 DEF EndOfTier, Typed, CallerType, next
    <3>2. /\ q.pc = "testing" /\ q.tier = next
          /\ q.tested = {} /\ q.passed = caller[c].passed
          /\ q.steady = caller[c].steady
      BY <1>1, <1>2 DEF CallerType
    <3> QED
      BY <2>2, <3>1, <3>2
  <2>3. CASE caller[c].passed = {} /\ next = 256
    <3> DEFINE q == [caller[c] EXCEPT !.pc = "refused"]
    <3>1. caller' = [caller EXCEPT ![c] = q] /\ q \in CallerType
      BY <1>1, <2>3 DEF EndOfTier, Typed, CallerType, next
    <3>2. /\ q.pc = "refused" /\ q.tier = caller[c].tier
          /\ q.tested = caller[c].tested /\ q.passed = caller[c].passed
          /\ q.steady = caller[c].steady
      BY <1>1 DEF CallerType
    <3> QED
      BY <2>3, <3>1, <3>2
  <2> QED
    BY <2>1, <2>2, <2>3
<1>7. Typed' /\ caller'[c] = q /\ \A d \in Callers : d # c => caller'[d] = caller[d]
  BY <1>1, <1>2, <1>6 DEF Typed
<1>8. InItsTier(c)'
  BY <1>1, <1>6, <1>7 DEF CallerInv, InItsTier, Tier
<1>9. NoneOverlooked(c)'
  <2>1. \A b \in q.steady : b \in Enabled /\ CanExecute(breaker'[b], Now)
    BY <1>1, <1>2, <1>6 DEF CallerInv, NoneOverlooked
  <2>2. q.pc \in {"testing", "picking"} =>
           \A b \in q.steady : /\ Priority[b] >= q.tier
                               /\ b \in q.tested => b \in q.passed
    BY <1>3, <1>4, <1>5, <1>6
  <2>3. q.pc = "refused" => q.steady = {}
    BY <1>3, <1>4, <1>5, <1>6
  <2>4. q.pc # "using"
    BY <1>6
  <2> QED
    BY <1>7, <2>1, <2>2, <2>3, <2>4 DEF NoneOverlooked, CanExecute, CheckAndUpdate,
       TransitionTo, Elapsed, Now
<1>10. ASSUME NEW d \in Callers, d # c
       PROVE  CallerInv(d)'
  BY <1>2, <1>7, <1>10, LeftAlone DEF Inv
<1> QED
  BY <1>7, <1>8, <1>9, <1>10 DEF Inv, CallerInv

\* A choice among S: where the running weights go.
LEMMA PickEffect ==
    ASSUME Inv, NEW c \in Callers, PickSwrr(c)
    PROVE  /\ caller[c].passed \subseteq Bindings
           /\ Winner(caller[c].passed) \in caller[c].passed
           /\ TotalWeight(caller[c].passed) \in Int
           /\ Raised(caller[c].passed) \in [Bindings -> Int]
           /\ weight' \in [Bindings -> Int]
           /\ \A b \in Bindings :
                 weight'[b] = IF b = Winner(caller[c].passed)
                              THEN Raised(caller[c].passed)[b]
                                      - TotalWeight(caller[c].passed)
                              ELSE Raised(caller[c].passed)[b]
<1> DEFINE S == caller[c].passed
<1>1. Typed /\ CallerInv(c) /\ caller[c] \in CallerType /\ caller[c].pc = "picking"
  BY DEF Inv, Typed, PickSwrr
<1>2. S \in SUBSET Bindings /\ S # {}
  BY <1>1 DEF CallerInv, InItsTier, CallerType
<1>3. weight' = [Raised(S) EXCEPT ![Winner(S)] = @ - TotalWeight(S)]
  BY DEF PickSwrr
<1> HIDE DEF S
<1>4. Winner(S) \in S /\ TotalWeight(S) \in Int
  BY <1>1, <1>2, WinnerAmong, TotalWeightType
<1>5. Raised(S) \in [Bindings -> Int]
  <2>1. Weight \in [Bindings -> 1..255]
    BY GroupAssumption
  <2>2. \A b \in Bindings : weight[b] \in Int /\ Weight[b] \in Int
    BY <1>1, <2>1 DEF Typed
  <2> QED
    BY <2>2 DEF Raised
<1>6. /\ weight' \in [Bindings -> Int]
      /\ \A b \in Bindings :
            weight'[b] = IF b = Winner(S) THEN Raised(S)[b] - TotalWeight(S)
                                          ELSE Raised(S)[b]
  BY <1>2, <1>3, <1>4, <1>5
<1> QED
  BY <1>2, <1>4, <1>5, <1>6 DEF S

\* Whoever is picked among those that passed, the invariant holds.
LEMMA PickedInv ==
    ASSUME Inv, NEW c \in Callers, caller[c].pc = "picking",
           NEW w \in caller[c].passed, NEW q \in CallerType,
           q.pc = "using", q.chosen = w, q.steady = caller[c].steady,
           q.tested = {}, q.passed = {},
           caller' = [caller EXCEPT ![c] = q], breaker' = breaker,
           weight' \in [Bindings -> Int]
    PROVE  Inv'
<1>1. Typed /\ CallerInv(c) /\ caller[c] \in CallerType
  BY DEF Inv, Typed
<1>2. Typed' /\ caller'[c] = q /\ \A d \in Callers : d # c => caller'[d] = caller[d]
  BY <1>1 DEF Typed
<1>3. w \in Enabled /\ Priority[w] = caller[c].tier
  BY <1>1 DEF CallerInv, InItsTier, Tier
<1>4. InItsTier(c)'
  BY <1>2, <1>3 DEF InItsTier
<1>5. NoneOverlooked(c)'
  <2>1. \A b \in q.steady : /\ b \in Enabled /\ CanExecute(breaker'[b], Now)
                            /\ Priority[b] >= caller[c].tier
    BY <1>1 DEF CallerInv, NoneOverlooked
  <2>2. \A b \in q.steady : Priority[w] <= Priority[b]
    BY <1>3, <2>1
  <2> QED
    BY <1>2, <2>1, <2>2 DEF NoneOverlooked, CanExecute, CheckAndUpdate,
       TransitionTo, Elapsed, Now
<1>6. ASSUME NEW d \in Callers, d # c
      PROVE  CallerInv(d)'
  BY <1>2, <1>6, LeftAlone DEF Inv
<1> QED
  BY <1>2, <1>4, <1>5, <1>6 DEF Inv, CallerInv

\* What a caller is that uses b.
LEMMA UserType ==
    ASSUME NEW b \in Bindings, NEW k \in Keys \cup {None}, NEW s \in SUBSET Bindings
    PROVE  /\ UserOf(b, k, s) \in CallerType
           /\ UserOf(b, k, s).pc = "using" /\ UserOf(b, k, s).chosen = b
           /\ UserOf(b, k, s).steady = s /\ UserOf(b, k, s).key = k
           /\ UserOf(b, k, s).tested = {} /\ UserOf(b, k, s).passed = {}
<1>1. UserOf(b, k, s).pc = "using" /\ UserOf(b, k, s).chosen = b
  BY DEF Idle, UserOf
<1>2. UserOf(b, k, s).steady = s /\ UserOf(b, k, s).key = k
  BY DEF Idle, UserOf
<1>3. UserOf(b, k, s).tested = {} /\ UserOf(b, k, s).passed = {}
  BY DEF Idle, UserOf
<1>4. Idle \in CallerType
  BY DEF Idle, CallerType
<1>5. UserOf(b, k, s) \in CallerType
  BY <1>4 DEF CallerType, UserOf
<1> QED
  BY <1>1, <1>2, <1>3, <1>5

LEMMA PickSwrrInv ==
    ASSUME Inv, NEW c \in Callers, PickSwrr(c)
    PROVE  Inv'
<1> DEFINE w == Winner(caller[c].passed)
           s == caller[c].steady
           q == UserOf(w, None, s)
<1>1. /\ caller[c].pc = "picking" /\ breaker' = breaker
      /\ caller' = [caller EXCEPT ![c] = q]
  BY DEF PickSwrr
<1>2. w \in caller[c].passed /\ w \in Bindings /\ weight' \in [Bindings -> Int]
  BY PickEffect
<1>3. s \in SUBSET Bindings
  BY DEF Inv, Typed, CallerType
<1> HIDE DEF w, s
<1>4. /\ q \in CallerType /\ q.pc = "using" /\ q.chosen = w
      /\ q.steady = s /\ q.tested = {} /\ q.passed = {}
  BY <1>2, <1>3, UserType
<1>5. q.steady = caller[c].steady
  BY <1>4 DEF s
<1> HIDE DEF q
<1> QED
  BY <1>1, <1>2, <1>4, <1>5, PickedInv

\* The lowest score is that of one of the candidates.
LEMMA LowestAmong ==
    ASSUME NEW S \in SUBSET Bindings, S # {}, NEW key \in Keys
    PROVE  LET w == Min(LowestScored(S, key))
           IN  w \in S /\ \A b \in S : Score[key][w] <= Score[key][b]
<1> DEFINE f == [b \in Bindings |-> -Score[key][b]]
           best == LowestScored(S, key)
<1>1. IsFiniteSet(S)
  BY GroupAssumption, FS_Subset
<1>2. \A b \in S : Score[key][b] \in Nat /\ f[b] \in Int /\ f[b] = -Score[key][b]
  BY GroupAssumption
<1> HIDE DEF f
<1>3. \E x \in S : \A y \in S : f[y] <= f[x]
  BY <1>1, <1>2, GreatestExists
<1>4. PICK x \in S : \A y \in S : f[y] <= f[x]
  BY <1>3
<1>5. \A y \in S : Score[key][x] <= Score[key][y]
  BY <1>2, <1>4
<1>6. best # {} /\ best \in SUBSET Nat
  BY <1>5, GroupAssumption DEF LowestScored
<1>7. Min(best) \in best
  <2> HIDE DEF best
  <2> QED
    BY <1>6, LeastExists
<1> QED
  BY <1>7 DEF LowestScored

LEMMA PickHashInv ==
    ASSUME Inv, NEW c \in Callers, NEW key \in Keys, PickHash(c, key)
    PROVE  Inv'
<1> DEFINE w == Min(LowestScored(caller[c].passed, key))
           s == caller[c].steady
           q == UserOf(w, key, s)
<1>1. /\ caller[c].pc = "picking" /\ breaker' = breaker /\ weight' = weight
      /\ caller' = [caller EXCEPT ![c] = q]
  BY DEF PickHash
<1>2. /\ caller[c].passed \in SUBSET Bindings /\ caller[c].passed # {}
      /\ weight' \in [Bindings -> Int] /\ s \in SUBSET Bindings
  BY <1>1 DEF Inv, Typed, CallerType, CallerInv, InItsTier
<1>3. w \in caller[c].passed /\ w \in Bindings
  BY <1>2, LowestAmong
<1> HIDE DEF w, s
<1>4. /\ q \in CallerType /\ q.pc = "using" /\ q.chosen = w
      /\ q.steady = s /\ q.tested = {} /\ q.passed = {}
  BY <1>2, <1>3, UserType
<1>5. q.steady = caller[c].steady
  BY <1>4 DEF s
<1> HIDE DEF q
<1> QED
  BY <1>1, <1>2, <1>3, <1>4, <1>5, PickedInv

LEMMA ReportInv ==
    ASSUME Inv, NEW c \in Callers, NEW success \in BOOLEAN, Report(c, success)
    PROVE  Inv'
<1> DEFINE u == caller[c].chosen
           brs == [breaker EXCEPT ![u] = RecordOutcome(@, success, Now)]
           still(q) == {b \in q.steady : CanExecute(brs[b], Now)}
           kept(q) == [q EXCEPT !.steady = still(q)]
           clr == [caller EXCEPT ![c] = Idle]
<1>1. Typed /\ CallerInv(c) /\ caller[c] \in CallerType
  BY DEF Inv, Typed
<1>2. /\ caller[c].pc = "using" /\ breaker' = brs /\ weight' = weight
      /\ caller' = [d \in Callers |-> kept(clr[d])]
  BY DEF Report, Steadied
<1>3. u \in Bindings
  BY <1>1, <1>2, GroupAssumption DEF CallerInv, InItsTier
<1>4. breaker' \in [Bindings -> BreakerType]
  <2>1. breaker[u] \in BreakerType
    BY <1>1, <1>3 DEF Typed
  <2>2. RecordOutcome(breaker[u], success, Now) \in BreakerType
    BY <2>1, NowType, OutcomeType
  <2> QED
    BY <1>1, <1>2, <2>2 DEF Typed
<1>5. Idle \in CallerType /\ \A d \in Callers : clr[d] \in CallerType
  BY <1>1 DEF Typed, Idle, CallerType
<1>6. ASSUME NEW q \in CallerType
      PROVE  /\ kept(q) \in CallerType
             /\ kept(q).pc = q.pc /\ kept(q).tier = q.tier /\ kept(q).tested = q.tested
             /\ kept(q).passed = q.passed /\ kept(q).chosen = q.chosen
             /\ kept(q).steady \subseteq q.steady
             /\ \A b \in kept(q).steady : CanExecute(breaker'[b], Now)
  <2>1. still(q) \subseteq q.steady /\ \A b \in still(q) : CanExecute(breaker'[b], Now)
    BY <1>2
  <2> HIDE DEF still
  <2> QED
    BY <2>1 DEF CallerType
<1>7. Typed'
  <2> HIDE DEF kept, clr
  <2> QED
    BY <1>1, <1>2, <1>4, <1>5, <1>6 DEF Typed
<1>8. ASSUME NEW d \in Callers
      PROVE  CallerInv(d)'
  <2>1. caller'[d] = kept(clr[d]) /\ clr[d] \in CallerType
    BY <1>2, <1>5
  <2>2. clr[d] = IF d = c THEN Idle ELSE caller[d]
    BY <1>1 DEF Typed
  <2> DEFINE q == clr[d]
             p == kept(q)
  <2>3. /\ p.pc = q.pc /\ p.tier = q.tier /\ p.tested = q.tested
        /\ p.passed = q.passed /\ p.chosen = q.chosen
        /\ p.steady \subseteq q.steady
        /\ \A b \in p.steady : CanExecute(breaker'[b], Now)
    BY <1>6, <2>1
  <2>4. CallerInv(d)
    BY DEF Inv
  <2>5. d = c => q.pc = "idle" /\ q.tested = {} /\ q.passed = {} /\ q.steady = {}
    BY <2>2 DEF Idle
  <2>6. d # c => q = caller[d]
    BY <2>2
  <2>7. caller'[d] = p
    BY <2>1
  <2> HIDE DEF p, q
  <2>8. InItsTier(d)'
    BY <2>3, <2>4, <2>5, <2>6, <2>7 DEF CallerInv, InItsTier, Tier
  <2>9. \A b \in p.steady : b \in Enabled /\ CanExecute(breaker'[b], Now)
    BY <2>3, <2>4, <2>5, <2>6 DEF CallerInv, NoneOverlooked
  <2>10. /\ p.pc \in {"testing", "picking"} =>
               \A b \in p.steady : /\ Priority[b] >= p.tier
                                   /\ b \in p.tested => b \in p.passed
         /\ p.pc = "using" => \A b \in p.steady : Priority[p.chosen] <= Priority[b]
         /\ p.pc = "refused" => p.steady = {}
    BY <2>3, <2>4, <2>5, <2>6 DEF CallerInv, NoneOverlooked
  <2>11. NoneOverlooked(d)'
    BY <2>7, <2>9, <2>10 DEF NoneOverlooked, CanExecute, CheckAndUpdate,
       TransitionTo, Elapsed, Now
  <2> QED
    BY <2>8, <2>11 DEF CallerInv
<1> QED
  BY <1>7, <1>8 DEF Inv

LEMMA GiveUpInv ==
    ASSUME Inv, NEW c \in Callers, GiveUp(c)
    PROVE  Inv'
<1>1. Typed /\ Idle \in CallerType
  BY DEF Inv, Idle, CallerType
<1>2. /\ caller' = [caller EXCEPT ![c] = Idle]
      /\ breaker' = breaker /\ weight' = weight
  BY DEF GiveUp
<1>3. Typed' /\ caller'[c] = Idle /\ \A d \in Callers : d # c => caller'[d] = caller[d]
  BY <1>1, <1>2 DEF Typed
<1>4. CallerInv(c)'
  BY <1>3 DEF CallerInv, InItsTier, NoneOverlooked, Idle
<1>5. ASSUME NEW d \in Callers, d # c
      PROVE  CallerInv(d)'
  BY <1>2, <1>3, <1>5, LeftAlone DEF Inv
<1> QED
  BY <1>3, <1>4, <1>5 DEF Inv

LEMMA AgeInv ==
    ASSUME Inv, Age
    PROVE  Inv'
<1>1. Typed
  BY DEF Inv
<1>2. /\ breaker' = [b \in Bindings |-> Older(breaker[b])]
      /\ weight' = weight /\ caller' = caller
  BY DEF Age, Older
<1>3. \A b \in Bindings : /\ Older(breaker[b]) \in BreakerType
                          /\ CanExecute(breaker[b], Now)
                                => CanExecute(Older(breaker[b]), Now)
  BY <1>1, NowType, OlderKeeps DEF Typed
<1>4. Typed'
  BY <1>1, <1>2, <1>3 DEF Typed
<1>5. ASSUME NEW c \in Callers
      PROVE  CallerInv(c)'
  <2>1. caller[c].steady \subseteq Bindings
    BY <1>1 DEF Typed, CallerType
  <2>2. \A b \in caller[c].steady :
           CanExecute(breaker[b], Now) => CanExecute(breaker'[b], Now)
    BY <1>2, <1>3, <2>1
  <2>3. caller'[c] = caller[c]
    BY <1>2
  <2> QED
    BY <2>2, <2>3, LeftAlone DEF Inv
<1> QED
  BY <1>4, <1>5 DEF Inv

LEMMA NextInv == Inv /\ [Next]_vars => Inv'
<1> SUFFICES ASSUME Inv, [Next]_vars PROVE Inv'
  OBVIOUS
<1>1. ASSUME NEW c \in Callers, NEW min \in 0..1, BeginSelect(c, min)
      PROVE  Inv'
  BY <1>1, BeginSelectInv
<1>2. ASSUME NEW c \in Callers, TestAvailable(c)
      PROVE  Inv'
  BY <1>2, TestAvailableInv
<1>3. ASSUME NEW c \in Callers, EndOfTier(c)
      PROVE  Inv'
  BY <1>3, EndOfTierInv
<1>4. ASSUME NEW c \in Callers, PickSwrr(c)
      PROVE  Inv'
  BY <1>4, PickSwrrInv
<1>9. ASSUME NEW c \in Callers, NEW key \in Keys, PickHash(c, key)
      PROVE  Inv'
  BY <1>9, PickHashInv
<1>5. ASSUME NEW c \in Callers, NEW success \in BOOLEAN, Report(c, success)
      PROVE  Inv'
  BY <1>5, ReportInv
<1>6. ASSUME NEW c \in Callers, GiveUp(c)
      PROVE  Inv'
  BY <1>6, GiveUpInv
<1>7. CASE Age
  BY <1>7, AgeInv
<1>8. CASE UNCHANGED vars
  <2>1. breaker' = breaker /\ weight' = weight /\ caller' = caller
    BY <1>8 DEF vars
  <2>2. Typed'
    BY <2>1 DEF Inv, Typed
  <2>3. \A c \in Callers : CallerInv(c)'
    BY <2>1, LeftAlone DEF Inv
  <2> QED
    BY <2>2, <2>3 DEF Inv
<1> QED
  BY <1>1, <1>2, <1>3, <1>4, <1>5, <1>6, <1>7, <1>8, <1>9 DEF Next

\* Every step of every caller keeps the invariant above: in particular, a test
\* of a binding against its breaker keeps what the earlier tests of the tier say.
THEOREM Invariance == Spec => []Inv
  BY InitInv, NextInv, PTL DEF Spec
----------------------------------------------------------------------------
\* What has passed was tested in the caller's tier, and only an enabled binding
\* is ever used.
THEOREM TypeCorrect == Spec => []TypeOK
<1>1. Inv /\ strategy \in Strategies => TypeOK
  BY DEF Inv, Typed, CallerType, CallerInv, InItsTier, TypeOK
<1>2. Init => strategy \in Strategies
  BY DEF Init
<1>3. strategy \in Strategies /\ [Next]_vars => (strategy \in Strategies)'
  BY DEF Next, vars
<1> QED
  BY <1>1, <1>2, <1>3, Invariance, PTL DEF Spec

\* No caller gets an upstream of a lower tier, or none at all, while one that it
\* may use was available all along.
THEOREM TierPreferenceHolds == Spec => []TierPreference
<1>1. Inv => TierPreference
  BY DEF Inv, CallerInv, NoneOverlooked, TierPreference
<1> QED
  BY <1>1, Invariance, PTL

\* The running weights always cancel out: a choice adds its candidates' weights
\* to them one by one, and takes them off the winner together.
THEOREM BalancedHolds == Spec => []Balanced
<1>1. Balanced <=> Total(weight, Bindings) = 0
  BY DEF Balanced, Total
<1>2. Init => Total(weight, Bindings) = 0
  <2> SUFFICES ASSUME Init
               PROVE  Total(weight, Bindings) = 0
    OBVIOUS
  <2>1. \A b \in Bindings : weight[b] = 0
    BY DEF Init
  <2>2. IsFiniteSet(Bindings)
    BY GroupAssumption
  <2> QED
    BY <2>1, <2>2, TotalOfZeros
<1>3. Inv /\ Total(weight, Bindings) = 0 /\ [Next]_vars => Total(weight', Bindings) = 0
  <2> SUFFICES ASSUME Inv, Total(weight, Bindings) = 0, [Next]_vars
               PROVE  Total(weight', Bindings) = 0
    OBVIOUS
  <2>1. CASE weight' = weight
    BY <2>1
  <2>2. ASSUME NEW c \in Callers, PickSwrr(c)
        PROVE  Total(weight', Bindings) = 0
    <3> DEFINE S == caller[c].passed
               w == Winner(S)
               t == TotalWeight(S)
               added == [b \in Bindings |-> IF b \in S THEN Weight[b] ELSE 0]
    <3>1. /\ S \subseteq Bindings /\ w \in S /\ t \in Int
          /\ Raised(S) \in [Bindings -> Int]
          /\ \A b \in Bindings : weight'[b] = IF b = w THEN Raised(S)[b] - t
                                                       ELSE Raised(S)[b]
      BY <2>2, PickEffect
    <3>2. IsFiniteSet(Bindings)
      BY GroupAssumption
    <3>3. \A b \in Bindings : weight[b] \in Int /\ Weight[b] \in Int
      BY GroupTypes DEF Inv, Typed
    <3> HIDE DEF S, w, t
    <3>4. Total(added, Bindings) = Total(Weight, S)
      <4>1. \A b \in Bindings :
               Weight[b] \in Int /\ added[b] = IF b \in S THEN Weight[b] ELSE 0
        BY <3>3
      <4> HIDE DEF added
      <4> QED
        BY <3>1, <3>2, <4>1, TotalOfPart
    <3>5. Total(Raised(S), Bindings) = Total(weight, Bindings) + Total(added, Bindings)
      <4>1. \A b \in Bindings : /\ weight[b] \in Int /\ added[b] \in Int
                                /\ Raised(S)[b] = weight[b] + added[b]
        BY <3>3 DEF Raised
      <4> HIDE DEF added
      <4> QED
        BY <3>2, <4>1, TotalOfPlus
    <3>6. Total(weight', Bindings) = Total(Raised(S), Bindings) - t
      <4>1. /\ w \in Bindings
            /\ \A b \in Bindings :
                  /\ Raised(S)[b] \in Int
                  /\ weight'[b] = IF b = w THEN Raised(S)[b] - t ELSE Raised(S)[b]
        BY <3>1
      <4> QED
        BY <3>1, <3>2, <4>1, TotalOfLess
    <3>7. t = Total(Weight, S)
      BY TotalWeightIsTotal DEF t
    <3> QED
      BY <3>1, <3>4, <3>5, <3>6, <3>7
  <2>3. [Next]_vars => weight' = weight \/ \E c \in Callers : PickSwrr(c)
    BY DEF Next, vars, BeginSelect, TestAvailable, EndOfTier, PickHash, Report, GiveUp, Age
  <2> QED
    BY <2>1, <2>2, <2>3
<1>4. Inv /\ Total(weight, Bindings) = 0 /\ [Next]_vars
         => (Total(weight, Bindings) = 0)'
  BY <1>3
<1>5. Spec => [](Total(weight, Bindings) = 0)
  BY <1>2, <1>4, Invariance, PTL DEF Spec
<1> QED
  BY <1>1, <1>5, PTL
----------------------------------------------------------------------------
(* Sticky keys.                                                            *)

\* Who picks has tested the whole tier; who uses a binding that was hashed for
\* finds none in its tier that it scores lower with, of those steady so far.
Settled(c) ==
    /\ caller[c].pc = "picking" => Tier(caller[c].tier) \subseteq caller[c].tested
    /\ caller[c].pc = "using" /\ strategy = "weighted_hash" =>
          \A b \in caller[c].steady :
              Priority[b] = Priority[caller[c].chosen] =>
                  Score[caller[c].key][caller[c].chosen] <= Score[caller[c].key][b]

\* It stays settled when it forgets bindings, and in any step that takes it
\* neither to the pick nor to a binding.
LEMMA SettledAlone ==
    ASSUME NEW c \in Callers, Settled(c), strategy' = strategy,
           caller'[c].pc = caller[c].pc, caller'[c].tier = caller[c].tier,
           caller'[c].tested = caller[c].tested, caller'[c].chosen = caller[c].chosen,
           caller'[c].key = caller[c].key, caller'[c].steady \subseteq caller[c].steady
    PROVE  Settled(c)'
  BY DEF Settled, Tier

LEMMA SettledElsewhere ==
    ASSUME NEW c \in Callers, caller'[c].pc \notin {"picking", "using"}
    PROVE  Settled(c)'
  BY DEF Settled

LEMMA SettledBySelection ==
    ASSUME Inv, NEW c \in Callers, strategy' = strategy,
           \/ \E min \in 0..1 : BeginSelect(c, min)
           \/ TestAvailable(c)
           \/ EndOfTier(c)
           \/ GiveUp(c)
    PROVE  Settled(c)'
<1>1. caller \in [Callers -> CallerType]
  BY DEF Inv, Typed
<1>2. ASSUME NEW min \in 0..1, BeginSelect(c, min)
      PROVE  caller'[c].pc \notin {"picking", "using"}
  BY <1>1, <1>2 DEF BeginSelect, Idle
<1>3. ASSUME TestAvailable(c)
      PROVE  caller'[c].pc \notin {"picking", "using"}
  BY <1>1, <1>3 DEF TestAvailable, CallerType
<1>4. ASSUME EndOfTier(c)
      PROVE  Settled(c)'
  <2>1. /\ Tier(caller[c].tier) \subseteq caller[c].tested
        /\ caller[c].pc = "testing" /\ caller[c] \in CallerType
    BY <1>1, <1>4 DEF EndOfTier
  <2>2. CASE caller[c].passed # {}
    <3>1. caller' = [caller EXCEPT ![c].pc = "picking"]
      BY <1>4, <2>2 DEF EndOfTier
    <3>2. /\ caller'[c].pc = "picking" /\ caller'[c].tier = caller[c].tier
          /\ caller'[c].tested = caller[c].tested
      BY <1>1, <2>1, <3>1 DEF CallerType
    <3> QED
      BY <2>1, <3>2 DEF Settled, Tier
  <2>3. CASE caller[c].passed = {}
    <3>1. \/ caller' = [caller EXCEPT ![c].tier = NextTier(caller[c].tier + 1),
                                      ![c].tested = {}]
          \/ caller' = [caller EXCEPT ![c].pc = "refused"]
      BY <1>4, <2>3 DEF EndOfTier
    <3>2. caller'[c].pc \in {"testing", "refused"}
      BY <1>1, <2>1, <3>1 DEF CallerType
    <3> QED
      BY <3>2, SettledElsewhere
  <2> QED
    BY <2>2, <2>3
<1>5. ASSUME GiveUp(c)
      PROVE  caller'[c].pc \notin {"picking", "using"}
  BY <1>1, <1>5 DEF GiveUp, Idle
<1> QED
  BY <1>2, <1>3, <1>4, <1>5, SettledElsewhere

LEMMA SettledByPick ==
    ASSUME Inv, NEW c \in Callers, Settled(c), strategy' = strategy,
           \/ PickSwrr(c)
           \/ \E key \in Keys : PickHash(c, key)
    PROVE  Settled(c)'
<1>1. /\ caller \in [Callers -> CallerType] /\ caller[c] \in CallerType
      /\ InItsTier(c) /\ NoneOverlooked(c)
  BY DEF Inv, Typed, CallerInv
<1>2. ASSUME PickSwrr(c)
      PROVE  Settled(c)'
  <2>1. strategy' = "swrr"
    BY <1>2 DEF PickSwrr
  <2>2. caller'[c].pc = "using"
    BY <1>1, <1>2 DEF PickSwrr, UserOf, Idle
  <2> QED
    BY <2>1, <2>2 DEF Settled
<1>3. ASSUME NEW key \in Keys, PickHash(c, key)
      PROVE  Settled(c)'
  <2> DEFINE S == caller[c].passed
             s == caller[c].steady
             w == Min(LowestScored(S, key))
  <2>1. /\ caller[c].pc = "picking" /\ caller' = [caller EXCEPT ![c] = UserOf(w, key, s)]
    BY <1>3 DEF PickHash
  <2>2. S \in SUBSET Bindings /\ S # {} /\ s \in SUBSET Bindings
    BY <1>1, <2>1 DEF CallerType, InItsTier
  <2>3. w \in S /\ \A b \in S : Score[key][w] <= Score[key][b]
    BY <2>2, LowestAmong
  <2>4. \A b \in s : Priority[b] = caller[c].tier => b \in S
    BY <1>1, <2>1, <2>2 DEF NoneOverlooked, Settled, Tier
  <2>5. w \in Bindings /\ Priority[w] = caller[c].tier
    BY <1>1, <2>2, <2>3 DEF InItsTier, Tier
  <2> HIDE DEF w, s
  <2>6. /\ UserOf(w, key, s).pc = "using" /\ UserOf(w, key, s).chosen = w
        /\ UserOf(w, key, s).steady = s /\ UserOf(w, key, s).key = key
    BY <2>2, <2>5, UserType
  <2>7. caller'[c] = UserOf(w, key, s)
    BY <1>1, <2>1
  <2> QED
    BY <2>3, <2>4, <2>5, <2>6, <2>7 DEF Settled
<1> QED
  BY <1>2, <1>3

\* A step of somebody else takes bindings off a caller's steady set at most.
LEMMA SettledOfOthers ==
    ASSUME Inv, NEW c \in Callers, NEW d \in Callers, d # c, Settled(d),
           strategy' = strategy,
           \/ \E min \in 0..1 : BeginSelect(c, min)
           \/ TestAvailable(c)
           \/ EndOfTier(c)
           \/ PickSwrr(c)
           \/ \E key \in Keys : PickHash(c, key)
           \/ \E success \in BOOLEAN : Report(c, success)
           \/ GiveUp(c)
    PROVE  Settled(d)'
<1>1. caller \in [Callers -> CallerType] /\ caller[d] \in CallerType
  BY DEF Inv, Typed
<1>2. CASE ~ \E success \in BOOLEAN : Report(c, success)
  <2>1. caller'[d] = caller[d]
    BY <1>1, <1>2 DEF BeginSelect, TestAvailable, EndOfTier, PickSwrr, PickHash, GiveUp
  <2> QED
    BY <2>1, SettledAlone
<1>3. ASSUME NEW success \in BOOLEAN, Report(c, success)
      PROVE  Settled(d)'
  <2>1. PICK brs : caller' = Steadied([caller EXCEPT ![c] = Idle], brs)
    BY <1>3 DEF Report
  <2>2. caller'[d] = [caller[d] EXCEPT !.steady = {b \in @ : CanExecute(brs[b], Now)}]
    BY <1>1, <2>1 DEF Steadied
  <2>3. {b \in caller[d].steady : CanExecute(brs[b], Now)} \subseteq caller[d].steady
    OBVIOUS
  <2>4. /\ caller'[d].pc = caller[d].pc /\ caller'[d].tier = caller[d].tier
        /\ caller'[d].tested = caller[d].tested /\ caller'[d].chosen = caller[d].chosen
        /\ caller'[d].key = caller[d].key /\ caller'[d].steady \subseteq caller[d].steady
    BY <1>1, <2>2, <2>3 DEF CallerType
  <2> QED
    BY <2>4, SettledAlone
<1> QED
  BY <1>2, <1>3

\* However selections and reports interleave, a hashed key only leaves a
\* binding that it scores lower with if that was unavailable at some moment.
THEOREM StickyKeysHolds == Spec => []StickyKeys
<1>1. Init => \A c \in Callers : Settled(c)
  BY DEF Init, Idle, Settled
<1>2. Inv /\ (\A c \in Callers : Settled(c)) /\ [Next]_vars
         => (\A c \in Callers : Settled(c))'
  <2> SUFFICES ASSUME Inv, \A c \in Callers : Settled(c), [Next]_vars,
                      NEW c \in Callers
               PROVE  Settled(c)'
    OBVIOUS
  <2>1. strategy' = strategy
    BY DEF Next, vars
  <2>2. CASE caller' = caller
    BY <2>1, <2>2, SettledAlone
  <2>3. ASSUME NEW d \in Callers, NEW success \in BOOLEAN, Report(d, success)
        PROVE  Settled(c)'
    <3>1. CASE c = d
      <4>1. PICK brs : caller' = Steadied([caller EXCEPT ![c] = Idle], brs)
        BY <2>3, <3>1 DEF Report
      <4>2. caller \in [Callers -> CallerType]
        BY DEF Inv, Typed
      <4>3. caller'[c].pc = "idle"
        BY <4>1, <4>2 DEF Steadied, Idle
      <4> QED
        BY <4>3, SettledElsewhere
    <3>2. CASE c # d
      BY <2>1, <2>3, <3>2, SettledOfOthers
    <3> QED
      BY <3>1, <3>2
  <2>4. ASSUME NEW d \in Callers,
               \/ \E min \in 0..1 : BeginSelect(d, min)
               \/ TestAvailable(d)
               \/ EndOfTier(d)
               \/ GiveUp(d)
        PROVE  Settled(c)'
    BY <2>1, <2>4, SettledBySelection, SettledOfOthers
  <2>5. ASSUME NEW d \in Callers,
               \/ PickSwrr(d)
               \/ \E key \in Keys : PickHash(d, key)
        PROVE  Settled(c)'
    BY <2>1, <2>5, SettledByPick, SettledOfOthers
  <2>6. Age \/ UNCHANGED vars => caller' = caller
    BY DEF Age, vars
  <2> QED
    BY <2>2, <2>3, <2>4, <2>5, <2>6 DEF Next
<1>3. (\A c \in Callers : Settled(c)) => StickyKeys
  BY DEF Settled, StickyKeys
<1> QED
  BY <1>1, <1>2, <1>3, Invariance, PTL DEF Spec
----------------------------------------------------------------------------
(* Smoothness.  For a set of bindings, not a single one, the bound is an   *)
(* invariant: a choice among S lifts the part of T in S, and if the winner *)
(* is not in T, then it is ahead of all that is lifted, so that T has a    *)
(* bound between those of T \ S and of T with the winner.                  *)

LEMMA TotalOfMost ==
    ASSUME NEW S, IsFiniteSet(S), NEW f, NEW m \in Int,
           \A x \in S : f[x] \in Int /\ f[x] <= m
    PROVE  Total(f, S) <= Cardinality(S) * m
<1> DEFINE P == {T \in SUBSET S : Total(f, T) <= Cardinality(T) * m}
<1>1. ASSUME NEW T \in SUBSET S, \A U \in SUBSET T : U # T => U \in P
      PROVE  T \in P
  <2>1. CASE T = {}
    <3>1. Total(f, T) = 0 /\ Cardinality(T) = 0 /\ 0 * m = 0
      BY <2>1, TotalEmpty, FS_EmptySet
    <3> QED
      BY <3>1
  <2>2. CASE T # {}
    <3> DEFINE x == Some(T)
               V == T \ {x}
    <3>1. x \in T /\ IsFiniteSet(T) /\ IsFiniteSet(V)
      BY <2>2, SomeInside, FS_Subset
    <3>2. Total(f, V) <= Cardinality(V) * m
      BY <1>1, <3>1
    <3>3. Total(f, T) = f[x] + Total(f, V)
      BY <2>2, <3>1, TotalStep
    <3>4. Total(f, V) \in Int /\ f[x] \in Int /\ f[x] <= m
      BY <3>1, TotalType
    <3>5. /\ Cardinality(V) = Cardinality(T) - 1
          /\ Cardinality(V) \in Nat /\ Cardinality(T) \in Nat
      BY <3>1, FS_RemoveElement, FS_CardinalityType
    <3> HIDE DEF x, V
    <3>6. PICK k \in Nat : k = Cardinality(V)
      BY <3>5
    <3>7. Cardinality(T) = k + 1 /\ (k + 1) * m = k * m + m /\ k * m \in Int
      BY <3>5, <3>6
    <3>8. Total(f, T) <= Cardinality(T) * m
      BY <3>2, <3>3, <3>4, <3>6, <3>7
    <3> QED
      BY <3>8
  <2> QED
    BY <2>1, <2>2
<1>2. SUBSET S \subseteq P
  <2> HIDE DEF P
  <2> QED
    BY <1>1, SubsetInduction
<1> QED
  BY <1>2

LEMMA TotalOfNats ==
    ASSUME NEW S, IsFiniteSet(S), NEW f, \A x \in S : f[x] \in Nat
    PROVE  Total(f, S) \in Nat
<1> DEFINE P == {T \in SUBSET S : Total(f, T) \in Nat}
<1>1. ASSUME NEW T \in SUBSET S, \A U \in SUBSET T : U # T => U \in P
      PROVE  T \in P
  <2>1. CASE T = {}
    BY <2>1, TotalEmpty
  <2>2. CASE T # {}
    <3> DEFINE x == Some(T)
               V == T \ {x}
    <3>1. x \in T /\ IsFiniteSet(T) /\ IsFiniteSet(V)
      BY <2>2, SomeInside, FS_Subset
    <3>2. Total(f, V) \in Nat /\ f[x] \in Nat
      BY <1>1, <3>1
    <3>3. Total(f, T) = f[x] + Total(f, V)
      BY <2>2, <3>1, TotalStep
    <3> QED
      BY <3>2, <3>3
  <2> QED
    BY <2>1, <2>2
<1>2. SUBSET S \subseteq P
  <2> HIDE DEF P
  <2> QED
    BY <1>1, SubsetInduction
<1> QED
  BY <1>2

LEMMA TotalOfHalves ==
    ASSUME NEW S, IsFiniteSet(S), NEW R, NEW f, \A x \in S : f[x] \in Int
    PROVE  Total(f, S) = Total(f, S \cap R) + Total(f, S \ R)
<1> DEFINE g == [x \in S |-> IF x \in S \cap R THEN f[x] ELSE 0]
           h == [x \in S |-> IF x \in S \ R THEN f[x] ELSE 0]
<1>1. \A x \in S : /\ g[x] = IF x \in S \cap R THEN f[x] ELSE 0
                   /\ h[x] = IF x \in S \ R THEN f[x] ELSE 0
  OBVIOUS
<1>2. \A x \in S : g[x] \in Int /\ h[x] \in Int /\ f[x] = g[x] + h[x]
  BY <1>1
<1> HIDE DEF g, h
<1>3. Total(g, S) = Total(f, S \cap R)
  <2>1. S \cap R \in SUBSET S
    OBVIOUS
  <2> QED
    BY <1>1, <2>1, TotalOfPart
<1>4. Total(h, S) = Total(f, S \ R)
  <2>1. S \ R \in SUBSET S
    OBVIOUS
  <2> QED
    BY <1>1, <2>1, TotalOfPart
<1>5. Total(f, S) = Total(g, S) + Total(h, S)
  BY <1>2, TotalOfPlus
<1> QED
  BY <1>3, <1>4, <1>5

MaxWeight == Max({Weight[b] : b \in Bindings})

LEMMA MaxWeightIs == MaxWeight \in Nat /\ \A b \in Bindings : Weight[b] <= MaxWeight
<1> DEFINE W == {Weight[b] : b \in Bindings}
<1>1. \A b \in Bindings : Weight[b] \in 1..255
  BY GroupAssumption
<1>2. PICK x \in Bindings : \A y \in Bindings : Weight[y] <= Weight[x]
  <2>1. \A b \in Bindings : Weight[b] \in Int
    BY <1>1
  <2> QED
    BY <2>1, GroupAssumption, GreatestExists
<1>3. \E m \in W : \A v \in W : m >= v
  <2>1. Weight[x] \in W /\ \A v \in W : Weight[x] >= v
    BY <1>1, <1>2
  <2> QED
    BY <2>1
<1>4. MaxWeight \in W /\ \A v \in W : MaxWeight >= v
  BY <1>3 DEF MaxWeight, Max
<1> QED
  BY <1>1, <1>4

\* What a part of t bindings may run ahead together, of n.
Ahead(t) == MaxWeight * (t * (Cardinality(Bindings) - t))

Spread == \A T \in SUBSET Bindings : Total(weight, T) <= Ahead(Cardinality(T))

\* The bound is concave, just as much as a choice can make up for.
LEMMA AheadBetween ==
    ASSUME NEW n \in Int, NEW a \in Nat, NEW k \in Nat
    PROVE  k * ((a + k + 1) * (n - (a + k + 1)) + (k + 1)) + a * (n - a)
              = (k + 1) * ((a + k) * (n - (a + k)))
  OBVIOUS

LEMMA Cancelled ==
    ASSUME NEW k \in Nat, NEW x \in Int, NEW y \in Int, (k + 1) * x <= (k + 1) * y
    PROVE  x <= y
  OBVIOUS

\* The part T of the bindings when the winner of a choice is not in it.
LEMMA LosersStayBound ==
    ASSUME Inv, Spread, NEW S \in SUBSET Bindings, NEW w \in S,
           \A b \in S : Raised(S)[b] <= Raised(S)[w],
           NEW T \in SUBSET Bindings, w \notin T
    PROVE  Total(Raised(S), T) <= Ahead(Cardinality(T))
<1> DEFINE r == Raised(S)
           A == T \ S
           U == T \cap S
           V == T \cup {w}
           a == Cardinality(A)
           k == Cardinality(U)
           n == Cardinality(Bindings)
           M == MaxWeight
<1>1. /\ IsFiniteSet(S) /\ IsFiniteSet(T) /\ IsFiniteSet(A) /\ IsFiniteSet(U)
      /\ IsFiniteSet(V) /\ n \in Nat /\ a \in Nat /\ k \in Nat /\ w \in Bindings
  <2>1. IsFiniteSet(Bindings) /\ A \subseteq Bindings /\ U \subseteq Bindings
        /\ V \subseteq Bindings
    BY GroupAssumption
  <2> HIDE DEF A, U, V
  <2>2. \A X \in SUBSET Bindings : IsFiniteSet(X) /\ Cardinality(X) \in Nat
    BY <2>1, FS_Subset, FS_CardinalityType
  <2> QED
    BY <2>1, <2>2
<1>2. Cardinality(T) = a + k /\ Cardinality(V) = a + k + 1
  <2>1. T = A \cup U /\ A \cap U = {}
    OBVIOUS
  <2>2. Cardinality(T) = a + k - Cardinality(A \cap U) /\ Cardinality({}) = 0
    <3> HIDE DEF A, U
    <3> QED
      BY <1>1, <2>1, FS_Union, FS_EmptySet
  <2>3. Cardinality(V) = Cardinality(T) + 1
    BY <1>1, FS_AddElement
  <2>4. Cardinality(A \cap U) = 0
    BY <2>1, FS_EmptySet
  <2>5. a + k - 0 = a + k
    BY <1>1
  <2>6. Cardinality(T) = a + k
    BY <2>2, <2>4, <2>5
  <2> HIDE DEF a, k, A, U, V
  <2> QED
    BY <2>3, <2>6
<1>3. \A b \in Bindings :
         /\ weight[b] \in Int /\ Weight[b] \in Int /\ r[b] \in Int
         /\ Weight[b] <= M
         /\ r[b] = weight[b] + IF b \in S THEN Weight[b] ELSE 0
  <2>1. \A b \in Bindings : weight[b] \in Int /\ Weight[b] \in Int /\ Weight[b] <= M
    BY GroupTypes, MaxWeightIs DEF Inv, Typed
  <2> QED
    BY <2>1 DEF Raised
<1>4. M \in Nat
  BY MaxWeightIs
<1>5. Total(r, A) <= M * (a * (n - a)) /\ Total(r, A) \in Int
  <2>1. Total(r, A) = Total(weight, A)
    <3>1. \A b \in A : r[b] = weight[b]
      BY <1>3
    <3> HIDE DEF r, A
    <3> QED
      BY <1>1, <3>1, TotalOfSame
  <2>2. Total(weight, A) <= M * (a * (n - a))
    BY DEF Spread, Ahead
  <2>3. Total(weight, A) \in Int
    <3>1. \A b \in A : weight[b] \in Int
      BY <1>3
    <3> HIDE DEF A
    <3> QED
      BY <1>1, <3>1, TotalType
  <2> QED
    BY <2>1, <2>2, <2>3
<1>6. Total(r, U) <= k * r[w] /\ Total(r, U) \in Int /\ r[w] \in Int
  <2>1. \A b \in U : r[b] \in Int /\ r[b] <= r[w]
    BY <1>3
  <2>2. r[w] \in Int
    BY <1>1, <1>3
  <2>3. PICK z : z = r[w]
    OBVIOUS
  <2> HIDE DEF r, U
  <2>4. Total(r, U) <= Cardinality(U) * z
    BY <1>1, <2>1, <2>2, <2>3, TotalOfMost
  <2>5. Total(r, U) \in Int
    BY <1>1, <2>1, TotalType
  <2> QED
    BY <2>2, <2>3, <2>4, <2>5
<1>7. Total(r, T) = Total(r, U) + Total(r, A)
  <2>1. \A b \in T : r[b] \in Int
    BY <1>3
  <2> HIDE DEF r
  <2> QED
    BY <1>1, <2>1, TotalOfHalves
<1>8. Total(r, T) + r[w] <= M * ((a + k + 1) * (n - (a + k + 1))) + (k + 1) * M
  <2> DEFINE added == [b \in Bindings |-> IF b \in S THEN Weight[b] ELSE 0]
             L == V \cap S
  <2>1. Total(r, V) = r[w] + Total(r, T)
    <3>1. w \in V /\ V \ {w} = T /\ \A b \in V : r[b] \in Int
      BY <1>1, <1>3
    <3> HIDE DEF r, V
    <3> QED
      BY <1>1, <3>1, TotalTakeOut
  <2>2. Total(r, V) = Total(weight, V) + Total(added, V)
    <3>1. \A b \in V : /\ weight[b] \in Int /\ added[b] \in Int
                       /\ r[b] = weight[b] + added[b]
      BY <1>1, <1>3
    <3> HIDE DEF r, V, added
    <3> QED
      BY <1>1, <3>1, TotalOfPlus
  <2>3. Total(weight, V) <= M * ((a + k + 1) * (n - (a + k + 1)))
    <3>1. V \in SUBSET Bindings
      BY <1>1
    <3> HIDE DEF V, a, k
    <3> QED
      BY <1>2, <3>1 DEF Spread, Ahead
  <2>4. Total(added, V) = Total(Weight, L)
    <3>1. /\ L \in SUBSET V
          /\ \A b \in V : Weight[b] \in Int
                          /\ added[b] = IF b \in L THEN Weight[b] ELSE 0
      BY <1>1, <1>3
    <3> HIDE DEF V, added, L
    <3> QED
      BY <1>1, <3>1, TotalOfPart
  <2>5. Total(Weight, L) <= (k + 1) * M /\ Total(Weight, L) \in Int
    <3>1. L = U \cup {w} /\ w \notin U
      OBVIOUS
    <3>2. IsFiniteSet(L) /\ Cardinality(L) = k + 1
      <4> HIDE DEF L, U
      <4> QED
        BY <1>1, <3>1, FS_AddElement
    <3>3. \A b \in L : Weight[b] \in Int /\ Weight[b] <= M
      BY <1>3
    <3> HIDE DEF L, k, M
    <3> QED
      BY <1>4, <3>2, <3>3, TotalOfMost, TotalType
  <2>6. Total(weight, V) \in Int
    <3>1. \A b \in V : weight[b] \in Int
      BY <1>1, <1>3
    <3> HIDE DEF V
    <3> QED
      BY <1>1, <3>1, TotalType
  <2>7. PICK p : p = M * ((a + k + 1) * (n - (a + k + 1)))
    OBVIOUS
  <2>8. PICK q : q = (k + 1) * M
    OBVIOUS
  <2>9. p \in Int /\ q \in Int
    <3> HIDE DEF a, k, n, M
    <3>1. (a + k + 1) * (n - (a + k + 1)) \in Int
      BY <1>1
    <3>2. p \in Int
      BY <1>4, <2>7, <3>1
    <3>3. q \in Int
      BY <1>1, <1>4, <2>8
    <3> QED
      BY <3>2, <3>3
  <2> HIDE DEF a, k, n, M, added, L, V, r
  <2>10. r[w] + Total(r, T) = Total(weight, V) + Total(Weight, L)
    BY <2>1, <2>2, <2>4
  <2>11. Total(weight, V) <= p /\ Total(Weight, L) <= q
    BY <2>3, <2>5, <2>7, <2>8
  <2>12. Total(r, T) + r[w] = r[w] + Total(r, T)
    BY <1>5, <1>6, <1>7
  <2>13. Total(r, T) + r[w] <= p + q
    BY ONLY <2>5, <2>6, <2>9, <2>10, <2>11, <2>12
  <2> QED
    BY <2>7, <2>8, <2>13
<1>9. PICK x : x = Total(r, T)
  OBVIOUS
<1>10. PICK y : y = Total(r, U)
  OBVIOUS
<1>11. PICK z : z = r[w]
  OBVIOUS
<1>12. PICK u : u = Total(r, A)
  OBVIOUS
<1>13. /\ x \in Int /\ y \in Int /\ z \in Int /\ u \in Int
       /\ x = y + u /\ y <= k * z /\ u <= M * (a * (n - a))
       /\ x + z <= M * ((a + k + 1) * (n - (a + k + 1))) + (k + 1) * M
  <2> HIDE DEF r, A, U, a, k, n, M
  <2>1. u \in Int /\ u <= M * (a * (n - a))
    BY <1>5, <1>12
  <2>2. y \in Int /\ z \in Int /\ y <= k * z
    BY <1>6, <1>10, <1>11
  <2>3. x = y + u
    BY <1>7, <1>9, <1>10, <1>12
  <2>4. x + z <= M * ((a + k + 1) * (n - (a + k + 1))) + (k + 1) * M
    BY <1>8, <1>9, <1>11
  <2> QED
    BY <2>1, <2>2, <2>3, <2>4
<1>14. (k + 1) * x <= (k + 1) * (M * ((a + k) * (n - (a + k))))
  <2> HIDE DEF a, k, n, M
  <2>1. PICK c : c = (a + k + 1) * (n - (a + k + 1))
    OBVIOUS
  <2>2. PICK e : e = a * (n - a)
    OBVIOUS
  <2>3. PICK g : g = (a + k) * (n - (a + k))
    OBVIOUS
  <2>4. c \in Int /\ e \in Int /\ g \in Int /\ k * (c + (k + 1)) + e = (k + 1) * g
    BY <1>1, <2>1, <2>2, <2>3, AheadBetween
  <2>5. k * (x + z) <= k * (M * c + (k + 1) * M)
    <3>1. x + z <= M * c + (k + 1) * M
      BY <1>13, <2>1
    <3>2. \A i, j \in Int : i <= j => k * i <= k * j
      BY <1>1
    <3>3. x + z \in Int /\ M * c + (k + 1) * M \in Int
      BY <1>1, <1>4, <1>13, <2>4
    <3> QED
      BY <3>1, <3>2, <3>3
  <2>6. (k + 1) * x = k * (x + z) + (y - k * z) + u
    <3>1. k * (x + z) = k * x + k * z /\ (k + 1) * x = k * x + x
          /\ k * x \in Int /\ k * z \in Int
      BY <1>1, <1>13
    <3> QED
      BY <1>13, <3>1
  <2>7. k * z \in Int /\ y <= k * z /\ k * (x + z) \in Int
    BY <1>1, <1>13
  <2>8. (k + 1) * x <= k * (M * c + (k + 1) * M) + M * e
    <3>1. k * (M * c + (k + 1) * M) \in Int /\ M * e \in Int
      BY <1>1, <1>4, <2>4
    <3>2. u <= M * e
      BY <1>13, <2>2
    <3>3. \A h, i, j, l, m, o \in Int : i <= j /\ y <= l /\ u <= m /\ h = i + (y - l) + u
             => h <= j + m
      BY <1>13
    <3>4. (k + 1) * x \in Int
      BY <1>1, <1>13
    <3> QED
      BY <2>5, <2>6, <2>7, <3>1, <3>2, <3>3, <3>4
  <2>9. k * (M * c + (k + 1) * M) + M * e = M * (k * (c + (k + 1)) + e)
    BY <1>1, <1>4, <2>4
  <2>10. M * ((k + 1) * g) = (k + 1) * (M * g)
    BY <1>1, <1>4, <2>4
  <2>11. (k + 1) * x <= (k + 1) * (M * g)
    BY <2>4, <2>8, <2>9, <2>10
  <2> QED
    BY <2>3, <2>11
<1>15. x <= M * ((a + k) * (n - (a + k)))
  <2> HIDE DEF a, k, n, M
  <2>1. PICK g : g = M * ((a + k) * (n - (a + k)))
    OBVIOUS
  <2>2. g \in Int
    <3>1. (a + k) * (n - (a + k)) \in Int
      BY <1>1
    <3> QED
      BY <1>4, <2>1, <3>1
  <2>3. (k + 1) * x <= (k + 1) * g
    BY <1>14, <2>1
  <2>4. x <= g
    BY <1>1, <1>13, <2>2, <2>3, Cancelled
  <2> QED
    BY <2>1, <2>4
<1> QED
  <2> HIDE DEF a, k
  <2> QED
    BY <1>2, <1>9, <1>15 DEF Ahead

\* What the weights of the candidates of a choice do to a part T of the group.
LEMMA PickKeepsSpread ==
    ASSUME Inv, Spread, NEW c \in Callers, PickSwrr(c)
    PROVE  Spread'
<1>1. PICK S \in SUBSET Bindings : S = caller[c].passed
  BY PickEffect
<1>2. PICK w \in S : w = Winner(S)
  BY <1>1, PickEffect
<1>3. PICK t \in Int : t = TotalWeight(S)
  BY <1>1, PickEffect
<1>4. \A b \in Bindings :
         /\ Raised(S)[b] \in Int
         /\ weight'[b] = IF b = w THEN Raised(S)[b] - t ELSE Raised(S)[b]
  BY <1>1, <1>2, <1>3, PickEffect
<1>5. \A b \in S : Raised(S)[b] <= Raised(S)[w]
  <2>1. Typed /\ S # {}
    BY <1>2 DEF Inv
  <2> QED
    BY <1>2, <2>1, WinnerAmong
<1>6. \A b \in Bindings : weight[b] \in Int /\ Weight[b] \in Nat
  BY GroupAssumption DEF Inv, Typed
<1>7. ASSUME NEW T \in SUBSET Bindings
      PROVE  Total(weight', T) <= Ahead(Cardinality(T))
  <2>1. IsFiniteSet(T) /\ IsFiniteSet(S)
    BY GroupAssumption, FS_Subset
  <2>2. CASE w \notin T
    <3>1. \A b \in T : weight'[b] = Raised(S)[b]
      BY <1>4, <2>2
    <3>2. Total(weight', T) = Total(Raised(S), T)
      BY <2>1, <3>1, TotalOfSame
    <3> QED
      BY <1>5, <2>2, <3>2, LosersStayBound
  <2>3. CASE w \in T
    <3> DEFINE added == [b \in Bindings |-> IF b \in S THEN Weight[b] ELSE 0]
               U == T \cap S
    <3>1. Total(weight', T) = Total(Raised(S), T) - t
      <4>1. \A b \in T :
               /\ Raised(S)[b] \in Int
               /\ weight'[b] = IF b = w THEN Raised(S)[b] - t ELSE Raised(S)[b]
        BY <1>4
      <4> QED
        BY <2>1, <2>3, <4>1, TotalOfLess
    <3>2. Total(Raised(S), T) = Total(weight, T) + Total(added, T)
      <4>1. \A b \in T : /\ weight[b] \in Int /\ added[b] \in Int
                         /\ Raised(S)[b] = weight[b] + added[b]
        BY <1>6 DEF Raised
      <4> HIDE DEF added
      <4> QED
        BY <2>1, <4>1, TotalOfPlus
    <3>3. Total(added, T) = Total(Weight, U)
      <4>1. /\ U \in SUBSET T
            /\ \A b \in T : Weight[b] \in Int
                            /\ added[b] = IF b \in U THEN Weight[b] ELSE 0
        BY <1>6
      <4> HIDE DEF added, U
      <4> QED
        BY <2>1, <4>1, TotalOfPart
    <3>4. Total(Weight, U) <= t /\ Total(Weight, U) \in Int
      <4>1. Total(Weight, S) = Total(Weight, S \cap T) + Total(Weight, S \ T)
        BY <1>6, <2>1, TotalOfHalves
      <4>2. S \cap T = U
        OBVIOUS
      <4>3. Total(Weight, S \ T) \in Nat /\ Total(Weight, S \cap T) \in Int
        <5>1. IsFiniteSet(S \ T) /\ IsFiniteSet(S \cap T)
          BY <2>1, FS_Subset
        <5> QED
          BY <1>6, <5>1, TotalOfNats, TotalType
      <4>4. t = Total(Weight, S)
        BY <1>3, TotalWeightIsTotal
      <4>5. PICK i \in Int : i = Total(Weight, S \cap T)
        BY <4>3
      <4>6. PICK j \in Nat : j = Total(Weight, S \ T)
        BY <4>3
      <4>7. t = i + j
        BY <4>1, <4>4, <4>5, <4>6
      <4>8. Total(Weight, U) = i
        BY <4>2, <4>5
      <4> QED
        BY <4>7, <4>8
    <3>5. Total(weight, T) \in Int /\ Total(weight, T) <= Ahead(Cardinality(T))
      BY <1>6, <2>1, TotalType DEF Spread
    <3>6. Ahead(Cardinality(T)) \in Int
      <4>1. /\ MaxWeight \in Int /\ Cardinality(T) \in Int
            /\ Cardinality(Bindings) - Cardinality(T) \in Int
        BY <2>1, MaxWeightIs, GroupAssumption, FS_CardinalityType
      <4>2. Cardinality(T) * (Cardinality(Bindings) - Cardinality(T)) \in Int
        BY <4>1
      <4> QED
        BY <4>1, <4>2 DEF Ahead
    <3> HIDE DEF added, U
    <3>7. PICK i \in Int : i = Total(weight, T)
      BY <3>5
    <3>8. PICK j \in Int : j = Total(Weight, U)
      BY <3>4
    <3>9. Total(weight', T) = i + j - t
      BY <3>1, <3>2, <3>3, <3>7, <3>8
    <3>10. PICK h \in Int : h = Ahead(Cardinality(T))
      BY <3>6
    <3>11. i <= h /\ j <= t
      BY <3>4, <3>5, <3>7, <3>8, <3>10
    <3> QED
      BY <3>9, <3>10, <3>11
  <2> QED
    BY <2>2, <2>3
<1> QED
  BY <1>7 DEF Spread

LEMMA InitSpread ==
    ASSUME Init
    PROVE  Spread
<1> SUFFICES ASSUME NEW T \in SUBSET Bindings
             PROVE  Total(weight, T) <= Ahead(Cardinality(T))
  BY DEF Spread
<1>1. IsFiniteSet(T) /\ \A b \in T : weight[b] = 0
  BY GroupAssumption, FS_Subset DEF Init
<1>2. Total(weight, T) = 0
  BY <1>1, TotalOfZeros
<1>3. /\ Cardinality(T) \in Nat /\ Cardinality(Bindings) \in Nat
      /\ Cardinality(T) <= Cardinality(Bindings)
  BY GroupAssumption, FS_Subset, FS_CardinalityType
<1>4. Cardinality(Bindings) - Cardinality(T) \in Nat
  BY <1>3
<1>5. Cardinality(T) * (Cardinality(Bindings) - Cardinality(T)) \in Nat
  BY <1>3, <1>4
<1>6. Ahead(Cardinality(T)) \in Nat
  BY <1>5, MaxWeightIs DEF Ahead
<1> QED
  BY <1>2, <1>6

\* No running weight gets farther from 0 than the greatest weight times the
\* number of competitors, whatever the weights, and however the candidates of
\* the choices come and go.
THEOREM SmoothHolds == Spec => []Smooth
<1>1. Inv /\ Balanced /\ Spread => Smooth
  <2> SUFFICES ASSUME Inv, Balanced, Spread, NEW b \in Bindings
               PROVE  weight[b] \in -(MaxWeight * (Cardinality(Bindings) - 1))
                                      ..(MaxWeight * (Cardinality(Bindings) - 1))
    BY DEF Smooth, MaxWeight
  <2> DEFINE n == Cardinality(Bindings)
             R == Bindings \ {b}
  <2>1. /\ IsFiniteSet(Bindings) /\ IsFiniteSet({b}) /\ Cardinality({b}) = 1
        /\ n \in Nat /\ Cardinality(R) = n - 1 /\ IsFiniteSet(R)
    BY GroupAssumption, FS_Singleton, FS_CardinalityType, FS_RemoveElement
  <2>2. \A x \in Bindings : weight[x] \in Int
    BY DEF Inv, Typed
  <2>3. weight[b] <= MaxWeight * (n - 1)
    <3>1. Total(weight, {b}) = weight[b] + Total(weight, {b} \ {b})
      BY <2>1, <2>2, TotalTakeOut
    <3>2. {b} \ {b} = {} /\ Total(weight, {}) = 0
      BY TotalEmpty
    <3>3. Total(weight, {b}) = weight[b]
      BY <2>2, <3>1, <3>2
    <3>4. Total(weight, {b}) <= MaxWeight * (1 * (n - 1))
      <4>1. {b} \in SUBSET Bindings
        OBVIOUS
      <4> QED
        BY <2>1, <4>1 DEF Spread, Ahead
    <3>5. 1 * (n - 1) = n - 1
      BY <2>1
    <3> QED
      BY <3>3, <3>4, <3>5
  <2>4. -weight[b] <= MaxWeight * (n - 1)
    <3>1. Total(weight, Bindings) = 0
      BY DEF Balanced, Total
    <3>2. Total(weight, Bindings) = weight[b] + Total(weight, R)
      BY <2>1, <2>2, TotalTakeOut
    <3>3. Total(weight, R) <= MaxWeight * ((n - 1) * (n - (n - 1)))
      <4>1. R \in SUBSET Bindings
        OBVIOUS
      <4> HIDE DEF R
      <4> QED
        BY <2>1, <4>1 DEF Spread, Ahead
    <3>4. (n - 1) * (n - (n - 1)) = n - 1
      <4>1. n - (n - 1) = 1 /\ (n - 1) * 1 = n - 1
        BY <2>1
      <4> QED
        BY <4>1
    <3>5. Total(weight, R) \in Int
      BY <2>1, <2>2, TotalType
    <3>6. Total(weight, R) = -weight[b]
      BY <2>2, <3>1, <3>2, <3>5
    <3> QED
      BY <3>3, <3>4, <3>6
  <2>5. PICK m \in Int : m = MaxWeight * (n - 1)
    BY <2>1, MaxWeightIs
  <2>6. weight[b] \in Int /\ weight[b] <= m /\ -weight[b] <= m
    BY <2>2, <2>3, <2>4, <2>5
  <2>7. weight[b] \in -m..m
    BY <2>6
  <2> QED
    BY <2>5, <2>7
<1>2. Inv /\ Spread /\ [Next]_vars => Spread'
  <2> SUFFICES ASSUME Inv, Spread, [Next]_vars PROVE Spread'
    OBVIOUS
  <2>1. CASE weight' = weight
    BY <2>1 DEF Spread
  <2>2. weight' = weight \/ \E c \in Callers : PickSwrr(c)
    BY DEF Next, vars, BeginSelect, TestAvailable, EndOfTier, PickHash, Report, GiveUp, Age
  <2> QED
    BY <2>1, <2>2, PickKeepsSpread
<1>3. Init => Spread
  BY InitSpread
<1> QED
  BY <1>1, <1>2, <1>3, Invariance, BalancedHolds, PTL DEF Spec
=============================================================================
