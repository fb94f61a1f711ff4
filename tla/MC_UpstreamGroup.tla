------------------------- MODULE MC_UpstreamGroup -------------------------
EXTENDS UpstreamGroup, TLC

\* Two primaries of different weight, two fallbacks; or one tier of three.
WeightValue == [b \in Bindings |-> IF b = 2 THEN 3 ELSE b]
TwoTiers == [b \in Bindings |-> IF b <= 2 THEN 0 ELSE 1]
OneTier == [b \in Bindings |-> 0]

\* Two keys, of which each prefers another binding of either tier.
ScoreValue ==
    [k \in Keys |-> [b \in Bindings |-> IF k = "k1" THEN b ELSE 4 - b]]

\* Forgets what no step reads: the successes and the age of a closed breaker.
View ==
    <<weight, caller, strategy,
      [b \in Bindings |-> IF breaker[b].state = "closed"
                          THEN <<breaker[b].failures>> ELSE breaker[b]]>>
===========================================================================
