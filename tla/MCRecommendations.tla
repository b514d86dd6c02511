------------------------- MODULE MCRecommendations -------------------------
\* Recommendations for TLC: goroutines of one kind are interchangeable.
EXTENDS Recommendations, TLC

AnyOrder == Permutations(Stores) \cup Permutations(Requests)

\* The first row has two actions with an effect, the second none.
Suggested == << <<"works", "works">>, <<>> >>
=============================================================================
