--------------------------- MODULE MCPredictions ---------------------------
(* A small instance of Predictions for TLC. *)
EXTENDS Predictions, TLC

CONSTANTS a1, a2, v1, c1

BothMarkets == {"handicap", "total"}
TwoAnalyses == {a1, a2}
OneVerification == {v1}
OneCorrection == {c1}

\* Either side wins by one goal; one of three goals is above either line.
TwoScores == {<<0, 1>>, <<2, 1>>}
TwoLines == {-3, 3}

\* Two analyses that disagree, one of which saw no line for the goals.
TwoOpinions ==
  {[selection |-> [k \in BothMarkets |-> "first"],
    line |-> [k \in BothMarkets |-> IF k = "handicap" THEN -3 ELSE 3]],
   [selection |-> [k \in BothMarkets |-> IF k = "handicap" THEN "watch" ELSE "second"],
    line |-> [k \in BothMarkets |-> IF k = "handicap" THEN -3 ELSE None]]}

\* The analyses are interchangeable.
Interchangeable == Permutations(TwoAnalyses)
=============================================================================
