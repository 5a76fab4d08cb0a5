------------------------ MODULE MCAutonomousTranslation ------------------------
\* Instances of the batch: leaves per episode for its runs.
EXTENDS AutonomousTranslation

\* Crash run: two leaves, so that a route can stop in the middle.
TwoAndOne == <<2, 1>>

\* Edit and liveness runs: an episode without translatable leaves beside one with a leaf.
OneAndNone == <<1, 0>>
==============================================================================
