--------------------------- MODULE MCLiveEvaluation ---------------------------
\* Three rows for two workers, so that a row waits while others are judged.
EXTENDS LiveEvaluation
==============================================================================
