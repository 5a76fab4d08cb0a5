----------------------------- MODULE MCReviewLog -----------------------------
\* Three reviews of two verdicts: a retried review and a second opinion both
\* compete with the first.
EXTENDS ReviewLog

CONSTANTS r1, r2, r3, v1, v2

MCVerdictOf == [r \in {r1, r2, r3} |-> IF r = r3 THEN v2 ELSE v1]
==============================================================================
