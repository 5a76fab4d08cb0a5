------------------------------ MODULE RunEvidence ------------------------------
(***************************************************************************)
(* The evidence an automation root holds once its stages have run, as the  *)
(* later stages and a recovery read it: the routes of RouteEvidence, the   *)
(* results of the two judges for each translated leaf, and the leaves that *)
(* go to the strong judge.                                                 *)
(***************************************************************************)
EXTENDS RouteEvidence

CONSTANTS NonPasses,     \* conclusions of a judge other than "pass"
          Bucket         \* the bucket of a leaf in the pass sample, by hash

Units == UNION {{e} \X (1..LeafCount[e]) : e \in Episodes}
Percents == 0..100

\* What a judge's attempt comes to: a conclusion, or none.
Outcomes == {"pass"} \cup NonPasses \cup (Codes \ LateCodes)

\* An episode without leaves is never translated; the stages see none.
ASSUME EvidenceAssumption ==
  /\ LeafCount \in [Episodes -> Nat \ {0}]
  /\ Bucket \in [Units -> 0..9999]
  /\ "pass" \notin NonPasses \cup Codes
  /\ NonPasses \cap Codes = {}

\* (mutant) Any route of the episode may hold the selected status.
RetryTranslationAnyRoute(routing, statuses) ==
  ~Translated(routing) /\ \E i \in DOMAIN routing : routing[i].code \in statuses

\* _retryable_translation_ids: a route has at most one failed attempt.
RetryTranslation(routing, statuses) == Terminal(routing).code \in statuses

\* The leaves a route has in its leaf-results, and those it has sent.
KeptLeaves(result) == 1..result.leaves
SentLeaves(result) ==
  IF result.code \in {"none"} \cup LateCodes THEN 1..result.leaves ELSE 1..result.leaves + 1

\* _is_sampled_pass
Sampled(u, percent) == Bucket[u] < percent * 100

\* _escalation_reason is not None
Escalates(u, mini, percent) == mini # "pass" \/ Sampled(u, percent)

==============================================================================
