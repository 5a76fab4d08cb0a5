----------------------------- MODULE RouteEvidence -----------------------------
(***************************************************************************)
(* The evidence a translation leaves in an automation root, as the later   *)
(* stages and a recovery read it: for each episode the routes taken, for   *)
(* each route the leaves it has results of and how it ended.               *)
(***************************************************************************)
EXTENDS Naturals, Sequences

CONSTANTS Episodes,      \* members of the candidate manifest
          LeafCount,     \* translatable leaves of each episode
          Retryable,     \* HTTP statuses a recovery may be told to retry
          FallbackCodes, \* ends of a route that allow a fallback, "research_needed" among them
          OtherCodes,    \* all other failures, those of unknown delivery included
          LateCodes      \* ends of a route whose leaves all have a result

Codes == Retryable \cup FallbackCodes \cup OtherCodes

ASSUME RouteAssumption ==
  /\ LeafCount \in [Episodes -> Nat]
  /\ OtherCodes \cap (Retryable \cup FallbackCodes) = {}
  /\ "none" \notin Codes
  /\ LateCodes \subseteq Codes \ Retryable

\* A route translates its leaves in order and ends with the first failure.  It
\* may also end without a translation after its last leaf: one needs research,
\* or the merge is rejected.
RouteResults(e) ==
  {[leaves |-> LeafCount[e], code |-> code] : code \in {"none"} \cup LateCodes}
    \cup [leaves : 0..LeafCount[e]-1, code : Codes \ LateCodes]

ShouldFallback(result) == result.code \in FallbackCodes

\* The routes an episode may have taken when a batch is published.
Routings(e) ==
  {<<p>> : p \in {q \in RouteResults(e) : ~ShouldFallback(q)}}
    \cup {<<p, f>> : p \in {q \in RouteResults(e) : ShouldFallback(q)}, f \in RouteResults(e)}

Terminal(routing) == routing[Len(routing)]
Translated(routing) == Terminal(routing).code = "none"

==============================================================================
