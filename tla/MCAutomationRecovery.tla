------------------------- MODULE MCAutomationRecovery -------------------------
\* An episode with one leaf and one with two, of which one is in the sample.
\* TLC stops where more than MaxTroubles things have gone wrong.
EXTENDS AutomationRecovery

CONSTANT MaxTroubles

MCLeafCount == [e \in Episodes |-> IF e = "e1" THEN 1 ELSE 2]
MCBucket == [u \in Units |-> IF u = <<"e2", 1>> THEN 200 ELSE 9000]

NotPassed(results) ==
  Cardinality({x \in Roots \X Units : results[x[1]][x[2]] \notin {"pass", Absent}})

FailedRoutes ==
  Cardinality({x \in Roots \X Episodes \X {1, 2} :
                 /\ routings[x[1]][x[2]] # Absent
                 /\ x[3] \in DOMAIN routings[x[1]][x[2]]
                 /\ routings[x[1]][x[2]][x[3]].code # "none"})

FewTroubles == FailedRoutes + NotPassed(mini) + NotPassed(strong) <= MaxTroubles

\* One history, to show what a recovery sends again: the primary model kept a leaf
\* of e2 and answered the other with something invalid, the fallback got a 429 for
\* its first, and the recovery translates e2.
History ==
  /\ routings[Parent]["e1"] \in {Absent, <<[leaves |-> 1, code |-> "none"]>>}
  /\ routings[Parent]["e2"] \in
       {Absent, <<[leaves |-> 1, code |-> "invalid"], [leaves |-> 0, code |-> "429"]>>}
  /\ \A r \in Siblings : routings[r]["e2"] \in {Absent, <<[leaves |-> 2, code |-> "none"]>>}
==============================================================================
