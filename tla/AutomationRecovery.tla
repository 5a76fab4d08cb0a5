-------------------------- MODULE AutomationRecovery --------------------------
(***************************************************************************)
(* The stages of `automation run` in one output root, and of the recovery  *)
(* of that root in sibling roots: translation, mini judge, escalation,     *)
(* strong judge, consensus and review package.  The run is repeated after  *)
(* crashes, each time perhaps with another sample percentage; a recovery   *)
(* reads the root once, whatever state it is in, retries what the operator *)
(* selects and publishes an overlay.                                       *)
(*                                                                         *)
(* One step translates one episode or judges one leaf, up to its durable   *)
(* result; AutonomousTranslation and LiveEvaluation have these steps in    *)
(* full.  Configuration and candidate file do not change.                  *)
(***************************************************************************)
EXTENDS RunEvidence, FiniteSets

CONSTANTS Parent,   \* the root of the run
          Siblings, \* roots of recoveries
          Absent,
          Samples,  \* sample percentages operators choose
          MaxRuns   \* bound: starts of the run in the parent root

Roots == Siblings \cup {Parent}

ASSUME RecoveryAssumption ==
  /\ Parent \notin Siblings
  /\ Samples \subseteq Percents
  /\ Absent \notin Outcomes \cup Codes
  /\ \A e \in Episodes : Absent \notin Routings(e)
  /\ MaxRuns \in Nat

VARIABLES
  pc,           \* each root: the stage its process is in
  sample,       \* the percentage of the process
  statuses,     \* what a recovery retries
  strongSeen,   \* the leaves with strong results a recovery has read
  routings,     \* <root>/translation: the routes of each episode
  batch,        \* roots whose translation batch is published
  mini, strong, \* checkpoints of the judges, per leaf
  miniRun,      \* roots with a mini-judge run receipt
  strongRuns,   \* strong-judge run receipts: the leaves they cover
  packages,     \* review packages: percentage and episodes
  runs          \* counter for the bound

disk == <<routings, batch, mini, strong, miniRun, strongRuns, packages>>
choices == <<sample, statuses, strongSeen>>
vars == <<pc, choices, disk, runs>>

Stages == {"translate", "mini", "strong", "package"}

TypeOK ==
  /\ pc \in [Roots -> Stages \cup {"absent", "down", "done", "dead"}]
  /\ sample \in [Roots -> Samples \cup {Absent}]
  /\ statuses \in [Roots -> SUBSET Retryable]
  /\ strongSeen \in [Roots -> SUBSET Units]
  /\ DOMAIN routings = Roots
  /\ \A r \in Roots : /\ DOMAIN routings[r] = Episodes
                      /\ \A e \in Episodes : routings[r][e] \in Routings(e) \cup {Absent}
  /\ batch \subseteq Roots /\ miniRun \subseteq Roots
  /\ mini \in [Roots -> [Units -> Outcomes \cup {Absent}]]
  /\ strong \in [Roots -> [Units -> Outcomes \cup {Absent}]]
  /\ strongRuns \subseteq SUBSET Units
  /\ packages \in [Roots -> SUBSET [sample: Samples, episodes: SUBSET Episodes]]
  /\ runs \in 0..MaxRuns

Init ==
  /\ pc = [r \in Roots |-> IF r = Parent THEN "down" ELSE "absent"]
  /\ sample = [r \in Roots |-> Absent]
  /\ statuses = [r \in Roots |-> {}]
  /\ strongSeen = [r \in Roots |-> {}]
  /\ routings = [r \in Roots |-> [e \in Episodes |-> Absent]]
  /\ batch = {} /\ miniRun = {} /\ strongRuns = {}
  /\ mini = [r \in Roots |-> [u \in Units |-> Absent]]
  /\ strong = [r \in Roots |-> [u \in Units |-> Absent]]
  /\ packages = [r \in Roots |-> {}]
  /\ runs = 0

------------------------------------------------------------------------------
\* What a process works on, and the overlay of a recovery on its parent.

Retried(e, chosen) == RetryTranslation(routings[Parent][e], chosen)
ToTranslate(r) ==
  IF r = Parent THEN Episodes ELSE {e \in Episodes : Retried(e, statuses[r])}

\* _effective_translation: only a translated retry replaces the parent's row.
EffectiveRouting(r, e) ==
  IF e \in ToTranslate(r) /\ Translated(routings[r][e])
  THEN routings[r][e] ELSE routings[Parent][e]

ParentInputs == {u \in Units : Translated(routings[Parent][u[1]])}
Inputs(r) == {u \in Units : Translated(EffectiveRouting(r, u[1]))}

RetriedMini(chosen) == {u \in ParentInputs : mini[Parent][u] \in chosen}

ToMini(r) ==
  IF r = Parent THEN ParentInputs
  ELSE RetriedMini(statuses[r]) \cup (Inputs(r) \ ParentInputs)

EffectiveMini(r, u) == mini[IF u \in ToMini(r) THEN r ELSE Parent][u]

Escalated(r) == {u \in Inputs(r) : Escalates(u, EffectiveMini(r, u), sample[r])}

\* (mutant) Strong results are retried only where the parent has one.
ToStrongSeen(r) ==
  {u \in Escalated(r) : r = Parent \/ (u \in strongSeen[r] /\ strong[Parent][u] \in statuses[r])}

\* (mutant) Every escalated leaf goes to the strong judge again.
ToStrongAll(r) == Escalated(r)

ToStrong(r) ==
  {u \in Escalated(r) :
     r = Parent \/ u \notin strongSeen[r] \/ strong[Parent][u] \in statuses[r]}

EffectiveStrong(r, u) == strong[IF u \in ToStrong(r) THEN r ELSE Parent][u]

\* (mutant) A pass of either judge is enough.
AcceptedByEither(r, u) ==
  u \in Escalated(r) => "pass" \in {EffectiveStrong(r, u), EffectiveMini(r, u)}

\* HierarchicalConsensus.status
Accepted(r, u) == u \in Escalated(r) => EffectiveStrong(r, u) = "pass"

\* (mutant) One accepted leaf is enough.
ReviewReadySome(r) ==
  {e \in Episodes : /\ Translated(EffectiveRouting(r, e))
                    /\ \E u \in Inputs(r) : u[1] = e /\ Accepted(r, u)}

\* build_huggingface_review_package
ReviewReady(r) ==
  {e \in Episodes : /\ Translated(EffectiveRouting(r, e))
                    /\ \A u \in Inputs(r) : u[1] = e => Accepted(r, u)}

------------------------------------------------------------------------------
\* Starts.

\* The operator starts one command at a time.
Idle == \A r \in Roots : pc[r] \notin Stages

Run ==
  /\ Idle
  /\ runs < MaxRuns
  /\ runs' = runs + 1
  /\ pc' = [pc EXCEPT ![Parent] = "translate"]
  /\ \E percent \in Samples : sample' = [sample EXCEPT ![Parent] = percent]
  /\ UNCHANGED <<statuses, strongSeen, disk>>

\* _parent_run: one batch, one mini receipt, at most one strong receipt.
ParentReadable ==
  /\ Parent \in batch /\ Parent \in miniRun
  /\ Cardinality(strongRuns) <= 1

\* run_automation_recovery up to its recovery id: refused on an ambiguous
\* parent, on an existing root and when nothing is selected.
Recover(r) ==
  /\ Idle
  /\ pc[r] = "absent"
  /\ ParentReadable
  /\ pc' = [pc EXCEPT ![r] = "translate"]
  /\ strongSeen' = [strongSeen EXCEPT ![r] = UNION strongRuns]
  /\ \E percent \in Samples : sample' = [sample EXCEPT ![r] = percent]
  /\ \E chosen \in SUBSET Retryable \ {{}} :
       /\ \/ \E e \in Episodes : Retried(e, chosen)
          \/ RetriedMini(chosen) # {}
          \/ \E u \in UNION strongRuns : strong[Parent][u] \in chosen
       /\ statuses' = [statuses EXCEPT ![r] = chosen]
  /\ UNCHANGED <<disk, runs>>

------------------------------------------------------------------------------
\* The stages.

\* (mutant) A fallback that fails is tried once more.
TranslateAgain(r, e) ==
  /\ pc[r] = "translate"
  /\ e \in ToTranslate(r)
  /\ routings[r][e] = Absent
  /\ \E routing \in Routings(e), again \in RouteResults(e) :
       routings' = [routings EXCEPT ![r][e] =
                      IF Len(routing) = 2 /\ ~Translated(routing)
                      THEN Append(routing, again) ELSE routing]
  /\ UNCHANGED <<pc, choices, batch, mini, strong, miniRun, strongRuns, packages, runs>>

Translate(r, e) ==
  /\ pc[r] = "translate"
  /\ e \in ToTranslate(r)
  /\ routings[r][e] = Absent
  /\ \E routing \in Routings(e) : routings' = [routings EXCEPT ![r][e] = routing]
  /\ UNCHANGED <<pc, choices, batch, mini, strong, miniRun, strongRuns, packages, runs>>

\* A run without translations ends here and prepares no evaluation inputs; a
\* recovery goes on with the parent's.
EndTranslation(r) ==
  /\ pc[r] = "translate"
  /\ \A e \in ToTranslate(r) : routings[r][e] # Absent
  /\ batch' = batch \cup {r}
  /\ pc' = [pc EXCEPT ![r] = IF Inputs(r) = {} THEN "down" ELSE "mini"]
  /\ UNCHANGED <<choices, routings, mini, strong, miniRun, strongRuns, packages, runs>>

JudgeMini(r, u) ==
  /\ pc[r] = "mini"
  /\ u \in ToMini(r)
  /\ mini[r][u] = Absent
  /\ \E outcome \in Outcomes : mini' = [mini EXCEPT ![r][u] = outcome]
  /\ UNCHANGED <<pc, choices, routings, batch, strong, miniRun, strongRuns, packages, runs>>

\* The mini receipt and the escalation inputs, if there are any.
EndMini(r) ==
  /\ pc[r] = "mini"
  /\ \A u \in ToMini(r) : mini[r][u] # Absent
  /\ miniRun' = miniRun \cup {r}
  /\ pc' = [pc EXCEPT ![r] = IF Escalated(r) = {} THEN "package" ELSE "strong"]
  /\ UNCHANGED <<choices, routings, batch, mini, strong, strongRuns, packages, runs>>

JudgeStrong(r, u) ==
  /\ pc[r] = "strong"
  /\ u \in ToStrong(r)
  /\ strong[r][u] = Absent
  /\ \E outcome \in Outcomes : strong' = [strong EXCEPT ![r][u] = outcome]
  /\ UNCHANGED <<pc, choices, routings, batch, mini, miniRun, strongRuns, packages, runs>>

\* Receipts of sibling roots are not read by anyone.
EndStrong(r) ==
  /\ pc[r] = "strong"
  /\ \A u \in ToStrong(r) : strong[r][u] # Absent
  /\ strongRuns' = IF r = Parent THEN strongRuns \cup {Escalated(r)} ELSE strongRuns
  /\ pc' = [pc EXCEPT ![r] = "package"]
  /\ UNCHANGED <<choices, routings, batch, mini, strong, miniRun, packages, runs>>

\* Consensus and package; their coverage checks are the property Covered.
Package(r) ==
  /\ pc[r] = "package"
  /\ packages' = [packages EXCEPT ![r] =
                    @ \cup {[sample |-> sample[r], episodes |-> ReviewReady(r)]}]
  /\ pc' = [pc EXCEPT ![r] = IF r = Parent THEN "down" ELSE "done"]
  /\ UNCHANGED <<choices, routings, batch, mini, strong, miniRun, strongRuns, runs>>

\* The run can be resumed, a recovery cannot: its root exists.
Crash(r) ==
  /\ pc[r] \in Stages
  /\ pc' = [pc EXCEPT ![r] = IF r = Parent THEN "down" ELSE "dead"]
  /\ UNCHANGED <<choices, disk, runs>>

Stage(r) ==
  \/ \E e \in Episodes : Translate(r, e)
  \/ EndTranslation(r)
  \/ \E u \in Units : JudgeMini(r, u)
  \/ EndMini(r)
  \/ \E u \in Units : JudgeStrong(r, u)
  \/ EndStrong(r)
  \/ Package(r)

Next ==
  \/ Run
  \/ \E r \in Siblings : Recover(r)
  \/ \E r \in Roots : Stage(r) \/ Crash(r)

Spec == Init /\ [][Next]_vars

------------------------------------------------------------------------------

\* Requests are never paid for in order to be refused afterwards: when a process
\* comes to the consensus, every leaf it packages has a mini result and every
\* escalated one a strong result, from its own root or from the parent's.
Covered ==
  \A r \in Roots : pc[r] = "package" =>
    /\ \A u \in Inputs(r) : EffectiveMini(r, u) # Absent
    /\ \A u \in Escalated(r) : EffectiveStrong(r, u) # Absent

\* What a recovery pays for again rests on failures the operator named.  An episode
\* it translates again ended its last route with one of them, and none of its
\* routes with a failure of unknown delivery: the routes before the last ended
\* with some failure a fallback may follow, which nobody named (see
\* OnlySelectedResent).  A leaf that one of its judges is asked about has such a
\* failure for its result in the parent, if the parent has one that is seen.
OnlyNamedRetried ==
  \A r \in Siblings :
    /\ \A e \in Episodes : routings[r][e] # Absent =>
         /\ Terminal(routings[Parent][e]).code \in statuses[r]
         /\ \A i \in DOMAIN routings[Parent][e] : routings[Parent][e][i].code \notin OtherCodes
    /\ \A u \in Units : mini[r][u] # Absent => mini[Parent][u] \in statuses[r] \cup {Absent}
    /\ \A u \in strongSeen[r] : strong[r][u] # Absent => strong[Parent][u] \in statuses[r]

\* The last result a judge has given about a leaf, seen from a root.
Latest(results, r, u) == results[IF results[r][u] # Absent THEN r ELSE Parent][u]

\* An episode in a package is translated, and each of its leaves has passed the
\* judge that had to decide on it, by the last results on file: the mini judge,
\* or the strong judge where mini did not pass or the sample asks for it.
PackagedIsDecided ==
  \A r \in Roots : \A p \in packages[r] : \A e \in p.episodes :
    /\ \E o \in {r, Parent} : routings[o][e] # Absent /\ Translated(routings[o][e])
    /\ \A i \in 1..LeafCount[e] :
         LET u == <<e, i>> IN
         \/ Latest(mini, r, u) = "pass" /\ ~Sampled(u, p.sample)
         \/ Latest(strong, r, u) = "pass"

\* What the run sends to its strong judge at a percentage.
ParentEscalated(percent) ==
  {u \in ParentInputs : Escalates(u, mini[Parent][u], percent)}

\* A recovery that draws no larger sample than the run, and that has read the
\* strong results behind its package, loses no episode of that package: retries
\* only ever add episodes.
RecoveryKeepsPackaged ==
  \A r \in Siblings : \A p \in packages[r] : \A q \in packages[Parent] :
    (p.sample <= q.sample /\ ParentEscalated(q.sample) \subseteq strongSeen[r])
      => q.episodes \subseteq p.episodes

\* A leaf the strong judge has not passed enters a package of a recovery only in
\* three ways: the strong result was retried, the mini result was, or the leaf
\* was in the sample of the run and is not in that of the recovery.
StrongStands ==
  \A r \in Siblings : \A p \in packages[r] : \A e \in p.episodes : \A i \in 1..LeafCount[e] :
    LET u == <<e, i>> IN
    (u \in strongSeen[r] /\ strong[Parent][u] # "pass") =>
      \/ strong[Parent][u] \in statuses[r]
      \/ mini[Parent][u] \in statuses[r]
      \/ mini[Parent][u] = "pass" /\ ~Sampled(u, p.sample)

\* The leaves of a route that a recovery has begun again, and those among the
\* leaves the run has begun whose failure the operator named.
Resent(r, e, i) == SentLeaves(routings[r][e][i]) \cap SentLeaves(routings[Parent][e][i])
Selected(r, e, i) ==
  IF routings[Parent][e][i].code \in statuses[r]
  THEN SentLeaves(routings[Parent][e][i]) \ KeptLeaves(routings[Parent][e][i]) ELSE {}

\* The documentation says that a recovery of a completed run tries again only the
\* attempts that ended with a selected status: no successful one ("never resent to
\* a provider"), none that failed the validation of the response.
OnlySelectedResent ==
  \A r \in Siblings : \A e \in Episodes :
    (packages[r] # {} /\ packages[Parent] # {} /\ routings[r][e] # Absent) =>
      \A i \in DOMAIN routings[r][e] \cap DOMAIN routings[Parent][e] :
        Resent(r, e, i) \subseteq Selected(r, e, i)

==============================================================================
