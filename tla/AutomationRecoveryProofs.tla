----------------------- MODULE AutomationRecoveryProofs -----------------------
(***************************************************************************)
(* Run and recovery for any episodes, codes, percentages and any number of *)
(* runs, recoveries and crashes.                                           *)
(***************************************************************************)
EXTENDS AutomationRecovery, TLAPS

\* A recovery that has not begun has left nothing; one that has, began from a
\* parent with a batch and a mini receipt.  A running process has a percentage.
Begun ==
  /\ \A r \in Siblings : pc[r] = "absent" =>
       /\ r \notin batch /\ r \notin miniRun /\ packages[r] = {}
       /\ \A e \in Episodes : routings[r][e] = Absent
       /\ \A u \in Units : mini[r][u] = Absent /\ strong[r][u] = Absent
  /\ \A r \in Siblings : pc[r] # "absent" => Parent \in batch /\ Parent \in miniRun
  /\ \A r \in Roots : pc[r] \in Stages => sample[r] \in Samples

Translations ==
  \A r \in Roots :
    /\ \A e \in Episodes : routings[r][e] # Absent => e \in ToTranslate(r)
    /\ r \in batch => \A e \in ToTranslate(r) : routings[r][e] # Absent
    /\ pc[r] \in {"mini", "strong", "package", "done"} => r \in batch

MiniResults ==
  \A r \in Roots :
    /\ \A u \in Units : mini[r][u] # Absent => r \in batch /\ u \in ToMini(r)
    /\ r \in miniRun => r \in batch /\ \A u \in ToMini(r) : mini[r][u] # Absent
    /\ pc[r] \in {"strong", "package", "done"} => r \in miniRun

\* Receipts cover results that are there to stay.
StrongResults ==
  /\ \A leaves \in strongRuns :
       /\ Parent \in batch /\ leaves \subseteq ParentInputs
       /\ \A u \in leaves : strong[Parent][u] # Absent
  /\ \A r \in Siblings :
       /\ strongSeen[r] \subseteq UNION strongRuns
       /\ \A u \in Units : strong[r][u] # Absent => r \in miniRun /\ u \in ToStrong(r)
  /\ \A r \in Roots : pc[r] \in {"package", "done"} =>
       \A u \in ToStrong(r) : strong[r][u] # Absent

\* What a recovery has packaged is what it would package now; what the run has
\* packaged at any percentage is decided by results of its own.
Packages ==
  /\ \A r \in Siblings : \A p \in packages[r] :
       pc[r] = "done" /\ p.sample = sample[r] /\ p.episodes = ReviewReady(r)
  /\ \A q \in packages[Parent] :
       /\ Parent \in batch /\ Parent \in miniRun
       /\ \A e \in q.episodes :
            /\ Translated(routings[Parent][e])
            /\ \A i \in 1..LeafCount[e] :
                 <<e, i>> \in ParentEscalated(q.sample) => strong[Parent][<<e, i>>] = "pass"

IInv == TypeOK /\ Begun /\ Translations /\ MiniResults /\ StrongResults /\ Packages

------------------------------------------------------------------------------
\* What a step may change.

Same(r) == sample'[r] = sample[r] /\ statuses'[r] = statuses[r] /\ strongSeen'[r] = strongSeen[r]

\* Results are added where there are none, by the stage that is up to it.
Additions ==
  /\ \A r \in Roots, e \in Episodes :
       \/ routings'[r][e] = routings[r][e]
       \/ pc[r] = "translate" /\ e \in ToTranslate(r) /\ routings[r][e] = Absent
  /\ \A r \in Roots, u \in Units :
       \/ mini'[r][u] = mini[r][u]
       \/ pc[r] = "mini" /\ u \in ToMini(r) /\ mini[r][u] = Absent
  /\ \A r \in Roots, u \in Units :
       \/ strong'[r][u] = strong[r][u]
       \/ pc[r] = "strong" /\ u \in ToStrong(r) /\ strong[r][u] = Absent

\* A stage is closed when all its results are there.
Closings ==
  /\ batch \subseteq batch' /\ miniRun \subseteq miniRun' /\ strongRuns \subseteq strongRuns'
  /\ \A r \in batch' \ batch :
       /\ pc[r] = "translate" /\ routings' = routings
       /\ \A e \in ToTranslate(r) : routings[r][e] # Absent
  /\ \A r \in miniRun' \ miniRun :
       /\ pc[r] = "mini" /\ mini' = mini
       /\ \A u \in ToMini(r) : mini[r][u] # Absent
  /\ \A leaves \in strongRuns' \ strongRuns :
       /\ pc[Parent] = "strong" /\ strong' = strong /\ leaves = Escalated(Parent)
       /\ \A u \in ToStrong(Parent) : strong[Parent][u] # Absent

Moves ==
  /\ \A r \in Siblings : pc[r] # "absent" => Same(r) /\ pc'[r] # "absent"
  /\ \A r \in Siblings : strongSeen'[r] \in {strongSeen[r], UNION strongRuns}
  /\ \A r \in Roots :
       \/ pc'[r] = pc[r] /\ (pc[r] # "absent" => Same(r))
       \/ /\ pc'[r] = "translate" /\ sample'[r] \in Samples
          /\ \/ r = Parent /\ pc[r] \notin Stages
             \/ /\ pc[r] = "absent" /\ ParentReadable
                /\ disk' = disk /\ strongSeen'[r] = UNION strongRuns
       \/ pc[r] \in Stages /\ pc'[r] \in {"down", "dead"} /\ Same(r)
       \/ pc[r] = "translate" /\ pc'[r] = "mini" /\ r \in batch' /\ Same(r)
       \/ pc[r] = "mini" /\ pc'[r] = "strong" /\ r \in miniRun' /\ Same(r)
       \/ /\ pc[r] = "mini" /\ pc'[r] = "package" /\ r \in miniRun' /\ Same(r)
          /\ disk' = <<routings, batch, mini, strong, miniRun', strongRuns, packages>>
          /\ Escalated(r) = {}
       \/ /\ pc[r] = "strong" /\ pc'[r] = "package" /\ strong' = strong /\ Same(r)
          /\ \A u \in ToStrong(r) : strong[r][u] # Absent
       \/ pc[r] = "package" /\ pc'[r] = "done" /\ r # Parent /\ Same(r)

Packagings ==
  \A r \in Roots : \A p \in packages'[r] \ packages[r] :
    /\ pc[r] = "package" /\ (r # Parent => pc'[r] = "done")
    /\ p.sample = sample[r] /\ p.episodes = ReviewReady(r)
    /\ Same(r) /\ <<routings, batch, mini, strong, miniRun, strongRuns>>'
                    = <<routings, batch, mini, strong, miniRun, strongRuns>>

Effects ==
  /\ Additions /\ Closings /\ Moves /\ Packagings
  /\ \A r \in Roots : packages[r] \subseteq packages'[r]

LEMMA StepEffects == IInv /\ [Next]_vars => TypeOK' /\ Effects
<1> SUFFICES ASSUME IInv, [Next]_vars PROVE TypeOK' /\ Effects
  OBVIOUS
<1> USE DEF IInv, TypeOK, Stages
<1>a. Parent \in Roots /\ Siblings \subseteq Roots /\ Parent \notin Siblings
  BY RecoveryAssumption DEF Roots
<1>b. \A r \in Roots : r # Parent => r \in Siblings
  BY DEF Roots
<1>1. CASE Run
  <2>1. PICK percent \in Samples : sample' = [sample EXCEPT ![Parent] = percent]
    BY <1>1 DEF Run
  <2>2. runs' \in 0..MaxRuns
    BY <1>1, RecoveryAssumption DEF Run
  <2>3. TypeOK'
    BY <1>1, <1>a, <2>1, <2>2 DEF Run, disk
  <2>4. pc[Parent] \notin Stages
    BY <1>1, <1>a DEF Run, Idle
  <2> QED
    BY <1>1, <1>a, <2>1, <2>3, <2>4
    DEF Run, disk, Effects, Additions, Closings, Moves, Packagings, Same
<1>2. ASSUME NEW r \in Siblings, Recover(r) PROVE TypeOK' /\ Effects
  <2>1. PICK percent \in Samples : sample' = [sample EXCEPT ![r] = percent]
    BY <1>2 DEF Recover
  <2>2. PICK chosen \in SUBSET Retryable : statuses' = [statuses EXCEPT ![r] = chosen]
    BY <1>2 DEF Recover
  <2>3. UNION strongRuns \subseteq Units
    OBVIOUS
  <2>4. TypeOK'
    BY <1>2, <1>a, <2>1, <2>2, <2>3 DEF Recover, disk
  <2> QED
    BY <1>2, <1>a, <1>b, <2>1, <2>2, <2>4
    DEF Recover, disk, Effects, Additions, Closings, Moves, Packagings, Same
<1>3. ASSUME NEW r \in Roots, NEW e \in Episodes, Translate(r, e) PROVE TypeOK' /\ Effects
  <2>1. PICK routing \in Routings(e) : routings' = [routings EXCEPT ![r][e] = routing]
    BY <1>3 DEF Translate
  <2>2. TypeOK'
    BY <1>3, <2>1 DEF Translate, choices
  <2> QED
    BY <1>3, <1>a, <2>1, <2>2
    DEF Translate, choices, Effects, Additions, Closings, Moves, Packagings, Same
<1>4. ASSUME NEW r \in Roots, EndTranslation(r) PROVE TypeOK' /\ Effects
  <2>1. TypeOK'
    BY <1>4 DEF EndTranslation, choices
  <2> QED
    BY <1>4, <1>a, <2>1
    DEF EndTranslation, choices, Effects, Additions, Closings, Moves, Packagings, Same
<1>5. ASSUME NEW r \in Roots, NEW u \in Units, JudgeMini(r, u) PROVE TypeOK' /\ Effects
  <2>1. TypeOK'
    BY <1>5 DEF JudgeMini, choices
  <2> QED
    BY <1>5, <1>a, <2>1
    DEF JudgeMini, choices, Effects, Additions, Closings, Moves, Packagings, Same
<1>6. ASSUME NEW r \in Roots, EndMini(r) PROVE TypeOK' /\ Effects
  <2>1. TypeOK'
    BY <1>6 DEF EndMini, choices
  <2> QED
    BY <1>6, <1>a, <2>1
    DEF EndMini, choices, disk, Effects, Additions, Closings, Moves, Packagings, Same
<1>7. ASSUME NEW r \in Roots, NEW u \in Units, JudgeStrong(r, u) PROVE TypeOK' /\ Effects
  <2>1. TypeOK'
    BY <1>7 DEF JudgeStrong, choices
  <2> QED
    BY <1>7, <1>a, <2>1
    DEF JudgeStrong, choices, Effects, Additions, Closings, Moves, Packagings, Same
<1>8. ASSUME NEW r \in Roots, EndStrong(r) PROVE TypeOK' /\ Effects
  <2>1. Escalated(r) \subseteq Units
    BY DEF Escalated, Inputs
  <2>2. TypeOK'
    BY <1>8, <2>1 DEF EndStrong, choices
  <2> QED
    BY <1>8, <1>a, <2>2
    DEF EndStrong, choices, Effects, Additions, Closings, Moves, Packagings, Same
<1>9. ASSUME NEW r \in Roots, Package(r) PROVE TypeOK' /\ Effects
  <2>1. ReviewReady(r) \in SUBSET Episodes /\ sample[r] \in Samples
    BY <1>9 DEF ReviewReady, Package, Begun
  <2>2. TypeOK'
    BY <1>9, <2>1 DEF Package, choices
  <2> QED
    BY <1>9, <1>a, <2>2
    DEF Package, choices, Effects, Additions, Closings, Moves, Packagings, Same
<1>10. ASSUME NEW r \in Roots, Crash(r) PROVE TypeOK' /\ Effects
  <2>1. TypeOK'
    BY <1>10 DEF Crash, choices, disk
  <2> QED
    BY <1>10, <1>a, <2>1
    DEF Crash, choices, disk, Effects, Additions, Closings, Moves, Packagings, Same
<1>11. CASE UNCHANGED vars
  BY <1>11, <1>a DEF vars, choices, disk, Effects, Additions, Closings, Moves, Packagings, Same
<1> QED
  BY <1>1, <1>2, <1>3, <1>4, <1>5, <1>6, <1>7, <1>8, <1>9, <1>10, <1>11 DEF Next, Stage

------------------------------------------------------------------------------
\* What no later step changes.

LEMMA UnitFacts ==
  /\ \A u \in Units : u[1] \in Episodes
  /\ \A e \in Episodes : \A i \in 1..LeafCount[e] : <<e, i>> \in Units
  /\ \A u \in Units : \E e \in Episodes : \E i \in 1..LeafCount[e] : u = <<e, i>>
BY DEF Units

LEMMA RootFacts ==
  /\ Parent \in Roots /\ Siblings \subseteq Roots /\ Parent \notin Siblings
  /\ \A r \in Roots : r # Parent => r \in Siblings
BY RecoveryAssumption DEF Roots

\* Results are final, and so is every row of a closed stage.
LEMMA Final ==
  ASSUME IInv, Effects
  PROVE  /\ \A r \in Roots, e \in Episodes :
              routings[r][e] # Absent \/ r \in batch => routings'[r][e] = routings[r][e]
         /\ \A r \in Roots, u \in Units :
              mini[r][u] # Absent \/ r \in miniRun => mini'[r][u] = mini[r][u]
         /\ \A r \in Roots, u \in Units :
              strong[r][u] # Absent => strong'[r][u] = strong[r][u]
BY DEF IInv, Effects, Additions, Translations, MiniResults

LEMMA FinalParent ==
  ASSUME IInv, Effects, Parent \in batch
  PROVE  ParentInputs' = ParentInputs
<1>1. \A e \in Episodes : routings'[Parent][e] = routings[Parent][e]
  BY Final, RootFacts
<1> QED
  BY <1>1, UnitFacts DEF ParentInputs

LEMMA FinalToTranslate ==
  ASSUME IInv, Effects, NEW r \in Roots, r = Parent \/ pc[r] # "absent"
  PROVE  ToTranslate(r)' = ToTranslate(r)
<1>1. CASE r = Parent
  BY <1>1 DEF ToTranslate
<1>2. CASE r # Parent
  <2>1. r \in Siblings /\ Parent \in batch /\ Same(r)
    BY <1>2, RootFacts DEF IInv, Begun, Effects, Moves
  <2>2. \A e \in Episodes : routings'[Parent][e] = routings[Parent][e]
    BY <2>1, Final, RootFacts
  <2> QED
    BY <1>2, <2>1, <2>2 DEF ToTranslate, Retried, Same
<1> QED
  BY <1>1, <1>2

\* A root with a batch has begun, on a parent with a batch and a mini receipt.
LEMMA BatchFacts ==
  ASSUME IInv, NEW r \in batch
  PROVE  /\ r \in Roots /\ Parent \in batch
         /\ r # Parent => r \in Siblings /\ pc[r] # "absent" /\ Parent \in miniRun
BY RootFacts DEF IInv, TypeOK, Begun

LEMMA FinalInputs ==
  ASSUME IInv, Effects, NEW r \in batch
  PROVE  Inputs(r)' = Inputs(r) /\ ToMini(r)' = ToMini(r)
<1>1. r \in Roots /\ Parent \in batch
  BY BatchFacts
<1>2. \A e \in Episodes : /\ routings'[r][e] = routings[r][e]
                          /\ routings'[Parent][e] = routings[Parent][e]
  BY <1>1, Final, RootFacts
<1>3. ToTranslate(r)' = ToTranslate(r)
  BY <1>1, BatchFacts, FinalToTranslate
<1>4. \A e \in Episodes : EffectiveRouting(r, e)' = EffectiveRouting(r, e)
  BY <1>2, <1>3 DEF EffectiveRouting
<1>5. Inputs(r)' = Inputs(r)
  BY <1>4, UnitFacts DEF Inputs
<1>6. CASE r = Parent
  BY <1>1, <1>5, <1>6, FinalParent DEF ToMini
<1>7. CASE r # Parent
  <2>1. Same(r) /\ Parent \in miniRun
    BY <1>7, BatchFacts DEF Effects, Moves
  <2>2. ParentInputs' = ParentInputs /\ ParentInputs \subseteq Units
    BY <1>1, FinalParent DEF ParentInputs
  <2>3. \A u \in Units : mini'[Parent][u] = mini[Parent][u]
    BY <2>1, Final, RootFacts
  <2> QED
    BY <1>5, <1>7, <2>1, <2>2, <2>3 DEF ToMini, Same, RetriedMini
<1> QED
  BY <1>5, <1>6, <1>7

\* A root with a mini receipt has all it needs for the escalation.
LEMMA MiniFacts ==
  ASSUME IInv, NEW r \in miniRun
  PROVE  /\ r \in batch /\ Parent \in batch /\ Parent \in miniRun
         /\ Inputs(r) \subseteq Units /\ ToMini(r) \subseteq Units
         /\ \A u \in ToMini(r) : mini[r][u] # Absent
         /\ \A u \in Inputs(r) : u \notin ToMini(r) => u \in ParentInputs /\ r # Parent
         /\ \A u \in ParentInputs : mini[Parent][u] # Absent
<1>1. r \in Roots /\ r \in batch /\ \A u \in ToMini(r) : mini[r][u] # Absent
  BY RootFacts DEF IInv, TypeOK, MiniResults
<1>2. Parent \in batch /\ Parent \in miniRun
  BY <1>1, BatchFacts
<1>3. ToMini(Parent) = ParentInputs
  BY DEF ToMini
<1>4. \A u \in ParentInputs : mini[Parent][u] # Absent
  BY <1>2, <1>3, RootFacts DEF IInv, MiniResults
<1>5. Inputs(Parent) = ParentInputs
  BY DEF Inputs, ParentInputs, EffectiveRouting
<1>6. Inputs(r) \subseteq Units /\ ToMini(r) \subseteq Units
  BY DEF Inputs, ToMini, RetriedMini, ParentInputs
<1>7. \A u \in Inputs(r) : u \notin ToMini(r) => u \in ParentInputs /\ r # Parent
  BY <1>3, <1>5 DEF ToMini
<1> QED
  BY <1>1, <1>2, <1>4, <1>6, <1>7

LEMMA FinalEscalated ==
  ASSUME IInv, Effects, NEW r \in miniRun, Same(r)
  PROVE  /\ Escalated(r)' = Escalated(r)
         /\ \A u \in Inputs(r) : EffectiveMini(r, u)' = EffectiveMini(r, u)
<1>1. r \in Roots /\ r \in batch /\ Parent \in miniRun /\ Inputs(r) \subseteq Units
  BY MiniFacts, BatchFacts
<1>2. Inputs(r)' = Inputs(r) /\ ToMini(r)' = ToMini(r)
  BY <1>1, FinalInputs
<1>3. \A u \in Units : mini'[r][u] = mini[r][u] /\ mini'[Parent][u] = mini[Parent][u]
  BY <1>1, Final, RootFacts
<1>4. \A u \in Inputs(r) : EffectiveMini(r, u)' = EffectiveMini(r, u)
  BY <1>1, <1>2, <1>3 DEF EffectiveMini
<1> QED
  BY <1>2, <1>4 DEF Escalated, Same

LEMMA FinalToStrong ==
  ASSUME IInv, Effects, NEW r \in miniRun, Same(r)
  PROVE  ToStrong(r)' = ToStrong(r)
<1>1. Escalated(r)' = Escalated(r) /\ Escalated(r) \subseteq Units /\ r \in Roots
  BY FinalEscalated, MiniFacts, BatchFacts DEF Escalated
<1>2. CASE r = Parent
  BY <1>1, <1>2 DEF ToStrong
<1>3. CASE r # Parent
  <2>1. \A u \in strongSeen[r] : strong[Parent][u] # Absent
    BY <1>1, <1>3, RootFacts DEF IInv, StrongResults
  <2>2. \A u \in Units : u \in strongSeen[r] => strong'[Parent][u] = strong[Parent][u]
    BY <2>1, Final, RootFacts
  <2> QED
    BY <1>1, <2>2 DEF ToStrong, Same
<1> QED
  BY <1>2, <1>3

LEMMA FinalPackage ==
  ASSUME IInv, Effects, NEW r \in Siblings, pc[r] = "done"
  PROVE  ReviewReady(r)' = ReviewReady(r)
<1>1. r \in Roots /\ r \in miniRun /\ r \in batch /\ r # Parent /\ Same(r)
  BY RootFacts DEF IInv, Translations, MiniResults, Effects, Moves
<1>2. Inputs(r)' = Inputs(r) /\ Inputs(r) \subseteq Units /\ Parent \in batch
  BY <1>1, FinalInputs, MiniFacts
<1>3. Escalated(r)' = Escalated(r) /\ ToStrong(r)' = ToStrong(r)
  BY <1>1, FinalEscalated, FinalToStrong
<1>4. \A u \in Escalated(r) : EffectiveStrong(r, u)' = EffectiveStrong(r, u)
  <2> SUFFICES ASSUME NEW u \in Escalated(r)
               PROVE  EffectiveStrong(r, u)' = EffectiveStrong(r, u)
    OBVIOUS
  <2>1. u \in Units
    BY <1>2 DEF Escalated
  <2>2. CASE u \in ToStrong(r)
    <3>1. strong[r][u] # Absent
      BY <1>1, <2>2 DEF IInv, StrongResults
    <3> QED
      BY <1>1, <1>3, <2>1, <2>2, <3>1, Final DEF EffectiveStrong
  <2>3. CASE u \notin ToStrong(r)
    <3>1. strong[Parent][u] # Absent
      BY <2>3 DEF ToStrong, IInv, StrongResults
    <3> QED
      BY <1>3, <2>1, <2>3, <3>1, Final, RootFacts DEF EffectiveStrong
  <2> QED
    BY <2>2, <2>3
<1>5. \A u \in Inputs(r) : Accepted(r, u)' = Accepted(r, u)
  BY <1>3, <1>4 DEF Accepted
<1>6. \A e \in Episodes : EffectiveRouting(r, e)' = EffectiveRouting(r, e)
  <2>1. \A e \in Episodes : /\ routings'[r][e] = routings[r][e]
                            /\ routings'[Parent][e] = routings[Parent][e]
    BY <1>1, <1>2, Final, RootFacts
  <2>2. ToTranslate(r)' = ToTranslate(r)
    BY <1>1, FinalToTranslate
  <2> QED
    BY <2>1, <2>2 DEF EffectiveRouting
<1> QED
  BY <1>2, <1>5, <1>6 DEF ReviewReady

\* What a root would package depends on nothing but the results.
LEMMA Frozen ==
  ASSUME routings' = routings, mini' = mini, strong' = strong, NEW r, Same(r)
  PROVE  /\ Inputs(r)' = Inputs(r) /\ Escalated(r)' = Escalated(r)
         /\ ToStrong(r)' = ToStrong(r) /\ ReviewReady(r)' = ReviewReady(r)
<1>1. ToTranslate(r)' = ToTranslate(r) /\ ParentInputs' = ParentInputs
  BY DEF Same, ToTranslate, Retried, ParentInputs
<1>2. \A e : EffectiveRouting(r, e)' = EffectiveRouting(r, e)
  BY <1>1 DEF EffectiveRouting
<1>3. Inputs(r)' = Inputs(r)
  BY <1>2 DEF Inputs
<1>4. ToMini(r)' = ToMini(r)
  BY <1>1, <1>3 DEF ToMini, RetriedMini, Same
<1>5. \A u : EffectiveMini(r, u)' = EffectiveMini(r, u)
  BY <1>4 DEF EffectiveMini
<1>6. Escalated(r)' = Escalated(r)
  BY <1>3, <1>5 DEF Escalated, Same
<1>7. ToStrong(r)' = ToStrong(r)
  BY <1>6 DEF ToStrong, Same
<1>8. \A u : EffectiveStrong(r, u)' = EffectiveStrong(r, u)
  BY <1>7 DEF EffectiveStrong
<1>9. \A u : Accepted(r, u)' = Accepted(r, u)
  BY <1>6, <1>8 DEF Accepted
<1> QED
  BY <1>2, <1>3, <1>6, <1>7, <1>9 DEF ReviewReady

------------------------------------------------------------------------------
\* Every step keeps the invariant.

LEMMA NextBegun == IInv /\ [Next]_vars => Begun'
<1> SUFFICES ASSUME IInv, [Next]_vars PROVE Begun'
  OBVIOUS
<1>1. TypeOK' /\ Effects
  BY StepEffects
<1>2. ASSUME NEW r \in Siblings, pc'[r] = "absent"
      PROVE  /\ r \notin batch' /\ r \notin miniRun' /\ packages'[r] = {}
             /\ \A e \in Episodes : routings'[r][e] = Absent
             /\ \A u \in Units : mini'[r][u] = Absent /\ strong'[r][u] = Absent
  <2>1. pc[r] = "absent" /\ r \in Roots
    BY <1>1, <1>2, RootFacts DEF Effects, Moves
  <2> QED
    BY <1>1, <2>1 DEF IInv, Begun, Effects, Additions, Closings, Packagings
<1>3. ASSUME NEW r \in Siblings, pc'[r] # "absent" PROVE Parent \in batch' /\ Parent \in miniRun'
  <2>1. Parent \in batch /\ Parent \in miniRun
    BY <1>1, <1>3, RootFacts DEF IInv, Begun, Effects, Moves, ParentReadable, Stages
  <2> QED
    BY <1>1, <2>1 DEF Effects, Closings
<1>4. ASSUME NEW r \in Roots, pc'[r] \in Stages PROVE sample'[r] \in Samples
  BY <1>1, <1>4 DEF IInv, Begun, Effects, Moves, Same, Stages
<1> QED
  BY <1>2, <1>3, <1>4 DEF Begun

LEMMA NextTranslations == IInv /\ [Next]_vars => Translations'
<1> SUFFICES ASSUME IInv, [Next]_vars, NEW r \in Roots
             PROVE  /\ \A e \in Episodes : routings'[r][e] # Absent => e \in ToTranslate(r)'
                    /\ r \in batch' => \A e \in ToTranslate(r)' : routings'[r][e] # Absent
                    /\ pc'[r] \in {"mini", "strong", "package", "done"} => r \in batch'
  BY DEF Translations
<1>1. Effects
  BY StepEffects
<1>2. ToTranslate(r) \subseteq Episodes
  BY DEF ToTranslate
<1>3. ASSUME NEW e \in Episodes, routings'[r][e] # Absent PROVE e \in ToTranslate(r)'
  <2>1. e \in ToTranslate(r)
    BY <1>1, <1>3 DEF IInv, Translations, Effects, Additions
  <2>2. r = Parent \/ pc[r] # "absent"
    BY <1>1, <1>3, RootFacts DEF IInv, Begun, Effects, Additions
  <2> QED
    BY <1>1, <2>1, <2>2, FinalToTranslate
<1>4. ASSUME r \in batch' PROVE \A e \in ToTranslate(r)' : routings'[r][e] # Absent
  <2>1. r = Parent \/ pc[r] # "absent"
    BY <1>1, <1>4, RootFacts DEF IInv, Begun, Effects, Closings
  <2>2. ToTranslate(r)' = ToTranslate(r)
    BY <1>1, <2>1, FinalToTranslate
  <2>3. \A e \in ToTranslate(r) : routings[r][e] # Absent
    BY <1>1, <1>4 DEF IInv, Translations, Effects, Closings
  <2> QED
    BY <1>1, <1>2, <2>2, <2>3, Final
<1>5. ASSUME pc'[r] \in {"mini", "strong", "package", "done"} PROVE r \in batch'
  BY <1>1, <1>5 DEF IInv, Translations, Effects, Moves, Closings
<1> QED
  BY <1>3, <1>4, <1>5

LEMMA NextMiniResults == IInv /\ [Next]_vars => MiniResults'
<1> SUFFICES ASSUME IInv, [Next]_vars, NEW r \in Roots
             PROVE  /\ \A u \in Units : mini'[r][u] # Absent => r \in batch' /\ u \in ToMini(r)'
                    /\ r \in miniRun' =>
                         r \in batch' /\ \A u \in ToMini(r)' : mini'[r][u] # Absent
                    /\ pc'[r] \in {"strong", "package", "done"} => r \in miniRun'
  BY DEF MiniResults
<1>1. Effects
  BY StepEffects
<1>2. ToMini(r) \subseteq Units
  BY DEF ToMini, RetriedMini, ParentInputs, Inputs
<1>3. ASSUME NEW u \in Units, mini'[r][u] # Absent PROVE r \in batch' /\ u \in ToMini(r)'
  <2>1. r \in batch /\ u \in ToMini(r)
    BY <1>1, <1>3 DEF IInv, Translations, MiniResults, Effects, Additions
  <2> QED
    BY <1>1, <2>1, FinalInputs DEF Effects, Closings
<1>4. ASSUME r \in miniRun' PROVE r \in batch' /\ \A u \in ToMini(r)' : mini'[r][u] # Absent
  <2>1. r \in batch /\ \A u \in ToMini(r) : mini[r][u] # Absent
    BY <1>1, <1>4 DEF IInv, Translations, MiniResults, Effects, Closings
  <2> QED
    BY <1>1, <1>2, <2>1, Final, FinalInputs DEF Effects, Closings
<1>5. ASSUME pc'[r] \in {"strong", "package", "done"} PROVE r \in miniRun'
  BY <1>1, <1>5 DEF IInv, MiniResults, Effects, Moves, Closings
<1> QED
  BY <1>3, <1>4, <1>5

LEMMA NextStrongResults == IInv /\ [Next]_vars => StrongResults'
<1> SUFFICES ASSUME IInv, [Next]_vars PROVE StrongResults'
  OBVIOUS
<1>1. Effects
  BY StepEffects
<1>2. ASSUME NEW leaves \in strongRuns'
      PROVE  /\ Parent \in batch' /\ leaves \subseteq ParentInputs'
             /\ \A u \in leaves : strong'[Parent][u] # Absent
  <2>1. /\ Parent \in batch /\ leaves \subseteq ParentInputs
        /\ \A u \in leaves : strong[Parent][u] # Absent
    <3>1. CASE leaves \in strongRuns
      BY <3>1 DEF IInv, StrongResults
    <3>2. CASE leaves \notin strongRuns
      <4>1. /\ pc[Parent] = "strong" /\ leaves = Escalated(Parent)
            /\ \A u \in ToStrong(Parent) : strong[Parent][u] # Absent
        BY <1>1, <1>2, <3>2 DEF Effects, Closings
      <4>2. ToStrong(Parent) = Escalated(Parent) /\ Inputs(Parent) = ParentInputs
        BY DEF ToStrong, Escalated, Inputs, ParentInputs, EffectiveRouting
      <4>3. Escalated(Parent) \subseteq ParentInputs
        BY <4>2 DEF Escalated
      <4> QED
        BY <4>1, <4>2, <4>3, RootFacts DEF IInv, Translations
    <3> QED
      BY <3>1, <3>2
  <2>2. ParentInputs' = ParentInputs /\ ParentInputs \subseteq Units
    BY <1>1, <2>1, FinalParent DEF ParentInputs
  <2> QED
    BY <1>1, <2>1, <2>2, Final, RootFacts DEF Effects, Closings
<1>3. ASSUME NEW r \in Siblings PROVE strongSeen'[r] \subseteq UNION strongRuns'
  <2>1. UNION strongRuns \subseteq UNION strongRuns'
    BY <1>1 DEF Effects, Closings
  <2> QED
    BY <1>1, <2>1 DEF IInv, StrongResults, Effects, Moves
<1>4. ASSUME NEW r \in Siblings, NEW u \in Units, strong'[r][u] # Absent
      PROVE  r \in miniRun' /\ u \in ToStrong(r)'
  <2>1. r \in miniRun /\ u \in ToStrong(r) /\ r \in Roots
    BY <1>1, <1>4, RootFacts DEF IInv, MiniResults, StrongResults, Effects, Additions
  <2>2. Same(r)
    BY <1>1, <2>1 DEF IInv, Begun, Effects, Moves
  <2> QED
    BY <1>1, <2>1, <2>2, FinalToStrong DEF Effects, Closings
<1>5. ASSUME NEW r \in Roots, pc'[r] \in {"package", "done"}
      PROVE  \A u \in ToStrong(r)' : strong'[r][u] # Absent
  <2>1. Same(r) /\ \A u \in ToStrong(r) : strong[r][u] # Absent
    <3>1. pc[r] = "mini" /\ Escalated(r) = {} => ToStrong(r) = {}
      BY DEF ToStrong
    <3> QED
      BY <1>1, <1>5, <3>1 DEF IInv, StrongResults, Effects, Moves, Stages
  <2>2. ToStrong(r) \subseteq Units
    BY DEF ToStrong, Escalated, Inputs
  <2>3. CASE r \in miniRun
    <3>1. ToStrong(r)' = ToStrong(r)
      BY <1>1, <2>1, <2>3, FinalToStrong
    <3> QED
      BY <1>1, <2>1, <2>2, <3>1, Final
  <2>4. CASE r \notin miniRun
    <3>1. /\ Escalated(r) = {}
          /\ disk' = <<routings, batch, mini, strong, miniRun', strongRuns, packages>>
      BY <1>1, <1>5, <2>4 DEF IInv, MiniResults, Effects, Moves, Stages
    <3>2. ToStrong(r)' = ToStrong(r)
      BY <2>1, <3>1, Frozen DEF disk
    <3> QED
      BY <3>1, <3>2 DEF ToStrong
  <2> QED
    BY <2>3, <2>4
<1> QED
  BY <1>2, <1>3, <1>4, <1>5 DEF StrongResults

LEMMA ParentFacts ==
  /\ Inputs(Parent) = ParentInputs /\ ParentInputs \subseteq Units
  /\ ToMini(Parent) = ParentInputs /\ ToStrong(Parent) = Escalated(Parent)
  /\ Escalated(Parent) = ParentEscalated(sample[Parent])
  /\ \A e : EffectiveRouting(Parent, e) = routings[Parent][e]
  /\ \A u : EffectiveMini(Parent, u) = mini[Parent][u]
  /\ \A u : EffectiveStrong(Parent, u) = strong[Parent][u]
<1>1. Inputs(Parent) = ParentInputs /\ \A e : EffectiveRouting(Parent, e) = routings[Parent][e]
  BY DEF Inputs, ParentInputs, EffectiveRouting
<1>2. \A u : EffectiveMini(Parent, u) = mini[Parent][u]
  BY DEF EffectiveMini
<1>3. \A u : EffectiveStrong(Parent, u) = strong[Parent][u]
  BY DEF EffectiveStrong
<1>4. Escalated(Parent) = ParentEscalated(sample[Parent])
  BY <1>1, <1>2 DEF Escalated, ParentEscalated
<1> QED
  BY <1>1, <1>2, <1>3, <1>4 DEF ParentInputs, ToMini, ToStrong

LEMMA NextPackages == IInv /\ [Next]_vars => Packages'
<1> SUFFICES ASSUME IInv, [Next]_vars PROVE Packages'
  OBVIOUS
<1>1. Effects
  BY StepEffects
<1>2. ASSUME NEW r \in Siblings, NEW p \in packages'[r]
      PROVE  pc'[r] = "done" /\ p.sample = sample'[r] /\ p.episodes = ReviewReady(r)'
  <2>1. CASE p \in packages[r]
    <3>1. pc[r] = "done" /\ p.sample = sample[r] /\ p.episodes = ReviewReady(r)
      BY <2>1 DEF IInv, Packages
    <3>2. pc'[r] = "done" /\ Same(r)
      BY <1>1, <3>1, RootFacts DEF Effects, Moves, Stages
    <3> QED
      BY <1>1, <3>1, <3>2, FinalPackage DEF Same
  <2>2. CASE p \notin packages[r]
    <3>1. /\ pc'[r] = "done" /\ p.sample = sample[r] /\ p.episodes = ReviewReady(r)
          /\ Same(r) /\ routings' = routings /\ mini' = mini /\ strong' = strong
      BY <1>1, <1>2, <2>2, RootFacts DEF Effects, Packagings
    <3> QED
      BY <3>1, Frozen DEF Same
  <2> QED
    BY <2>1, <2>2
<1>3. ASSUME NEW q \in packages'[Parent]
      PROVE  /\ Parent \in batch /\ Parent \in miniRun
             /\ \A e \in q.episodes :
                  /\ e \in Episodes /\ Translated(routings[Parent][e])
                  /\ \A i \in 1..LeafCount[e] :
                       <<e, i>> \in ParentEscalated(q.sample) => strong[Parent][<<e, i>>] = "pass"
  <2>1. CASE q \in packages[Parent]
    BY <2>1, RootFacts DEF IInv, Packages, TypeOK
  <2>2. CASE q \notin packages[Parent]
    <3>1. pc[Parent] = "package" /\ q.sample = sample[Parent] /\ q.episodes = ReviewReady(Parent)
      BY <1>1, <1>3, <2>2, RootFacts DEF Effects, Packagings
    <3>2. Parent \in batch /\ Parent \in miniRun
      BY <3>1, RootFacts DEF IInv, Translations, MiniResults
    <3>3. ASSUME NEW e \in q.episodes, NEW i \in 1..LeafCount[e],
                 <<e, i>> \in ParentEscalated(q.sample)
          PROVE  strong[Parent][<<e, i>>] = "pass"
      <4>1. e \in Episodes /\ \A u \in Inputs(Parent) : u[1] = e => Accepted(Parent, u)
        BY <3>1 DEF ReviewReady
      <4>2. <<e, i>> \in Inputs(Parent) /\ <<e, i>> \in Escalated(Parent)
        BY <3>1, <3>3, ParentFacts DEF ParentEscalated
      <4> QED
        BY <4>1, <4>2, ParentFacts DEF Accepted
    <3> QED
      BY <3>1, <3>2, <3>3, ParentFacts DEF ReviewReady
  <2> QED
    BY <2>1, <2>2
<1>4. ASSUME NEW q \in packages'[Parent]
      PROVE  /\ Parent \in batch' /\ Parent \in miniRun'
             /\ \A e \in q.episodes :
                  /\ Translated(routings'[Parent][e])
                  /\ \A i \in 1..LeafCount[e] : <<e, i>> \in ParentEscalated(q.sample)'
                       => strong'[Parent][<<e, i>>] = "pass"
  <2>1. Parent \in batch /\ Parent \in miniRun
    BY <1>3
  <2>2. ParentEscalated(q.sample)' = ParentEscalated(q.sample)
    <3>1. ParentInputs' = ParentInputs /\ ParentInputs \subseteq Units
      BY <1>1, <2>1, FinalParent, ParentFacts
    <3>2. \A u \in Units : mini'[Parent][u] = mini[Parent][u]
      BY <1>1, <2>1, Final, RootFacts
    <3> QED
      BY <3>1, <3>2 DEF ParentEscalated
  <2>3. ASSUME NEW e \in q.episodes, NEW i \in 1..LeafCount[e],
               <<e, i>> \in ParentEscalated(q.sample)
        PROVE  strong'[Parent][<<e, i>>] = "pass"
    <3>1. strong[Parent][<<e, i>>] = "pass" /\ <<e, i>> \in Units
      BY <1>3, <2>3, UnitFacts
    <3> QED
      BY <1>1, <3>1, Final, RootFacts, RecoveryAssumption DEF Outcomes
  <2>4. \A e \in q.episodes : Translated(routings'[Parent][e])
    BY <1>1, <1>3, <2>1, Final, RootFacts
  <2> QED
    BY <1>1, <2>1, <2>2, <2>3, <2>4 DEF Effects, Closings
<1> QED
  BY <1>2, <1>4 DEF Packages

LEMMA InitInv == Init => IInv
<1> SUFFICES ASSUME Init PROVE IInv
  OBVIOUS
<1>1. TypeOK
  BY RecoveryAssumption DEF Init, TypeOK, Stages
<1>2. Begun
  BY RootFacts DEF Init, Begun, Stages
<1> QED
  BY <1>1, <1>2, RootFacts
  DEF Init, IInv, Translations, MiniResults, StrongResults, Packages

LEMMA InvHolds == Spec => []IInv
<1>1. IInv /\ [Next]_vars => IInv'
  BY StepEffects, NextBegun, NextTranslations, NextMiniResults, NextStrongResults, NextPackages
  DEF IInv
<1> QED
  BY <1>1, InitInv, PTL DEF Spec

------------------------------------------------------------------------------

\* Consequences of the invariant.

\* A packaged episode of a recovery, by the effective results of its leaves.
LEMMA SiblingPackage ==
  ASSUME IInv, NEW r \in Siblings, NEW p \in packages[r], NEW e \in p.episodes
  PROVE  /\ r \in Roots /\ r # Parent /\ r \in miniRun /\ p.sample = sample[r]
         /\ e \in Episodes /\ Translated(EffectiveRouting(r, e))
         /\ \A i \in 1..LeafCount[e] : /\ <<e, i>> \in Units /\ <<e, i>> \in Inputs(r)
                                       /\ Accepted(r, <<e, i>>)
<1>1. pc[r] = "done" /\ p.sample = sample[r] /\ e \in ReviewReady(r)
  BY DEF IInv, Packages
<1>2. r \in Roots /\ r # Parent /\ r \in miniRun
  BY <1>1, RootFacts DEF IInv, MiniResults
<1>3. ASSUME NEW i \in 1..LeafCount[e]
      PROVE  <<e, i>> \in Units /\ <<e, i>> \in Inputs(r) /\ Accepted(r, <<e, i>>)
  <2>1. e \in Episodes /\ Translated(EffectiveRouting(r, e))
    BY <1>1 DEF ReviewReady
  <2>2. <<e, i>> \in Units
    BY <2>1, UnitFacts
  <2>3. <<e, i>> \in Inputs(r)
    BY <2>1, <2>2 DEF Inputs
  <2> QED
    BY <1>1, <2>2, <2>3 DEF ReviewReady
<1> QED
  BY <1>1, <1>2, <1>3 DEF ReviewReady

\* A routing that is retried has no failure that was not selected except one
\* that led to the fallback.
LEMMA RetriedRouting ==
  ASSUME NEW e \in Episodes, NEW routing \in Routings(e), NEW chosen \in SUBSET Retryable,
         RetryTranslation(routing, chosen)
  PROVE  \A i \in DOMAIN routing : routing[i].code \notin OtherCodes
<1>1. ASSUME NEW p \in RouteResults(e), routing = <<p>>
      PROVE  \A i \in DOMAIN routing : routing[i].code \notin OtherCodes
  BY <1>1, RouteAssumption DEF RetryTranslation, Terminal
<1>2. ASSUME NEW p \in RouteResults(e), NEW f \in RouteResults(e), ShouldFallback(p),
             routing = <<p, f>>
      PROVE  \A i \in DOMAIN routing : routing[i].code \notin OtherCodes
  BY <1>2, RouteAssumption DEF RetryTranslation, Terminal, ShouldFallback
<1> QED
  BY <1>1, <1>2 DEF Routings

LEMMA SampledLess ==
  ASSUME NEW u \in Units, NEW m \in Percents, NEW n \in Percents, m <= n, Sampled(u, m)
  PROVE  Sampled(u, n)
<1> DEFINE bucket == Bucket[u]
<1>1. bucket \in 0..9999
  BY EvidenceAssumption
<1>2. bucket < m * 100
  BY DEF Sampled
<1> HIDE DEF bucket
<1>3. bucket < n * 100
  BY <1>1, <1>2 DEF Percents
<1> QED
  BY <1>3 DEF Sampled, bucket

------------------------------------------------------------------------------

\* Run and recovery keep to their types; in particular a batch holds the routes
\* that `_should_fallback` allows and no others.
THEOREM RecoveryTypeCorrect == Spec => []TypeOK
BY InvHolds, PTL DEF IInv

\* The coverage checks of consensus and package never refuse what a run or a
\* recovery has paid for.
THEOREM RequestsAreCovered == Spec => []Covered
<1>1. IInv => Covered
  <2> SUFFICES ASSUME IInv, NEW r \in Roots, pc[r] = "package"
               PROVE  /\ \A u \in Inputs(r) : EffectiveMini(r, u) # Absent
                      /\ \A u \in Escalated(r) : EffectiveStrong(r, u) # Absent
    BY DEF Covered
  <2>1. r \in miniRun
    BY DEF IInv, MiniResults
  <2>2. \A u \in Inputs(r) : EffectiveMini(r, u) # Absent
    BY <2>1, MiniFacts DEF EffectiveMini
  <2>3. ASSUME NEW u \in Escalated(r) PROVE EffectiveStrong(r, u) # Absent
    <3>1. CASE u \in ToStrong(r)
      BY <3>1 DEF EffectiveStrong, IInv, StrongResults
    <3>2. CASE u \notin ToStrong(r)
      <4>1. r \in Siblings /\ u \in strongSeen[r]
        BY <3>2, RootFacts DEF ToStrong
      <4> QED
        BY <3>2, <4>1 DEF EffectiveStrong, IInv, StrongResults
    <3> QED
      BY <3>1, <3>2
  <2> QED
    BY <2>2, <2>3
<1> QED
  BY <1>1, InvHolds, PTL

\* A recovery pays again for nothing but what ended with a status it was told to
\* retry, whatever the run has left and whatever was done in which order.
THEOREM OnlyNamedIsRetried == Spec => []OnlyNamedRetried
<1>1. IInv => OnlyNamedRetried
  <2> SUFFICES ASSUME IInv, NEW r \in Siblings
      PROVE  /\ \A e \in Episodes : routings[r][e] # Absent =>
                  /\ Terminal(routings[Parent][e]).code \in statuses[r]
                  /\ \A i \in DOMAIN routings[Parent][e] :
                       routings[Parent][e][i].code \notin OtherCodes
             /\ \A u \in Units : mini[r][u] # Absent =>
                  mini[Parent][u] \in statuses[r] \cup {Absent}
             /\ \A u \in strongSeen[r] : strong[r][u] # Absent =>
                  strong[Parent][u] \in statuses[r]
    BY DEF OnlyNamedRetried
  <2>1. statuses[r] \in SUBSET Retryable /\ r \in Roots /\ r # Parent
    BY RootFacts DEF IInv, TypeOK
  <2>2. ASSUME NEW e \in Episodes, routings[r][e] # Absent
        PROVE  /\ Terminal(routings[Parent][e]).code \in statuses[r]
               /\ \A i \in DOMAIN routings[Parent][e] :
                    routings[Parent][e][i].code \notin OtherCodes
    <3>1. Retried(e, statuses[r]) /\ Parent \in batch
      BY <2>1, <2>2 DEF IInv, Translations, ToTranslate, Begun
    <3>2. routings[Parent][e] \in Routings(e)
      BY <3>1, RootFacts DEF IInv, Translations, ToTranslate, TypeOK
    <3>3. Terminal(routings[Parent][e]).code \in statuses[r]
      BY <3>1 DEF Retried, RetryTranslation
    <3> QED
      BY <2>1, <3>1, <3>2, <3>3, RetriedRouting DEF Retried
  <2>3. ASSUME NEW u \in Units, mini[r][u] # Absent
        PROVE  mini[Parent][u] \in statuses[r] \cup {Absent}
    <3>1. u \in ToMini(r)
      BY <2>1, <2>3 DEF IInv, MiniResults
    <3>2. CASE u \in RetriedMini(statuses[r])
      BY <3>2 DEF RetriedMini
    <3>3. CASE u \notin ParentInputs
      BY <3>3, ParentFacts, RootFacts DEF IInv, MiniResults
    <3> QED
      BY <2>1, <3>1, <3>2, <3>3 DEF ToMini
  <2>4. ASSUME NEW u \in strongSeen[r], strong[r][u] # Absent
        PROVE  strong[Parent][u] \in statuses[r]
    <3>1. u \in Units /\ u \in ToStrong(r)
      BY <2>1, <2>4 DEF IInv, TypeOK, StrongResults
    <3> QED
      BY <2>1, <2>4, <3>1 DEF ToStrong
  <2> QED
    BY <2>2, <2>3, <2>4
<1> QED
  BY <1>1, InvHolds, PTL

\* Every leaf of every package has passed the judge that had to decide on it.
THEOREM PackagesAreDecided == Spec => []PackagedIsDecided
<1>1. IInv => PackagedIsDecided
  <2> SUFFICES ASSUME IInv, NEW r \in Roots, NEW p \in packages[r], NEW e \in p.episodes
      PROVE  /\ \E o \in {r, Parent} : routings[o][e] # Absent /\ Translated(routings[o][e])
             /\ \A i \in 1..LeafCount[e] :
                  \/ Latest(mini, r, <<e, i>>) = "pass" /\ ~Sampled(<<e, i>>, p.sample)
                  \/ Latest(strong, r, <<e, i>>) = "pass"
    BY DEF PackagedIsDecided
  <2>1. "pass" # Absent
    BY RecoveryAssumption DEF Outcomes
  <2>2. Parent \in batch => \A f \in Episodes : routings[Parent][f] # Absent
    BY RootFacts DEF IInv, Translations, ToTranslate
  <2>3. CASE r = Parent
    <3>1. /\ Parent \in batch /\ e \in Episodes /\ Translated(routings[Parent][e])
          /\ \A i \in 1..LeafCount[e] :
               <<e, i>> \in ParentEscalated(p.sample) => strong[Parent][<<e, i>>] = "pass"
      BY <2>3, RootFacts DEF IInv, Packages, TypeOK
    <3>2. \A i \in 1..LeafCount[e] : <<e, i>> \in ParentInputs
      BY <3>1, UnitFacts DEF ParentInputs
    <3>3. \A i \in 1..LeafCount[e] : /\ Latest(mini, r, <<e, i>>) = mini[Parent][<<e, i>>]
                                     /\ Latest(strong, r, <<e, i>>) = strong[Parent][<<e, i>>]
      BY <2>3 DEF Latest
    <3> QED
      BY <2>2, <2>3, <3>1, <3>2, <3>3 DEF ParentEscalated, Escalates
  <2>4. CASE r \in Siblings
    <3>1. /\ r # Parent /\ r \in miniRun /\ p.sample = sample[r]
          /\ e \in Episodes /\ Translated(EffectiveRouting(r, e))
      BY <2>4, SiblingPackage
    <3>2. r \in batch /\ Parent \in batch
      BY <3>1, MiniFacts
    <3>3. \E o \in {r, Parent} : routings[o][e] # Absent /\ Translated(routings[o][e])
      BY <2>2, <3>1, <3>2 DEF EffectiveRouting, IInv, Translations
    <3>4. ASSUME NEW i \in 1..LeafCount[e]
          PROVE  \/ Latest(mini, r, <<e, i>>) = "pass" /\ ~Sampled(<<e, i>>, p.sample)
                 \/ Latest(strong, r, <<e, i>>) = "pass"
      <4> DEFINE u == <<e, i>>
      <4>1. u \in Units /\ u \in Inputs(r) /\ Accepted(r, u)
        BY <2>4, SiblingPackage
      <4> HIDE DEF u
      <4>2. CASE u \in Escalated(r)
        <5>1. EffectiveStrong(r, u) = "pass"
          BY <4>1, <4>2 DEF Accepted
        <5>2. u \in ToStrong(r) => strong[r][u] = "pass"
          BY <5>1 DEF EffectiveStrong
        <5>3. u \notin ToStrong(r) => strong[r][u] = Absent /\ strong[Parent][u] = "pass"
          BY <2>4, <4>1, <5>1 DEF EffectiveStrong, IInv, StrongResults
        <5>4. Latest(strong, r, u) = "pass"
          BY <2>1, <5>2, <5>3 DEF Latest
        <5> QED
          BY <5>4 DEF u
      <4>3. CASE u \notin Escalated(r)
        <5>1. EffectiveMini(r, u) = "pass" /\ ~Sampled(u, p.sample)
          BY <3>1, <4>1, <4>3 DEF Escalated, Escalates
        <5>2. u \in ToMini(r) => mini[r][u] = "pass"
          BY <5>1 DEF EffectiveMini
        <5>3. u \notin ToMini(r) => mini[r][u] = Absent /\ mini[Parent][u] = "pass"
          BY <4>1, <5>1 DEF EffectiveMini, IInv, MiniResults
        <5>4. Latest(mini, r, u) = "pass"
          BY <2>1, <5>2, <5>3 DEF Latest
        <5> QED
          BY <5>1, <5>4 DEF u
      <4> QED
        BY <4>2, <4>3
    <3> QED
      BY <3>3, <3>4
  <2> QED
    BY <2>3, <2>4, RootFacts
<1> QED
  BY <1>1, InvHolds, PTL

\* A recovery takes nothing away that the run has packaged, unless it draws a
\* larger sample or has not read the strong results behind the package.
THEOREM RecoveryOnlyAdds == Spec => []RecoveryKeepsPackaged
<1>1. IInv => RecoveryKeepsPackaged
  <2> SUFFICES ASSUME IInv, NEW r \in Siblings, NEW p \in packages[r], NEW q \in packages[Parent],
                      p.sample <= q.sample, ParentEscalated(q.sample) \subseteq strongSeen[r],
                      NEW e \in q.episodes
               PROVE  e \in p.episodes
    BY DEF RecoveryKeepsPackaged
  <2>1. /\ pc[r] = "done" /\ p.sample = sample[r] /\ p.episodes = ReviewReady(r)
        /\ r \in Roots /\ r # Parent
    BY RootFacts DEF IInv, Packages
  <2>2. statuses[r] \subseteq Retryable /\ p.sample \in Percents /\ q.sample \in Percents
    BY <2>1, RootFacts, RecoveryAssumption DEF IInv, TypeOK
  <2>3. "pass" \notin statuses[r] /\ "none" \notin statuses[r]
    BY <2>2, RouteAssumption, EvidenceAssumption DEF Codes
  <2>4. /\ e \in Episodes /\ Translated(routings[Parent][e])
        /\ \A i \in 1..LeafCount[e] :
             <<e, i>> \in ParentEscalated(q.sample) => strong[Parent][<<e, i>>] = "pass"
    BY RootFacts DEF IInv, Packages, TypeOK
  <2>5. e \notin ToTranslate(r)
    BY <2>1, <2>3, <2>4 DEF ToTranslate, Retried, RetryTranslation, Translated
  <2>6. EffectiveRouting(r, e) = routings[Parent][e]
    BY <2>5 DEF EffectiveRouting
  <2>7. ASSUME NEW u \in Inputs(r), u[1] = e, u \in Escalated(r)
        PROVE  EffectiveStrong(r, u) = "pass"
    <3>1. u \in Units /\ u \in ParentInputs
      BY <2>4, <2>7 DEF Inputs, ParentInputs
    <3>2. PICK i \in 1..LeafCount[e] : u = <<e, i>>
      BY <2>7, <3>1, UnitFacts
    <3>3. CASE u \in ParentEscalated(q.sample)
      <4>1. strong[Parent][u] = "pass" /\ u \in strongSeen[r]
        BY <2>4, <3>2, <3>3
      <4>2. u \notin ToStrong(r)
        BY <2>1, <2>3, <4>1 DEF ToStrong
      <4> QED
        BY <4>1, <4>2 DEF EffectiveStrong
    <3>4. CASE u \notin ParentEscalated(q.sample)
      <4>1. mini[Parent][u] = "pass" /\ ~Sampled(u, q.sample)
        BY <3>1, <3>4 DEF ParentEscalated, Escalates
      <4>2. u \notin ToMini(r)
        BY <2>1, <2>3, <3>1, <4>1 DEF ToMini, RetriedMini
      <4>3. EffectiveMini(r, u) = "pass" /\ ~Sampled(u, sample[r])
        BY <2>1, <2>2, <3>1, <4>1, <4>2, SampledLess DEF EffectiveMini
      <4> QED
        BY <2>7, <4>3 DEF Escalated, Escalates
    <3> QED
      BY <3>3, <3>4
  <2> QED
    BY <2>1, <2>4, <2>6, <2>7 DEF ReviewReady, Accepted
<1> QED
  BY <1>1, InvHolds, PTL

\* A strong result that is not a pass keeps its leaf out of the packages of a
\* recovery until it, or the mini result before it, is retried or the leaf
\* leaves the sample.
THEOREM StrongResultsStand == Spec => []StrongStands
<1>1. IInv => StrongStands
  <2> SUFFICES ASSUME IInv, NEW r \in Siblings, NEW p \in packages[r], NEW e \in p.episodes,
                      NEW i \in 1..LeafCount[e],
                      <<e, i>> \in strongSeen[r], strong[Parent][<<e, i>>] # "pass"
      PROVE  \/ strong[Parent][<<e, i>>] \in statuses[r]
             \/ mini[Parent][<<e, i>>] \in statuses[r]
             \/ mini[Parent][<<e, i>>] = "pass" /\ ~Sampled(<<e, i>>, p.sample)
    BY DEF StrongStands
  <2> DEFINE u == <<e, i>>
  <2>1. r # Parent /\ p.sample = sample[r] /\ u \in Inputs(r) /\ Accepted(r, u)
    BY SiblingPackage
  <2>2. u \in strongSeen[r] /\ strong[Parent][u] # "pass"
    OBVIOUS
  <2> HIDE DEF u
  <2>3. u \in ParentInputs
    BY <2>2 DEF IInv, StrongResults
  <2>4. CASE u \in Escalated(r)
    <3>1. EffectiveStrong(r, u) = "pass"
      BY <2>1, <2>4 DEF Accepted
    <3>2. u \in ToStrong(r)
      BY <2>2, <3>1 DEF EffectiveStrong
    <3>3. strong[Parent][u] \in statuses[r]
      BY <2>1, <2>2, <3>2 DEF ToStrong
    <3> QED
      BY <3>3 DEF u
  <2>5. CASE u \notin Escalated(r)
    <3>1. EffectiveMini(r, u) = "pass" /\ ~Sampled(u, p.sample)
      BY <2>1, <2>5 DEF Escalated, Escalates
    <3>2. u \in ToMini(r) => mini[Parent][u] \in statuses[r]
      BY <2>1, <2>3 DEF ToMini, RetriedMini
    <3>3. u \notin ToMini(r) => mini[Parent][u] = "pass"
      BY <3>1 DEF EffectiveMini
    <3> QED
      BY <3>1, <3>2, <3>3 DEF u
  <2> QED
    BY <2>4, <2>5
<1> QED
  BY <1>1, InvHolds, PTL

------------------------------------------------------------------------------
\* The stages of the run are the abstract ones, which AutonomousTranslation and
\* LiveEvaluation implement.

Translation == INSTANCE TranslationStage WITH
  routings <- routings[Parent],
  published <- Parent \in batch

MiniJudge == INSTANCE JudgingStage WITH
  Rows <- Units,
  results <- mini[Parent],
  covered <- IF Parent \in miniRun THEN {ParentInputs} ELSE {}

StrongJudge == INSTANCE JudgingStage WITH
  Rows <- Units,
  results <- strong[Parent],
  covered <- strongRuns

LEMMA SameRoutings == \A e \in Episodes : Translation!Routings(e) = Routings(e)
  BY DEF Translation!Routings, Translation!RouteResults, Translation!ShouldFallback,
     Translation!Codes, Routings, RouteResults, ShouldFallback, Codes

LEMMA StagesInit == Init => Translation!Init /\ MiniJudge!Init /\ StrongJudge!Init
  BY RootFacts DEF Init, Translation!Init, MiniJudge!Init, StrongJudge!Init

LEMMA TranslationStep == IInv /\ [Next]_vars => [Translation!Next]_(Translation!vars)
<1> SUFFICES ASSUME IInv, [Next]_vars PROVE [Translation!Next]_(Translation!vars)
  OBVIOUS
<1>0. /\ Parent \in Roots /\ DOMAIN routings = Roots
      /\ \A e \in Episodes : routings[Parent][e] \in Routings(e) \cup {Absent}
      /\ DOMAIN routings[Parent] = Episodes
  BY RootFacts DEF IInv, TypeOK
<1>1. ASSUME NEW e \in Episodes, Translate(Parent, e) PROVE Translation!Translate(e)
  <2>1. PICK routing \in Routings(e) : routings' = [routings EXCEPT ![Parent][e] = routing]
    BY <1>1 DEF Translate
  <2>2. routings'[Parent] = [routings[Parent] EXCEPT ![e] = routing]
    BY <1>0, <2>1
  <2>3. routings'[Parent][e] = routing /\ routing # Absent
    BY <1>0, <2>2, RecoveryAssumption
  <2>4. routings'[Parent] = [routings[Parent] EXCEPT ![e] = routings'[Parent][e]]
    BY <2>2, <2>3
  <2> QED
    BY <1>1, <2>3, <2>4, SameRoutings DEF Translate, Translation!Translate
<1>2. CASE EndTranslation(Parent)
  <2>1. Translation!Publish
    BY <1>0, <1>2 DEF EndTranslation, ToTranslate, Translation!Publish, IInv, TypeOK
  <2> QED
    BY <2>1 DEF Translation!Next
<1>3. ASSUME ~EndTranslation(Parent), \A e \in Episodes : ~Translate(Parent, e)
      PROVE  routings'[Parent] = routings[Parent] /\ (Parent \in batch' <=> Parent \in batch)
  <2>1. ASSUME NEW r \in Roots, NEW e \in Episodes, Translate(r, e)
        PROVE  routings'[Parent] = routings[Parent] /\ UNCHANGED batch
    BY <1>0, <1>3, <2>1 DEF Translate
  <2>2. ASSUME NEW r \in Roots, EndTranslation(r)
        PROVE  UNCHANGED routings /\ (Parent \in batch' <=> Parent \in batch)
    BY <1>3, <2>2 DEF EndTranslation
  <2>3. ASSUME \A r \in Roots : ~EndTranslation(r) /\ \A e \in Episodes : ~Translate(r, e)
        PROVE  UNCHANGED <<routings, batch>>
    BY <2>3 DEF Next, Run, Recover, Stage, JudgeMini, EndMini, JudgeStrong, EndStrong, Package,
       Crash, vars, disk
  <2> QED
    BY <2>1, <2>2, <2>3
<1>4. ASSUME routings'[Parent] = routings[Parent], Parent \in batch' <=> Parent \in batch
      PROVE  UNCHANGED Translation!vars
  BY <1>4 DEF Translation!vars
<1> QED
  BY <1>1, <1>2, <1>3, <1>4 DEF Translation!Next

LEMMA MiniStep == IInv /\ Effects /\ [Next]_vars => [MiniJudge!Next]_(MiniJudge!vars)
<1> SUFFICES ASSUME IInv, Effects, [Next]_vars PROVE [MiniJudge!Next]_(MiniJudge!vars)
  OBVIOUS
<1> DEFINE covered == IF Parent \in miniRun THEN {ParentInputs} ELSE {}
<1>0. Parent \in Roots /\ mini \in [Roots -> [Units -> Outcomes \cup {Absent}]]
  BY RootFacts DEF IInv, TypeOK
<1>1. ParentInputs' = ParentInputs \/ Parent \notin miniRun
  BY FinalParent, <1>0 DEF IInv, MiniResults
<1>2. ASSUME NEW u \in Units, JudgeMini(Parent, u) PROVE MiniJudge!Judge(u)
  <2>1. PICK outcome \in Outcomes : mini' = [mini EXCEPT ![Parent][u] = outcome]
    BY <1>2 DEF JudgeMini
  <2>2. mini'[Parent] = [mini[Parent] EXCEPT ![u] = outcome]
    BY <1>0, <2>1
  <2>3. UNCHANGED covered
    BY <1>2 DEF JudgeMini, ParentInputs
  <2> QED
    BY <1>2, <2>2, <2>3 DEF JudgeMini, MiniJudge!Judge
<1>3. CASE EndMini(Parent)
  <2>1. UNCHANGED <<mini, routings>> /\ miniRun' = miniRun \cup {Parent}
    BY <1>3 DEF EndMini
  <2>2. ParentInputs' = ParentInputs /\ ToMini(Parent) = ParentInputs
    BY <2>1 DEF ParentInputs, ToMini
  <2>3. PICK rows \in SUBSET Units : rows = ParentInputs
    BY DEF ParentInputs
  <2>4. covered' = covered \cup {rows}
    BY <2>1, <2>2, <2>3
  <2>5. MiniJudge!Report(rows)
    BY <1>3, <2>1, <2>2, <2>3, <2>4 DEF EndMini, MiniJudge!Report
  <2> QED
    BY <2>5 DEF MiniJudge!Next
<1>4. ASSUME ~EndMini(Parent), \A u \in Units : ~JudgeMini(Parent, u)
      PROVE  mini'[Parent] = mini[Parent] /\ (Parent \in miniRun' <=> Parent \in miniRun)
  <2>1. ASSUME NEW r \in Roots, NEW u \in Units, JudgeMini(r, u)
        PROVE  mini'[Parent] = mini[Parent] /\ UNCHANGED miniRun
    BY <1>0, <1>4, <2>1 DEF JudgeMini
  <2>2. ASSUME NEW r \in Roots, EndMini(r)
        PROVE  UNCHANGED mini /\ (Parent \in miniRun' <=> Parent \in miniRun)
    BY <1>4, <2>2 DEF EndMini
  <2>3. ASSUME \A r \in Roots : ~EndMini(r) /\ \A u \in Units : ~JudgeMini(r, u)
        PROVE  UNCHANGED <<mini, miniRun>>
    BY <2>3 DEF Next, Run, Recover, Stage, Translate, EndTranslation, JudgeStrong, EndStrong,
       Package, Crash, vars, disk
  <2> QED
    BY <2>1, <2>2, <2>3
<1>5. ASSUME mini'[Parent] = mini[Parent], Parent \in miniRun' <=> Parent \in miniRun
      PROVE  UNCHANGED MiniJudge!vars
  BY <1>1, <1>5 DEF MiniJudge!vars
<1> QED
  BY <1>2, <1>3, <1>4, <1>5 DEF MiniJudge!Next

LEMMA StrongStep == IInv /\ [Next]_vars => [StrongJudge!Next]_(StrongJudge!vars)
<1> SUFFICES ASSUME IInv, [Next]_vars PROVE [StrongJudge!Next]_(StrongJudge!vars)
  OBVIOUS
<1>0. Parent \in Roots /\ strong \in [Roots -> [Units -> Outcomes \cup {Absent}]]
  BY RootFacts DEF IInv, TypeOK
<1>1. ASSUME NEW u \in Units, JudgeStrong(Parent, u) PROVE StrongJudge!Judge(u)
  <2>1. PICK outcome \in Outcomes : strong' = [strong EXCEPT ![Parent][u] = outcome]
    BY <1>1 DEF JudgeStrong
  <2>2. strong'[Parent] = [strong[Parent] EXCEPT ![u] = outcome]
    BY <1>0, <2>1
  <2> QED
    BY <1>1, <2>2 DEF JudgeStrong, StrongJudge!Judge
<1>2. CASE EndStrong(Parent)
  <2>1. ToStrong(Parent) = Escalated(Parent)
    BY DEF ToStrong, Escalated
  <2>2. PICK rows \in SUBSET Units : rows = Escalated(Parent)
    BY DEF Escalated, Inputs
  <2>3. StrongJudge!Report(rows)
    BY <1>2, <2>1, <2>2 DEF EndStrong, StrongJudge!Report
  <2> QED
    BY <2>3 DEF StrongJudge!Next
<1>3. ASSUME ~EndStrong(Parent), \A u \in Units : ~JudgeStrong(Parent, u)
      PROVE  strong'[Parent] = strong[Parent] /\ UNCHANGED strongRuns
  <2>1. ASSUME NEW r \in Roots, NEW u \in Units, JudgeStrong(r, u)
        PROVE  strong'[Parent] = strong[Parent] /\ UNCHANGED strongRuns
    BY <1>0, <1>3, <2>1 DEF JudgeStrong
  <2>2. ASSUME NEW r \in Roots, EndStrong(r) PROVE UNCHANGED <<strong, strongRuns>>
    BY <1>3, <2>2 DEF EndStrong
  <2>3. ASSUME \A r \in Roots : ~EndStrong(r) /\ \A u \in Units : ~JudgeStrong(r, u)
        PROVE  UNCHANGED <<strong, strongRuns>>
    BY <2>3 DEF Next, Run, Recover, Stage, Translate, EndTranslation, JudgeMini, EndMini,
       Package, Crash, vars, disk
  <2> QED
    BY <2>1, <2>2, <2>3
<1>4. ASSUME strong'[Parent] = strong[Parent], UNCHANGED strongRuns
      PROVE  UNCHANGED StrongJudge!vars
  BY <1>4 DEF StrongJudge!vars
<1> QED
  BY <1>1, <1>2, <1>3, <1>4 DEF StrongJudge!Next

\* However a run is repeated with other percentages, crashes and is recovered
\* from, its root shows the three stages of their abstract specifications: what
\* the detailed modules are proved to implement is what the recovery reads.
THEOREM RunIsItsStages == Spec => Translation!Spec /\ MiniJudge!Spec /\ StrongJudge!Spec
  BY StagesInit, InvHolds, StepEffects, TranslationStep, MiniStep, StrongStep, PTL
     DEF Spec, Translation!Spec, MiniJudge!Spec, StrongJudge!Spec

==============================================================================
