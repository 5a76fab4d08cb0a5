--------------------- MODULE AutonomousTranslationProofs ---------------------
(***************************************************************************)
(* The batch translation for every number of episodes, leaves, workers,    *)
(* variants, crashes and edits.                                            *)
(***************************************************************************)
EXTENDS AutonomousTranslation, FiniteSetTheorems, TLAPS

\* What a job's program counter says about the run and the receipts.
JobShape(e) ==
  /\ pc[e] # "idle" => run # "down"
  /\ pc[e] \in {"claimed", "delivered", "answered", "recorded"} =>
       InRoute(e) /\ Slot(e) \in claims
  /\ pc[e] \in {"answered", "recorded"} => held[e] # Absent
  /\ pc[e] = "decide" => Receipt(e) # Absent
  /\ pc[e] = "done" => receipts[e]["primary"] # Absent
  /\ route[e] = "fallback" =>
       /\ pc[e] \in Working \cup {"raised"}
       /\ receipts[e]["primary"] # Absent
       /\ ShouldFallback(receipts[e]["primary"])

Shape == TypeOK /\ \A e \in Episodes : JobShape(e)

\* The slot whose request a job has claimed and not yet sent.
Pending(s) == pc[s[1]] = "claimed" /\ s = Slot(s[1])

\* A request is paid for at most once, and not before its claim.
PaidAfterClaim(s) ==
  /\ sends[s] \in {0, 1}
  /\ s \notin claims \/ Pending(s) => sends[s] = 0

Inside == {"leaf", "claimed", "delivered", "answered", "recorded"}

\* A job on its way through a route: the leaves behind it are filed, the one it
\* works on is not, and the route has no receipt yet.
JobPath(e) ==
  /\ pc[e] \in {"idle", "queued", "route"} => at[e] = 1
  /\ pc[e] \in Inside \cup {"failed"} => Receipt(e) = Absent
  /\ pc[e] \in Inside => \A s \in RouteSlots(e) : s[3] < at[e] => leaves[s] # Absent
  /\ pc[e] \in Inside \ {"leaf"} => leaves[Slot(e)] = Absent
  /\ pc[e] = "recorded" =>
       attempts[Slot(e)] = IF held[e] \in Codes THEN held[e] ELSE "succeeded"

\* A leaf result stems from a recorded success, a record from a claim.
Filed(s) ==
  /\ leaves[s] # Absent => attempts[s] = "succeeded"
  /\ attempts[s] # Absent => s \in claims

\* Leaves are begun in order: all before a claimed one are done.
InOrder ==
  \A s, t \in Slots :
    (s[1] = t[1] /\ s[2] = t[2] /\ s[3] < t[3] /\ t \in claims) => leaves[s] # Absent

Path == (\A e \in Episodes : JobPath(e)) /\ (\A s \in Slots : Filed(s)) /\ InOrder

SlotsOf(e, rt) == {s \in Slots : s[1] = e /\ s[2] = rt}

\* What a receipt says about the slots of its route.
ReceiptTells(e, rt) ==
  receipts[e][rt] # Absent =>
    /\ ShouldFallback(receipts[e][rt]) => \A s \in SlotsOf(e, rt) : ~Uncertain(s)
    /\ receipts[e][rt].status = "translated" =>
         \A s \in SlotsOf(e, rt) : leaves[s] = "translated"

Receipted == \A e \in Episodes, rt \in Routes : ReceiptTells(e, rt)

\* How a route ended: with all its leaves, or by a failure its records show.
EndTells(e, rt) ==
  receipts[e][rt] # Absent =>
    /\ receipts[e][rt].status # "failed" => \A s \in SlotsOf(e, rt) : leaves[s] # Absent
    /\ receipts[e][rt].status = "failed" =>
         \/ receipts[e][rt].code = "unknown"
         \/ \E s \in SlotsOf(e, rt) : attempts[s] = receipts[e][rt].code /\ attempts[s] \in Codes

Ends == \A e \in Episodes, rt \in Routes : EndTells(e, rt)

\* The second model is paid only behind a receipt that allows it.
SecondPaid ==
  \A t \in Slots : (t[2] = "fallback" /\ sends[t] > 0) =>
    /\ receipts[t[1]]["primary"] # Absent
    /\ ShouldFallback(receipts[t[1]]["primary"])

\* A published row quotes the receipts of its episode.
RowsQuote ==
  \A row \in results :
    /\ receipts[row.episode]["primary"] # Absent
    /\ row.primary = receipts[row.episode]["primary"]
    /\ row.fallback \in {Absent, receipts[row.episode]["fallback"]}

\* The row of a decided episode depends on nothing but its receipts.
Quote(e, v) ==
  [episode |-> e, variant |-> v, primary |-> receipts[e]["primary"],
   fallback |-> IF ShouldFallback(receipts[e]["primary"])
                THEN receipts[e]["fallback"] ELSE Absent]

BatchStands(b) ==
  /\ b = [input |-> b.input, rows |-> b.rows]
  /\ \A e \in Episodes : Decided(e) /\ b.rows[e] = Quote(e, b.input[e])

BatchesQuote ==
  /\ \A e \in Episodes : pc[e] = "done" => Decided(e)
  /\ \A b \in batches : BatchStands(b)

------------------------------------------------------------------------------

LEMMA InitShape == Init => Shape
  BY BatchAssumption
     DEF Init, Shape, TypeOK, JobShape, Waiting, Working, Routes

\* Rows and receipts keep their types.
LEMMA RowType ==
  ASSUME Shape, NEW e \in Episodes, receipts[e]["primary"] # Absent, run # "down"
  PROVE  RowOf(e) \in Rows
<1>1. receipts[e]["primary"] \in Receipts /\ receipts[e]["fallback"] \in Receipts \cup {Absent}
  BY DEF Shape, TypeOK, Routes
<1>2. seen[e] \in Variants
  BY DEF Shape, TypeOK
<1> QED
  BY <1>1, <1>2 DEF RowOf, Rows

LEMMA SelectedType ==
  ASSUME NEW row \in Rows, Selected(row) # Absent
  PROVE  Selected(row).variant \in Variants \cup {Absent}
<1>1. row.primary \in Receipts /\ row.fallback \in Receipts \cup {Absent}
  BY DEF Rows
<1> QED
  BY <1>1 DEF Selected, Receipts

LEMMA SlotInSlots == \A e \in Episodes : Shape /\ InRoute(e) => Slot(e) \in Slots
  BY DEF Shape, TypeOK, InRoute, Slot, Slots

LEMMA ReceiptType ==
  ASSUME Shape, NEW e \in Episodes
  PROVE  /\ [status |-> RouteStatus(e), code |-> "none", variant |-> inputs[e]] \in Receipts
         /\ \A code \in RouteFailures(e) :
              [status |-> "failed", code |-> code, variant |-> Absent] \in Receipts
<1>1. RouteFailures(e) \subseteq Codes \cup {"unknown"}
  BY DEF RouteFailures
<1> QED
  BY <1>1 DEF Shape, TypeOK, RouteStatus, Receipts

\* Publishing a receipt leaves all others alone.
LEMMA ReceiptFiled ==
  ASSUME Shape, NEW e \in Episodes, NEW r \in Receipts, PublishReceipt(e, r)
  PROVE  \A d \in Episodes, rt \in Routes :
           receipts'[d][rt] = IF d = e /\ rt = route[e] THEN r ELSE receipts[d][rt]
<1>1. receipts \in [Episodes -> [Routes -> Receipts \cup {Absent}]] /\ route[e] \in Routes
  BY DEF Shape, TypeOK
<1>2. receipts' = [receipts EXCEPT ![e][route[e]] = r]
  BY DEF PublishReceipt
<1> QED
  BY <1>1, <1>2

LEMMA NextShape == Shape /\ [Next]_vars => Shape'
<1> SUFFICES ASSUME Shape, [Next]_vars PROVE Shape'
  OBVIOUS
<1> USE BatchAssumption
    DEF Shape, TypeOK, JobShape, Goto, files, jobs, counters, Waiting, Working, Routes,
        Receipt, Slot, InRoute
<1>1. CASE StartRun
  BY <1>1 DEF StartRun
<1>2. CASE NoticeException
  BY <1>2 DEF NoticeException
<1>3. CASE EndAborted
  BY <1>3 DEF EndAborted, Stop
<1>4. CASE EndCompleted
  <2>0. seen \in [Episodes -> Variants] /\ \A e \in Episodes : RowOf(e) \in Rows
    BY <1>4, RowType DEF EndCompleted
  <2>1. TypeOK'
    BY <1>4, <2>0 DEF EndCompleted, Stop
  <2>2. ASSUME NEW d \in Episodes PROVE JobShape(d)'
    BY <1>4 DEF EndCompleted, Stop
  <2> QED
    BY <2>1, <2>2
<1>5. ASSUME NEW e \in Episodes, PickUp(e) PROVE Shape'
  BY <1>5 DEF PickUp
<1>6. ASSUME NEW e \in Episodes, ReuseReceipt(e) PROVE Shape'
  BY <1>6 DEF ReuseReceipt
<1>7. ASSUME NEW e \in Episodes, OpenRoute(e) PROVE Shape'
  BY <1>7 DEF OpenRoute
<1>8. ASSUME NEW e \in Episodes, InputConflict(e) PROVE Shape'
  <2>1. TypeOK'
    BY <1>8 DEF InputConflict
  <2>2. ASSUME NEW d \in Episodes PROVE JobShape(d)'
    BY <1>8 DEF InputConflict
  <2> QED
    BY <2>1, <2>2
<1>9. ASSUME NEW e \in Episodes, ReuseLeaf(e) PROVE Shape'
  BY <1>9 DEF ReuseLeaf
<1>10. ASSUME NEW e \in Episodes, RefuseLeaf(e) PROVE Shape'
  BY <1>10 DEF RefuseLeaf
<1>11. ASSUME NEW e \in Episodes, ClaimLeaf(e) PROVE Shape'
  BY <1>11, SlotInSlots, ZenonT(30) DEF ClaimLeaf
<1>12. ASSUME NEW e \in Episodes, FailBeforeDelivery(e) PROVE Shape'
  <2>0. PICK code \in LocalFailures : held' = [held EXCEPT ![e] = code]
    BY <1>12 DEF FailBeforeDelivery
  <2>1. TypeOK'
    BY <1>12, <2>0 DEF FailBeforeDelivery, Codes
  <2>2. ASSUME NEW d \in Episodes PROVE JobShape(d)'
    BY <1>12, <2>0 DEF FailBeforeDelivery, Codes
  <2> QED
    BY <2>1, <2>2
<1>13. ASSUME NEW e \in Episodes, Send(e) PROVE Shape'
  BY <1>13 DEF Send
<1>14. ASSUME NEW e \in Episodes, Answer(e) PROVE Shape'
  <2>0. PICK reply \in RemoteFailures \cup {"translated", "research_needed"} :
          held' = [held EXCEPT ![e] = reply]
    BY <1>14 DEF Answer
  <2>1. TypeOK'
    BY <1>14, <2>0 DEF Answer, Codes
  <2>2. ASSUME NEW d \in Episodes PROVE JobShape(d)'
    BY <1>14, <2>0 DEF Answer, Codes
  <2> QED
    BY <2>1, <2>2
<1>15. ASSUME NEW e \in Episodes, RecordAttempt(e) PROVE Shape'
  BY <1>15 DEF RecordAttempt
<1>16. ASSUME NEW e \in Episodes, KeepLeaf(e) PROVE Shape'
  BY <1>16 DEF KeepLeaf
<1>17. ASSUME NEW e \in Episodes, AdapterRaises(e) PROVE Shape'
  BY <1>17 DEF AdapterRaises
<1>18. ASSUME NEW e \in Episodes, MergeRejected(e) PROVE Shape'
  BY <1>18 DEF MergeRejected
<1>19. ASSUME NEW e \in Episodes, FinishRoute(e) PROVE Shape'
  <2>1. TypeOK'
    BY <1>19, ReceiptType DEF FinishRoute, PublishReceipt
  <2>2. ASSUME NEW d \in Episodes PROVE JobShape(d)'
    <3>1. PICK r \in Receipts : PublishReceipt(e, r) /\ Goto(e, "leaf", "decide")
      BY <1>19, ReceiptType DEF FinishRoute
    <3> QED
      BY <3>1, ReceiptFiled, NoReceiptAssumption DEF PublishReceipt
  <2> QED
    BY <2>1, <2>2
<1>20. ASSUME NEW e \in Episodes, FailRoute(e) PROVE Shape'
  <2>0. PICK code \in RouteFailures(e) :
          PublishReceipt(e, [status |-> "failed", code |-> code, variant |-> Absent])
    BY <1>20 DEF FailRoute
  <2>1. TypeOK'
    BY <1>20, <2>0, ReceiptType DEF FailRoute, PublishReceipt
  <2>2. ASSUME NEW d \in Episodes PROVE JobShape(d)'
    <3>1. PICK r \in Receipts : PublishReceipt(e, r) /\ Goto(e, "failed", "decide")
      BY <1>20, <2>0, ReceiptType DEF FailRoute
    <3> QED
      BY <3>1, ReceiptFiled, NoReceiptAssumption DEF PublishReceipt
  <2> QED
    BY <2>1, <2>2
<1>21. ASSUME NEW e \in Episodes, TakeFallback(e) PROVE Shape'
  BY <1>21 DEF TakeFallback
<1>22. ASSUME NEW e \in Episodes, PublishResult(e) PROVE Shape'
  <2>0. RowOf(e) \in Rows
    BY <1>22, RowType DEF PublishResult
  <2>1. TypeOK'
    BY <1>22, <2>0 DEF PublishResult
  <2>2. ASSUME NEW d \in Episodes PROVE JobShape(d)'
    BY <1>22 DEF PublishResult
  <2> QED
    BY <2>1, <2>2
<1>23. ASSUME NEW e \in Episodes, WriteError(e) PROVE Shape'
  BY <1>23 DEF WriteError
<1>24. CASE Crash
  BY <1>24 DEF Crash, Stop
<1>25. CASE EditCandidates
  BY <1>25 DEF EditCandidates
<1>26. ASSUME NEW b \in batches, PrepareEvaluation(b) PROVE Shape'
  BY <1>26, SelectedType DEF PrepareEvaluation
<1>27. CASE UNCHANGED vars
  BY <1>27 DEF vars
<1>28. ASSUME NEW e \in Episodes, RefuseEndpoint(e) PROVE Shape'
  BY <1>28 DEF RefuseEndpoint
<1> QED
  BY <1>1, <1>2, <1>3, <1>4, <1>5, <1>6, <1>7, <1>8, <1>9, <1>10, <1>11, <1>12,
     <1>13, <1>14, <1>15, <1>16, <1>17, <1>18, <1>19, <1>20, <1>21, <1>22, <1>23,
     <1>24, <1>25, <1>26, <1>27, <1>28
  DEF Next, MainStep, JobStep

------------------------------------------------------------------------------

LEMMA NextPaid ==
  Shape /\ (\A s \in Slots : PaidAfterClaim(s)) /\ [Next]_vars =>
    (\A s \in Slots : PaidAfterClaim(s))'
<1> SUFFICES ASSUME Shape, [Next]_vars, NEW s \in Slots, PaidAfterClaim(s)
             PROVE  PaidAfterClaim(s)'
  OBVIOUS
<1>0. s[1] \in Episodes /\ pc \in [Episodes -> Waiting \cup Working]
      /\ sends \in [Slots -> Nat]
  BY DEF Slots, Shape, TypeOK
<1> USE <1>0 DEF PaidAfterClaim, Pending, Slot, Goto, files, jobs, counters
<1>1. ASSUME run' = "down", Stop, UNCHANGED <<claims, sends>> PROVE PaidAfterClaim(s)'
  BY <1>1 DEF Stop
<1>2. ASSUME UNCHANGED <<claims, sends>>,
             \A e \in Episodes : pc'[e] = "claimed" =>
               pc[e] = "claimed" /\ at'[e] = at[e] /\ route'[e] = route[e]
      PROVE  PaidAfterClaim(s)'
  BY <1>2
<1>3. CASE StartRun \/ NoticeException \/ EditCandidates \/ UNCHANGED vars
           \/ \E b \in batches : PrepareEvaluation(b)
  BY <1>2, <1>3 DEF StartRun, NoticeException, EditCandidates, PrepareEvaluation, vars
<1>4. CASE EndAborted \/ EndCompleted \/ Crash
  BY <1>1, <1>4 DEF EndAborted, EndCompleted, Crash, Stop
<1>5. ASSUME NEW e \in Episodes,
             \/ PickUp(e) \/ ReuseReceipt(e) \/ OpenRoute(e) \/ InputConflict(e)
             \/ ReuseLeaf(e) \/ RefuseLeaf(e) \/ RefuseEndpoint(e) \/ FailBeforeDelivery(e)
             \/ Answer(e) \/ RecordAttempt(e) \/ KeepLeaf(e) \/ AdapterRaises(e) \/ MergeRejected(e)
             \/ TakeFallback(e) \/ PublishResult(e) \/ WriteError(e)
      PROVE  PaidAfterClaim(s)'
  BY <1>2, <1>5 DEF Shape, TypeOK, PickUp, ReuseReceipt, OpenRoute, InputConflict, ReuseLeaf,
     RefuseLeaf, RefuseEndpoint, FailBeforeDelivery, Answer, RecordAttempt, KeepLeaf, AdapterRaises,
     MergeRejected, TakeFallback, PublishResult, WriteError
<1>6. ASSUME NEW e \in Episodes, FinishRoute(e) \/ FailRoute(e) PROVE PaidAfterClaim(s)'
  BY <1>2, <1>6 DEF FinishRoute, FailRoute, PublishReceipt
<1>7. ASSUME NEW e \in Episodes, ClaimLeaf(e) PROVE PaidAfterClaim(s)'
  BY <1>7 DEF ClaimLeaf
<1>8. ASSUME NEW e \in Episodes, Send(e) PROVE PaidAfterClaim(s)'
  BY <1>8 DEF Send, Shape, JobShape
<1> QED
  BY <1>3, <1>4, <1>5, <1>6, <1>7, <1>8 DEF Next, MainStep, JobStep

LEMMA NextVariant ==
  Shape /\ OneVariantPerEpisode /\ [Next]_vars => OneVariantPerEpisode'
<1> SUFFICES ASSUME Shape, OneVariantPerEpisode, [Next]_vars PROVE OneVariantPerEpisode'
  OBVIOUS
<1> USE DEF OneVariantPerEpisode, files, jobs, counters
<1>1. ASSUME UNCHANGED <<receipts, inputs>> PROVE OneVariantPerEpisode'
  BY <1>1
<1>2. ASSUME NEW e \in Episodes, OpenRoute(e) PROVE OneVariantPerEpisode'
  BY <1>2 DEF OpenRoute, Shape, TypeOK
<1>3. ASSUME NEW e \in Episodes, NEW r \in Receipts,
             PublishReceipt(e, r), r.variant \in {Absent, inputs[e]}
      PROVE  OneVariantPerEpisode'
  BY <1>3, ReceiptFiled DEF PublishReceipt
<1>4. ASSUME NEW e \in Episodes, FinishRoute(e) \/ FailRoute(e)
      PROVE  OneVariantPerEpisode'
  BY <1>3, <1>4, ReceiptType DEF FinishRoute, FailRoute
<1>5. ASSUME NEW e \in Episodes, JobStep(e) \/ WriteError(e),
             ~OpenRoute(e), ~FinishRoute(e), ~FailRoute(e)
      PROVE  UNCHANGED <<receipts, inputs>>
  BY <1>5 DEF JobStep, PickUp, ReuseReceipt, InputConflict, ReuseLeaf, RefuseLeaf, ClaimLeaf,
     RefuseEndpoint, FailBeforeDelivery, Send, Answer, RecordAttempt, KeepLeaf, AdapterRaises,
     MergeRejected, TakeFallback, PublishResult, WriteError
<1>6. CASE StartRun \/ MainStep \/ Crash \/ EditCandidates \/ UNCHANGED vars
           \/ \E b \in batches : PrepareEvaluation(b)
  BY <1>1, <1>6 DEF StartRun, MainStep, NoticeException, EndAborted, EndCompleted, Crash,
     EditCandidates, PrepareEvaluation, vars
<1> QED
  BY <1>1, <1>2, <1>4, <1>5, <1>6 DEF Next

------------------------------------------------------------------------------

LEMMA SlotParts ==
  \A s \in Slots : /\ s = <<s[1], s[2], s[3]>>
                   /\ s[1] \in Episodes /\ s[2] \in Routes /\ s[3] \in 1..LeafCount[s[1]]
  BY DEF Slots

\* Steps that leave the evidence of all slots and the receipts alone.
Quiet == UNCHANGED <<claims, attempts, leaves, receipts>>

LEMMA QuietSteps ==
  /\ StartRun \/ MainStep \/ Crash \/ EditCandidates \/ UNCHANGED vars => Quiet
  /\ \A b \in batches : PrepareEvaluation(b) => Quiet
  /\ \A e \in Episodes :
       /\ PickUp(e) \/ ReuseReceipt(e) \/ OpenRoute(e) \/ InputConflict(e) => Quiet
       /\ ReuseLeaf(e) \/ RefuseLeaf(e) \/ RefuseEndpoint(e) => Quiet
       /\ FailBeforeDelivery(e) \/ Send(e) => Quiet
       /\ Answer(e) \/ AdapterRaises(e) \/ MergeRejected(e) \/ TakeFallback(e) => Quiet
       /\ PublishResult(e) \/ WriteError(e) => Quiet
  BY DEF Quiet, files, jobs, counters, vars, StartRun, MainStep, NoticeException, EndAborted,
     EndCompleted, Crash, EditCandidates, PrepareEvaluation, PickUp, ReuseReceipt, OpenRoute,
     InputConflict, ReuseLeaf, RefuseLeaf, RefuseEndpoint, FailBeforeDelivery, Send, Answer,
     AdapterRaises, MergeRejected, TakeFallback, PublishResult, WriteError

LEMMA NextPath == Shape /\ Path /\ [Next]_vars => Path'
<1> SUFFICES ASSUME Shape, Path, [Next]_vars PROVE Path'
  OBVIOUS
<1>0. /\ pc \in [Episodes -> Waiting \cup Working] /\ at \in [Episodes -> Nat \ {0}]
      /\ route \in [Episodes -> Routes] /\ LeafCount \in [Episodes -> Nat]
      /\ held \in [Episodes -> Codes \cup {"translated", "research_needed", Absent}]
      /\ attempts \in [Slots -> Codes \cup {"succeeded", Absent}]
      /\ leaves \in [Slots -> {"translated", "research_needed", Absent}]
      /\ claims \subseteq Slots
      /\ \A e \in Episodes : JobShape(e)
      /\ \A s \in Slots : s[3] >= 1
  BY BatchAssumption, SlotParts DEF Shape, TypeOK
<1> USE <1>0, SlotParts DEF Path, JobPath, Inside, Slot, RouteSlots, Receipt, Goto
<1>1. ASSUME Quiet, \A e \in Episodes : JobPath(e)' PROVE Path'
  BY <1>1 DEF Quiet, Filed, InOrder
<1>a. ASSUME NEW e \in Episodes, Quiet, JobPath(e)',
             \A d \in Episodes \ {e} : /\ pc'[d] = pc[d] /\ at'[d] = at[d]
                                       /\ route'[d] = route[d] /\ held'[d] = held[d]
      PROVE  Path'
  <2> SUFFICES ASSUME NEW d \in Episodes PROVE JobPath(d)'
    BY <1>1, <1>a
  <2>1. CASE d = e
    BY <1>a, <2>1
  <2>2. CASE d # e
    BY <1>a, <2>2 DEF Quiet
  <2> QED
    BY <2>1, <2>2
<1>2. CASE StartRun
  BY <1>1, <1>2, QuietSteps DEF StartRun, JobShape, files, jobs, counters
<1>3. CASE NoticeException
  BY <1>1, <1>3, QuietSteps DEF NoticeException, MainStep, files, jobs, counters
<1>4. CASE EndAborted \/ EndCompleted \/ Crash
  BY <1>1, <1>4, QuietSteps DEF EndAborted, EndCompleted, Crash, Stop, MainStep
<1>5. CASE EditCandidates \/ UNCHANGED vars \/ \E b \in batches : PrepareEvaluation(b)
  BY <1>1, <1>5, QuietSteps DEF EditCandidates, PrepareEvaluation, vars, files, jobs, counters
<1>6. ASSUME NEW e \in Episodes, PickUp(e) PROVE Path'
  BY <1>1, <1>6, QuietSteps DEF PickUp, files, jobs, counters
<1>7. ASSUME NEW e \in Episodes, ReuseReceipt(e) PROVE Path'
  BY <1>1, <1>7, QuietSteps DEF ReuseReceipt, files, jobs, counters
<1>8. ASSUME NEW e \in Episodes, OpenRoute(e) PROVE Path'
  <2>1. JobPath(e)'
    <3>1. /\ pc'[e] = "leaf" /\ at'[e] = 1 /\ route' = route
          /\ UNCHANGED receipts /\ Receipt(e) = Absent
      BY <1>8 DEF OpenRoute, jobs
    <3> QED
      BY <3>1
  <2> QED
    BY <1>a, <1>8, <2>1, QuietSteps DEF OpenRoute, files, jobs, counters
<1>9. ASSUME NEW e \in Episodes, InputConflict(e) PROVE Path'
  <2>1. Quiet
    BY <1>9, QuietSteps
  <2>2. JobPath(e)'
    BY <1>9, <2>1 DEF InputConflict, jobs, Quiet
  <2> QED
    BY <1>a, <1>9, <2>1, <2>2 DEF InputConflict
<1>10. ASSUME NEW e \in Episodes, ReuseLeaf(e) PROVE Path'
  <2>1. JobPath(e)'
    <3>1. /\ pc'[e] = "leaf" /\ at'[e] = at[e] + 1 /\ route' = route
          /\ UNCHANGED <<leaves, receipts>> /\ leaves[Slot(e)] # Absent
      BY <1>10 DEF ReuseLeaf, files, jobs, counters
    <3>2. ASSUME NEW s \in Slots, s[1] = e, s[2] = route[e], s[3] < at[e] + 1
          PROVE  leaves[s] # Absent
      <4>1. CASE s[3] = at[e]
        BY <3>1, <3>2, <4>1
      <4>2. CASE s[3] < at[e]
        BY <1>10, <3>2, <4>2 DEF ReuseLeaf
      <4>3. at[e] \in Nat /\ s[3] \in Nat
        BY <3>2
      <4> QED
        BY ONLY <3>2, <4>1, <4>2, <4>3
    <3> QED
      BY <1>10, <3>1, <3>2 DEF ReuseLeaf
  <2> QED
    BY <1>a, <1>10, <2>1, QuietSteps DEF ReuseLeaf, files, jobs, counters
<1>11. ASSUME NEW e \in Episodes, RefuseLeaf(e) PROVE Path'
  BY <1>1, <1>11, QuietSteps DEF RefuseLeaf, files, jobs, counters
<1>12. ASSUME NEW e \in Episodes, FailBeforeDelivery(e) PROVE Path'
  <2>1. JobPath(e)'
    BY <1>12 DEF FailBeforeDelivery, files, jobs, counters
  <2> QED
    BY <1>a, <1>12, <2>1, QuietSteps DEF FailBeforeDelivery, files, jobs, counters
<1>13. ASSUME NEW e \in Episodes, Send(e) PROVE Path'
  BY <1>1, <1>13, QuietSteps DEF Send, files, jobs, counters
<1>14. ASSUME NEW e \in Episodes, Answer(e) PROVE Path'
  <2>1. JobPath(e)'
    BY <1>14 DEF Answer, files, jobs, counters
  <2> QED
    BY <1>a, <1>14, <2>1, QuietSteps DEF Answer, files, jobs, counters
<1>15. ASSUME NEW e \in Episodes, AdapterRaises(e) PROVE Path'
  <2>1. JobPath(e)'
    BY <1>15 DEF AdapterRaises, files, jobs, counters
  <2> QED
    BY <1>a, <1>15, <2>1, QuietSteps DEF AdapterRaises, files, jobs, counters
<1>16. ASSUME NEW e \in Episodes, MergeRejected(e) PROVE Path'
  BY <1>1, <1>16, QuietSteps DEF MergeRejected, files, jobs, counters
<1>17. ASSUME NEW e \in Episodes, TakeFallback(e) PROVE Path'
  BY <1>1, <1>17, QuietSteps DEF TakeFallback, files, jobs, counters
<1>18. ASSUME NEW e \in Episodes, PublishResult(e) PROVE Path'
  BY <1>1, <1>18, QuietSteps DEF PublishResult, files, jobs, counters
<1>19. ASSUME NEW e \in Episodes, WriteError(e) PROVE Path'
  <2>1. JobPath(e)'
    BY <1>19 DEF WriteError, files, jobs, counters
  <2> QED
    BY <1>a, <1>19, <2>1, QuietSteps DEF WriteError, files, jobs, counters
<1>20. ASSUME NEW e \in Episodes, ClaimLeaf(e) PROVE Path'
  BY <1>20 DEF ClaimLeaf, Filed, InOrder, files, jobs, counters
<1>21. ASSUME NEW e \in Episodes, RecordAttempt(e) PROVE Path'
  <2> USE DEF RecordAttempt, files, jobs, counters
  <2>1. InRoute(e) /\ Slot(e) \in claims
    BY <1>21 DEF JobShape
  <2>2. ASSUME NEW d \in Episodes PROVE JobPath(d)'
    BY <1>21, <2>1
  <2>3. ASSUME NEW s \in Slots PROVE Filed(s)'
    BY <1>21, <2>1 DEF Filed
  <2>4. InOrder'
    BY <1>21 DEF InOrder
  <2> QED
    BY <2>2, <2>3, <2>4
<1>22. ASSUME NEW e \in Episodes, KeepLeaf(e) PROVE Path'
  <2> USE DEF KeepLeaf, files, jobs, counters
  <2>1. /\ InRoute(e) /\ Slot(e) \in claims
        /\ held[e] # Absent /\ attempts[Slot(e)] = "succeeded"
    BY <1>22 DEF JobShape
  <2>2. \A s \in Slots : leaves[s] # Absent => leaves'[s] # Absent
    BY <1>22, <2>1
  <2>3. ASSUME NEW d \in Episodes PROVE JobPath(d)'
    <3>1. CASE d = e
      BY <1>22, <2>1, <2>2, <3>1
    <3>2. CASE d # e
      BY <1>22, <2>1, <2>2, <3>2
    <3> QED
      BY <3>1, <3>2
  <2>4. ASSUME NEW s \in Slots PROVE Filed(s)'
    BY <1>22, <2>1 DEF Filed
  <2>5. InOrder'
    BY <1>22, <2>2 DEF InOrder
  <2> QED
    BY <2>3, <2>4, <2>5
<1>23. ASSUME NEW e \in Episodes, FinishRoute(e) \/ FailRoute(e) PROVE Path'
  <2>1. PICK r \in Receipts : PublishReceipt(e, r)
    BY <1>23, ReceiptType DEF FinishRoute, FailRoute
  <2>2. /\ pc' = [pc EXCEPT ![e] = "decide"]
        /\ UNCHANGED <<at, route, held, claims, attempts, leaves>>
    BY <1>23, <2>1 DEF FinishRoute, FailRoute, PublishReceipt
  <2>3. ASSUME NEW d \in Episodes PROVE JobPath(d)'
    BY <2>1, <2>2, ReceiptFiled
  <2> QED
    BY <2>2, <2>3 DEF Filed, InOrder
<1>24. ASSUME NEW e \in Episodes, RefuseEndpoint(e) PROVE Path'
  BY <1>1, <1>24, QuietSteps DEF RefuseEndpoint, files, jobs, counters
<1> QED
  BY <1>2, <1>3, <1>4, <1>5, <1>6, <1>7, <1>8, <1>9, <1>10, <1>11, <1>12, <1>13,
     <1>14, <1>15, <1>16, <1>17, <1>18, <1>19, <1>20, <1>21, <1>22, <1>23, <1>24
  DEF Next, MainStep, JobStep

------------------------------------------------------------------------------

\* A route that has its receipt is closed.
LEMMA RouteIsClosed ==
  ASSUME Shape, Path, [Next]_vars,
         NEW e \in Episodes, NEW rt \in Routes, receipts[e][rt] # Absent
  PROVE  /\ receipts'[e][rt] = receipts[e][rt]
         /\ \A s \in SlotsOf(e, rt) : /\ leaves'[s] = leaves[s]
                                      /\ attempts'[s] = attempts[s]
                                      /\ s \in claims' <=> s \in claims
<1> USE SlotParts DEF SlotsOf, Slot, files, jobs, counters
<1>0. \A d \in Episodes : pc[d] \in Inside \cup {"failed"} => d # e \/ route[d] # rt
  BY DEF Path, JobPath, Receipt
<1>1. CASE Quiet
  BY <1>1 DEF Quiet
<1>2. ASSUME NEW d \in Episodes, ClaimLeaf(d) \/ RecordAttempt(d) \/ KeepLeaf(d)
      PROVE  /\ UNCHANGED receipts
             /\ \A s \in SlotsOf(e, rt) : /\ leaves'[s] = leaves[s]
                                          /\ attempts'[s] = attempts[s]
                                          /\ s \in claims' <=> s \in claims
  <2>1. Slot(d) \notin SlotsOf(e, rt)
    BY <1>0, <1>2 DEF ClaimLeaf, RecordAttempt, KeepLeaf, Goto, Inside
  <2>2. leaves \in [Slots -> {"translated", "research_needed", Absent}]
        /\ attempts \in [Slots -> Codes \cup {"succeeded", Absent}]
    BY DEF Shape, TypeOK
  <2> QED
    BY <1>2, <2>1, <2>2 DEF ClaimLeaf, RecordAttempt, KeepLeaf
<1>3. ASSUME NEW d \in Episodes, FinishRoute(d) \/ FailRoute(d)
      PROVE  /\ receipts'[e][rt] = receipts[e][rt]
             /\ UNCHANGED <<claims, attempts, leaves>>
  <2>1. PICK r \in Receipts : PublishReceipt(d, r)
    BY <1>3, ReceiptType DEF FinishRoute, FailRoute
  <2>2. d # e \/ route[d] # rt
    BY <1>0, <1>3 DEF FinishRoute, FailRoute, Goto, Inside
  <2> QED
    BY <2>1, <2>2, ReceiptFiled DEF PublishReceipt
<1> QED
  BY <1>1, <1>2, <1>3, QuietSteps DEF Next, JobStep

\* A new receipt is that of the route a job is ending.
LEMMA NewReceipt ==
  ASSUME Shape, [Next]_vars, NEW e \in Episodes, NEW rt \in Routes,
         receipts[e][rt] = Absent, receipts'[e][rt] # Absent
  PROVE  /\ rt = route[e]
         /\ FinishRoute(e) \/ FailRoute(e)
         /\ UNCHANGED <<claims, attempts, leaves, route>>
<1>1. ~Quiet
  BY DEF Quiet
<1>2. ~(\E d \in Episodes : ClaimLeaf(d) \/ RecordAttempt(d) \/ KeepLeaf(d))
  BY DEF ClaimLeaf, RecordAttempt, KeepLeaf
<1>3. PICK d \in Episodes : FinishRoute(d) \/ FailRoute(d)
  BY <1>1, <1>2, QuietSteps DEF Next, JobStep
<1>4. PICK r \in Receipts : PublishReceipt(d, r)
  BY <1>3, ReceiptType DEF FinishRoute, FailRoute
<1>5. d = e /\ rt = route[e]
  BY <1>4, ReceiptFiled
<1> QED
  BY <1>3, <1>4, <1>5 DEF PublishReceipt

LEMMA FinishedLeaves ==
  ASSUME Shape, Path, NEW e \in Episodes, FinishRoute(e), NEW s \in SlotsOf(e, route[e])
  PROVE  leaves[s] # Absent /\ attempts[s] = "succeeded"
<1>1. pc[e] \in Inside /\ ~(at[e] <= LeafCount[e]) /\ at[e] \in Nat /\ LeafCount[e] \in Nat
  BY BatchAssumption DEF FinishRoute, Goto, Inside, InRoute, Shape, TypeOK
<1>2. s \in RouteSlots(e) /\ s \in Slots /\ s[3] \in 1..LeafCount[e]
  BY SlotParts DEF SlotsOf, RouteSlots
<1>3. s[3] < at[e]
  BY <1>1, <1>2
<1> QED
  BY <1>1, <1>2, <1>3 DEF Path, JobPath, Filed

\* Everything filed: the finished route has only done leaves.
LEMMA FinishTells ==
  ASSUME Shape, Path, NEW e \in Episodes, FinishRoute(e)
  PROVE  ReceiptTells(e, route[e])'
<1>1. /\ receipts'[e][route[e]] =
           [status |-> RouteStatus(e), code |-> "none", variant |-> inputs[e]]
      /\ UNCHANGED <<claims, attempts, leaves, route>>
  BY ReceiptFiled, ReceiptType DEF FinishRoute, PublishReceipt, Shape, TypeOK
<1>2. ASSUME NEW s \in SlotsOf(e, route[e])
      PROVE  leaves[s] # Absent /\ attempts[s] = "succeeded"
  BY <1>2, FinishedLeaves
<1>3. RouteStatus(e) = "translated" =>
        \A s \in SlotsOf(e, route[e]) : leaves[s] = "translated"
  BY <1>2 DEF RouteStatus, RouteSlots, SlotsOf, Shape, TypeOK
<1> QED
  BY <1>1, <1>2, <1>3 DEF ReceiptTells, Uncertain, SlotsOf

\* The one open leaf of a failed route is the one whose code is reported.
LEMMA FailTells ==
  ASSUME Shape, Path, NEW e \in Episodes, FailRoute(e)
  PROVE  ReceiptTells(e, route[e])'
<1>1. PICK code \in RouteFailures(e) :
        PublishReceipt(e, [status |-> "failed", code |-> code, variant |-> Absent])
  BY DEF FailRoute
<1>2. /\ receipts'[e][route[e]] = [status |-> "failed", code |-> code, variant |-> Absent]
      /\ UNCHANGED <<claims, attempts, leaves, route>>
  BY <1>1, ReceiptFiled, ReceiptType DEF PublishReceipt, Shape, TypeOK
<1>3. ASSUME code \in FallbackCodes, NEW s \in SlotsOf(e, route[e])
      PROVE  ~Uncertain(s)
  <2>1. PICK t \in RouteSlots(e) : attempts[t] = code /\ code \in Codes
    BY <1>3 DEF RouteFailures, FallbackCodes
  <2>2. t \in claims /\ leaves[t] = Absent
    BY <2>1, BatchAssumption DEF Path, Filed, RouteSlots, Codes
  <2>3. s = t \/ s[3] < t[3] \/ t[3] < s[3]
    BY <2>1, SlotParts, BatchAssumption DEF RouteSlots, SlotsOf
  <2>4. CASE s = t
    BY <2>1, <2>4, <1>3 DEF Uncertain
  <2>5. CASE s[3] < t[3]
    BY <2>1, <2>2, <2>5 DEF Path, InOrder, Filed, RouteSlots, SlotsOf, Uncertain
  <2>6. CASE t[3] < s[3]
    BY <2>1, <2>2, <2>6 DEF Path, InOrder, RouteSlots, SlotsOf, Uncertain
  <2> QED
    BY <2>3, <2>4, <2>5, <2>6
<1> QED
  BY <1>2, <1>3 DEF ReceiptTells, Uncertain, SlotsOf, ShouldFallback

LEMMA NextReceipted == Shape /\ Path /\ Receipted /\ [Next]_vars => Receipted'
<1> SUFFICES ASSUME Shape, Path, Receipted, [Next]_vars,
                    NEW e \in Episodes, NEW rt \in Routes
             PROVE  ReceiptTells(e, rt)'
  BY DEF Receipted
<1>1. CASE receipts[e][rt] # Absent
  <2>1. /\ receipts'[e][rt] = receipts[e][rt]
        /\ \A s \in SlotsOf(e, rt) : /\ leaves'[s] = leaves[s]
                                     /\ attempts'[s] = attempts[s]
                                     /\ s \in claims' <=> s \in claims
    BY <1>1, RouteIsClosed
  <2>2. ShouldFallback(receipts[e][rt]) => \A s \in SlotsOf(e, rt) : ~Uncertain(s)
    BY <1>1 DEF Receipted, ReceiptTells
  <2>3. ASSUME NEW s \in SlotsOf(e, rt), ~Uncertain(s) PROVE ~Uncertain(s)'
    BY <2>1, <2>3 DEF Uncertain
  <2>4. receipts[e][rt].status = "translated" => \A s \in SlotsOf(e, rt) : leaves[s] = "translated"
    BY <1>1 DEF Receipted, ReceiptTells
  <2>5. ShouldFallback(receipts'[e][rt]) => \A s \in SlotsOf(e, rt) : ~Uncertain(s)'
    BY <2>1, <2>2, <2>3
  <2>6. receipts'[e][rt].status = "translated" =>
          \A s \in SlotsOf(e, rt) : leaves'[s] = "translated"
    BY <2>1, <2>4
  <2> QED
    BY <2>5, <2>6 DEF ReceiptTells, SlotsOf
<1>2. CASE receipts[e][rt] = Absent /\ receipts'[e][rt] # Absent
  BY <1>2, NewReceipt, FinishTells, FailTells
<1>3. CASE receipts'[e][rt] = Absent
  BY <1>3 DEF ReceiptTells
<1> QED
  BY <1>1, <1>2, <1>3

LEMMA NextEnds == Shape /\ Path /\ Ends /\ [Next]_vars => Ends'
<1> SUFFICES ASSUME Shape, Path, Ends, [Next]_vars, NEW e \in Episodes, NEW rt \in Routes
             PROVE  EndTells(e, rt)'
  BY DEF Ends
<1>1. CASE receipts[e][rt] # Absent
  <2>1. /\ receipts'[e][rt] = receipts[e][rt]
        /\ \A s \in SlotsOf(e, rt) : leaves'[s] = leaves[s] /\ attempts'[s] = attempts[s]
    BY <1>1, RouteIsClosed
  <2>2. EndTells(e, rt)
    BY DEF Ends
  <2> QED
    BY <1>1, <2>1, <2>2 DEF EndTells, SlotsOf
<1>2. CASE receipts[e][rt] = Absent /\ receipts'[e][rt] # Absent
  <2>1. rt = route[e] /\ UNCHANGED <<attempts, leaves>>
    BY <1>2, NewReceipt
  <2>2. CASE FinishRoute(e)
    <3>1. receipts'[e][rt].status # "failed"
      BY <2>1, <2>2, ReceiptFiled, ReceiptType DEF FinishRoute, RouteStatus
    <3> QED
      BY <2>1, <2>2, <3>1, FinishedLeaves DEF EndTells, SlotsOf
  <2>3. CASE FailRoute(e)
    <3>1. PICK code \in RouteFailures(e) :
            PublishReceipt(e, [status |-> "failed", code |-> code, variant |-> Absent])
      BY <2>3 DEF FailRoute
    <3>2. receipts'[e][rt].status = "failed" /\ receipts'[e][rt].code = code
      <4> DEFINE r == [status |-> "failed", code |-> code, variant |-> Absent]
      <4>1. r \in Receipts /\ PublishReceipt(e, r)
        BY <3>1, ReceiptType
      <4>2. receipts'[e][rt] = r
        BY <2>1, <4>1, ReceiptFiled
      <4> QED
        BY <4>2
    <3>3. code = "unknown" \/ \E s \in SlotsOf(e, rt) : attempts[s] = code /\ code \in Codes
      BY <2>1 DEF RouteFailures, RouteSlots, SlotsOf
    <3> QED
      BY <2>1, <3>2, <3>3 DEF EndTells, SlotsOf
  <2> QED
    BY <1>2, <2>2, <2>3, NewReceipt
<1>3. CASE receipts'[e][rt] = Absent
  BY <1>3 DEF EndTells
<1> QED
  BY <1>1, <1>2, <1>3

------------------------------------------------------------------------------

LEMMA NextSecondPaid == Shape /\ Path /\ SecondPaid /\ [Next]_vars => SecondPaid'
<1> SUFFICES ASSUME Shape, Path, SecondPaid, [Next]_vars,
                    NEW t \in Slots, t[2] = "fallback", sends'[t] > 0
             PROVE  /\ receipts'[t[1]]["primary"] # Absent
                    /\ ShouldFallback(receipts'[t[1]]["primary"])
  BY DEF SecondPaid
<1>1. /\ receipts[t[1]]["primary"] # Absent
      /\ ShouldFallback(receipts[t[1]]["primary"])
  <2>1. CASE sends'[t] = sends[t]
    BY <2>1 DEF SecondPaid
  <2>2. ASSUME NEW e \in Episodes, Send(e) PROVE sends'[t] = sends[t] \/ t = Slot(e)
    BY <2>2 DEF Send, Shape, TypeOK
  <2>3. ASSUME NEW e \in Episodes, Send(e), t = Slot(e)
        PROVE  /\ receipts[t[1]]["primary"] # Absent
               /\ ShouldFallback(receipts[t[1]]["primary"])
    BY <2>3 DEF Slot, Shape, JobShape
  <2>4. ASSUME \A e \in Episodes : ~Send(e) PROVE UNCHANGED sends
    BY <2>4 DEF Next, StartRun, MainStep, NoticeException, EndAborted, EndCompleted, Crash,
       EditCandidates, PrepareEvaluation, vars, files, jobs, counters, JobStep, PickUp,
       ReuseReceipt, OpenRoute, InputConflict, ReuseLeaf, RefuseLeaf, ClaimLeaf, RefuseEndpoint,
       FailBeforeDelivery, Answer, RecordAttempt, KeepLeaf, AdapterRaises, MergeRejected,
       FinishRoute, FailRoute, PublishReceipt, TakeFallback, PublishResult, WriteError
  <2> QED
    BY <2>1, <2>2, <2>3, <2>4
<1>2. receipts'[t[1]]["primary"] = receipts[t[1]]["primary"]
  BY <1>1, RouteIsClosed, SlotParts DEF Routes
<1> QED
  BY <1>1, <1>2

LEMMA NextRows == Shape /\ Path /\ RowsQuote /\ [Next]_vars => RowsQuote'
<1> SUFFICES ASSUME Shape, Path, RowsQuote, [Next]_vars, NEW row \in results'
             PROVE  /\ receipts'[row.episode]["primary"] # Absent
                    /\ row.primary = receipts'[row.episode]["primary"]
                    /\ row.fallback \in {Absent, receipts'[row.episode]["fallback"]}
  BY DEF RowsQuote
<1>1. row.episode \in Episodes
  BY NextShape DEF Shape, TypeOK, Rows
<1>2. ASSUME NEW e \in Episodes, PublishResult(e), row = RowOf(e)
      PROVE  /\ receipts[e]["primary"] # Absent /\ row.episode = e
             /\ row.primary = receipts[e]["primary"]
             /\ row.fallback \in {Absent, receipts[e]["fallback"]}
  BY <1>2 DEF PublishResult, Goto, RowOf, Shape, TypeOK, JobShape, Receipt, Routes
<1>3. ASSUME NEW e \in Episodes, PublishResult(e) PROVE row \in results \/ row = RowOf(e)
  BY <1>3 DEF PublishResult
<1>4. ASSUME \A e \in Episodes : ~PublishResult(e) PROVE UNCHANGED results
  BY <1>4 DEF Next, StartRun, MainStep, NoticeException, EndAborted, EndCompleted, Crash,
     EditCandidates, PrepareEvaluation, vars, files, jobs, counters, JobStep, PickUp,
     ReuseReceipt, OpenRoute, InputConflict, ReuseLeaf, RefuseLeaf, ClaimLeaf,
     RefuseEndpoint, FailBeforeDelivery, Send, Answer, RecordAttempt, KeepLeaf, AdapterRaises,
     MergeRejected, FinishRoute, FailRoute, PublishReceipt, TakeFallback, WriteError
<1>5. /\ receipts[row.episode]["primary"] # Absent
      /\ row.primary = receipts[row.episode]["primary"]
      /\ row.fallback \in {Absent, receipts[row.episode]["fallback"]}
  <2>1. CASE row \in results
    BY <2>1 DEF RowsQuote
  <2>2. CASE row \notin results
    BY <2>2, <1>2, <1>3, <1>4
  <2> QED
    BY <2>1, <2>2
<1> QED
  BY <1>1, <1>5, RouteIsClosed DEF Routes

LEMMA NextBatches == Shape /\ Path /\ BatchesQuote /\ [Next]_vars => BatchesQuote'
<1> SUFFICES ASSUME Shape, Path, BatchesQuote, [Next]_vars PROVE BatchesQuote'
  OBVIOUS
<1>1. ASSUME NEW e \in Episodes, Decided(e)
      PROVE  /\ Decided(e)'
             /\ \A v : Quote(e, v)' = Quote(e, v)
  <2>1. receipts'[e]["primary"] = receipts[e]["primary"]
    BY <1>1, RouteIsClosed DEF Decided, Routes
  <2>2. ShouldFallback(receipts[e]["primary"]) =>
          receipts'[e]["fallback"] = receipts[e]["fallback"]
    BY <1>1, RouteIsClosed DEF Decided, Routes
  <2> QED
    BY <1>1, <2>1, <2>2 DEF Decided, Quote
<1>2. ASSUME NEW e \in Episodes, pc'[e] = "done" PROVE Decided(e)
  <2>1. CASE pc[e] = "done"
    BY <2>1 DEF BatchesQuote
  <2>2. ASSUME NEW d \in Episodes, PublishResult(d) PROVE d = e \/ pc[e] = "done"
    BY <1>2, <2>2 DEF PublishResult, Goto, Shape, TypeOK
  <2>3. ASSUME PublishResult(e) PROVE Decided(e)
    BY <2>3 DEF PublishResult, Goto, Shape, TypeOK, JobShape, Receipt, Routes, Decided
  <2>4. ASSUME \A d \in Episodes : ~PublishResult(d) PROVE pc[e] = "done"
    <3> USE DEF Shape, TypeOK
    <3>1. CASE StartRun \/ MainStep \/ Crash \/ EditCandidates \/ UNCHANGED vars
               \/ \E b \in batches : PrepareEvaluation(b)
      BY <1>2, <3>1 DEF StartRun, MainStep, NoticeException, EndAborted, EndCompleted, Crash,
         EditCandidates, PrepareEvaluation, vars, jobs, Stop
    <3>2. ASSUME NEW d \in Episodes, WriteError(d) \/ ReuseLeaf(d) PROVE pc[e] = "done"
      BY <1>2, <3>2 DEF WriteError, ReuseLeaf
    <3>3. ASSUME NEW d \in Episodes, JobStep(d), ~ReuseLeaf(d)
          PROVE  \E from : \E to \in (Waiting \cup Working) \ {"done"} : Goto(d, from, to)
      <4> DEFINE Moves == \E from : \E to \in (Waiting \cup Working) \ {"done"} : Goto(d, from, to)
      <4>1. CASE PickUp(d) \/ ReuseReceipt(d) \/ OpenRoute(d) \/ InputConflict(d) \/ RefuseLeaf(d)
        BY <4>1 DEF PickUp, ReuseReceipt, OpenRoute, InputConflict, RefuseLeaf, Waiting, Working
      <4>2. CASE ClaimLeaf(d) \/ RefuseEndpoint(d) \/ FailBeforeDelivery(d) \/ Send(d)
                 \/ Answer(d) \/ RecordAttempt(d)
        BY <4>2 DEF ClaimLeaf, RefuseEndpoint, FailBeforeDelivery, Send, Answer, RecordAttempt,
               Waiting, Working
      <4>3. CASE KeepLeaf(d) \/ AdapterRaises(d) \/ MergeRejected(d) \/ TakeFallback(d)
        BY <4>3 DEF KeepLeaf, AdapterRaises, MergeRejected, TakeFallback, Waiting, Working
      <4>4. CASE FinishRoute(d) \/ FailRoute(d)
        BY <4>4 DEF FinishRoute, FailRoute, Waiting, Working
      <4> QED
        BY <3>3, <2>4, <4>1, <4>2, <4>3, <4>4 DEF JobStep
    <3>4. ASSUME NEW d \in Episodes, JobStep(d), ~ReuseLeaf(d) PROVE pc[e] = "done"
      BY <1>2, <3>3, <3>4 DEF Goto
    <3> QED
      BY <3>1, <3>2, <3>4 DEF Next
  <2> QED
    BY <2>1, <2>2, <2>3, <2>4
<1>3. ASSUME NEW b \in batches' PROVE BatchStands(b)
  <2>1. CASE b \in batches
    BY <2>1 DEF BatchesQuote
  <2>2. CASE b \notin batches
    <3>1. EndCompleted
      BY <2>2 DEF Next, StartRun, MainStep, NoticeException, EndAborted, Crash,
         EditCandidates, PrepareEvaluation, vars, files, jobs, counters, JobStep, PickUp,
         ReuseReceipt, OpenRoute, InputConflict, ReuseLeaf, RefuseLeaf, ClaimLeaf, RefuseEndpoint,
         FailBeforeDelivery, Send, Answer, RecordAttempt, KeepLeaf, AdapterRaises,
         MergeRejected, FinishRoute, FailRoute, PublishReceipt, TakeFallback, PublishResult,
         WriteError
    <3>2. b = [input |-> seen, rows |-> [e \in Episodes |-> RowOf(e)]]
      BY <2>2, <3>1 DEF EndCompleted
    <3>3. \A e \in Episodes : Decided(e)
      BY <3>1 DEF EndCompleted, BatchesQuote
    <3> QED
      BY <3>2, <3>3 DEF BatchStands, RowOf, Quote
  <2> QED
    BY <2>1, <2>2
<1>4. ASSUME NEW b, BatchStands(b) PROVE BatchStands(b)'
  BY <1>1, <1>4 DEF BatchStands
<1> QED
  BY <1>1, <1>2, <1>3, <1>4 DEF BatchesQuote

------------------------------------------------------------------------------

LEMMA ShapeHolds == Spec => []Shape
<1>1. Init => Shape
  BY InitShape
<1>2. Shape /\ [Next]_vars => Shape'
  BY NextShape
<1> QED
  BY <1>1, <1>2, PTL DEF Spec

\* Every value a run, a crash or an edit leaves in memory and on disk has its
\* type, for any number of episodes, leaves and workers.
THEOREM TypeCorrect == Spec => []TypeOK
<1>1. Shape => TypeOK
  BY DEF Shape
<1> QED
  BY <1>1, ShapeHolds, PTL

\* One paid request per attempt id, over any number of crashed and repeated
\* runs with any pool: publishing the claim is what keeps the pool and the
\* next run from sending again.
THEOREM PaidOnce == Spec => []SendOnce
<1>1. Init => \A s \in Slots : PaidAfterClaim(s)
  BY DEF Init, PaidAfterClaim
<1>2. (\A s \in Slots : PaidAfterClaim(s)) => SendOnce
  BY DEF PaidAfterClaim, SendOnce
<1> QED
  BY <1>1, <1>2, NextPaid, ShapeHolds, PTL DEF Spec

\* However the candidate file is edited between and during runs, the receipts
\* of an episode are about one variant: the one its input was routed with.
THEOREM OneVariant == Spec => []OneVariantPerEpisode
<1>1. Init => OneVariantPerEpisode
  BY DEF Init, OneVariantPerEpisode
<1> QED
  BY <1>1, NextVariant, ShapeHolds, PTL DEF Spec

LEMMA PathHolds == Spec => []Path
<1>1. Init => Path
  BY DEF Init, Path, JobPath, Filed, InOrder, Inside, RouteSlots, Slot, Receipt
<1> QED
  BY <1>1, NextPath, ShapeHolds, PTL DEF Spec

LEMMA ReceiptedHolds == Spec => []Receipted
<1>1. Init => Receipted
  BY DEF Init, Receipted, ReceiptTells
<1> QED
  BY <1>1, NextReceipted, ShapeHolds, PathHolds, PTL DEF Spec

\* A receipt, once published, is final, and so is the evidence it sums up: no
\* later run, fault or edit adds a claim, a record or a leaf result to a route
\* that has its receipt.
ReceiptsAreFinal ==
  \A e \in Episodes, rt \in Routes :
    receipts[e][rt] # Absent =>
      /\ receipts'[e][rt] = receipts[e][rt]
      /\ \A s \in SlotsOf(e, rt) :
           /\ leaves'[s] = leaves[s]
           /\ attempts'[s] = attempts[s]
           /\ s \in claims' <=> s \in claims

\* _run_route reuses a receipt without looking at the leaves; this is why it may.
THEOREM ReceiptsFinal == Spec => [][ReceiptsAreFinal]_vars
<1>1. Shape /\ Path /\ [Next]_vars => ReceiptsAreFinal
  BY RouteIsClosed DEF ReceiptsAreFinal
<1> QED
  BY <1>1, ShapeHolds, PathHolds, PTL DEF Spec

\* _route_failure may take the records of a route in any order: at most one leaf
\* was begun and not finished, and none was begun behind it.
THEOREM OneOpen == Spec => []OneOpenLeaf
<1>1. Path => OneOpenLeaf
  BY BatchAssumption DEF Path, Filed, InOrder, OneOpenLeaf, Open
<1> QED
  BY <1>1, PathHolds, PTL

\* The fallback model is paid only after a failure that settles what became of
\* the primary request, also when the receipt stems from a run long gone.
THEOREM UncertainStays == Spec => []UncertainNeverResent
<1>1. Init => SecondPaid
  BY DEF Init, SecondPaid
<1>2. Receipted /\ SecondPaid => UncertainNeverResent
  BY SlotParts DEF Receipted, ReceiptTells, SecondPaid, SlotsOf, UncertainNeverResent, Routes
<1> QED
  BY <1>1, <1>2, NextSecondPaid, ShapeHolds, PathHolds, ReceiptedHolds, PTL DEF Spec

\* A published row never claims a translation that is not wholly on disk,
\* backed by recorded successes.
THEOREM Complete == Spec => []TranslatedIsComplete
<1>1. Init => RowsQuote
  BY DEF Init, RowsQuote
<1>2. Shape /\ Path /\ Receipted /\ RowsQuote => TranslatedIsComplete
  <2> SUFFICES ASSUME Shape, Path, Receipted, RowsQuote,
                      NEW row \in results, Selected(row) # Absent
               PROVE  \E rt \in Routes :
                        /\ Selected(row) = receipts[row.episode][rt]
                        /\ \A s \in Slots : (s[1] = row.episode /\ s[2] = rt) =>
                             leaves[s] = "translated" /\ attempts[s] = "succeeded"
    BY DEF TranslatedIsComplete
  <2>1. row.episode \in Episodes
    BY DEF Shape, TypeOK, Rows
  <2>2. PICK rt \in Routes :
          /\ Selected(row) = receipts[row.episode][rt]
          /\ Selected(row).status = "translated"
    BY DEF RowsQuote, Selected, Routes
  <2>3. ASSUME NEW s \in SlotsOf(row.episode, rt)
        PROVE  leaves[s] = "translated" /\ attempts[s] = "succeeded"
    <3>1. leaves[s] = "translated"
      BY <2>1, <2>2, <2>3 DEF Receipted, ReceiptTells
    <3> QED
      BY <3>1, <2>3, BatchAssumption DEF Path, Filed, SlotsOf
  <2> QED
    BY <2>2, <2>3 DEF SlotsOf
<1> QED
  BY <1>1, <1>2, NextRows, ShapeHolds, PathHolds, ReceiptedHolds, PTL DEF Spec

\* The evaluation inputs are refused as a whole when a translation is not one of
\* the candidate file as it then is.
LEMMA NoStaleJudged == Spec => []StaleNeverJudged
<1>1. Init => StaleNeverJudged
  BY DEF Init, StaleNeverJudged
<1>2. StaleNeverJudged /\ [Next]_vars => StaleNeverJudged'
  <2> SUFFICES ASSUME StaleNeverJudged, [Next]_vars PROVE StaleNeverJudged'
    OBVIOUS
  <2>1. ASSUME NEW b \in batches, PrepareEvaluation(b) PROVE StaleNeverJudged'
    BY <2>1 DEF PrepareEvaluation, StaleNeverJudged
  <2>2. ASSUME \A b \in batches : ~PrepareEvaluation(b) PROVE judged' = judged
    BY <2>2 DEF Next, StartRun, MainStep, NoticeException, EndAborted, EndCompleted, Crash,
       EditCandidates, vars, files, jobs, counters, JobStep, PickUp, ReuseReceipt, OpenRoute,
       InputConflict, ReuseLeaf, RefuseLeaf, ClaimLeaf, RefuseEndpoint, FailBeforeDelivery,
       Send, Answer, RecordAttempt, KeepLeaf, AdapterRaises, MergeRejected, FinishRoute, FailRoute,
       PublishReceipt, TakeFallback, PublishResult, WriteError
  <2> QED
    BY <2>1, <2>2 DEF StaleNeverJudged
<1> QED
  BY <1>1, <1>2, PTL DEF Spec

\* An edited candidate file never leads to a mixture of two variants of an
\* episode, neither in the root nor in what the judges are given.
THEOREM VariantsStayMatched == Spec => []VariantsMatch
  BY OneVariant, NoStaleJudged, PTL DEF VariantsMatch

\* Two runs on the same candidate file publish the same batch, whatever crashed,
\* failed or was edited between them: a batch is a function of the receipts.
THEOREM SameBatch == Spec => []ReRunsAgree
<1>1. Init => BatchesQuote
  BY DEF Init, BatchesQuote
<1>2. Shape /\ BatchesQuote => ReRunsAgree
  <2> SUFFICES ASSUME Shape, BatchesQuote, NEW a \in batches, NEW b \in batches,
                      a.input = b.input
               PROVE  a = b
    BY DEF ReRunsAgree
  <2>1. a.rows \in [Episodes -> Rows] /\ b.rows \in [Episodes -> Rows]
    BY DEF Shape, TypeOK
  <2>2. \A e \in Episodes : a.rows[e] = b.rows[e]
    BY DEF BatchesQuote, BatchStands
  <2>3. a.rows = b.rows
    BY <2>1, <2>2
  <2> QED
    BY <2>3 DEF BatchesQuote, BatchStands
<1> QED
  BY <1>1, <1>2, NextBatches, ShapeHolds, PathHolds, PTL DEF Spec

LEMMA EndsHold == Spec => []Ends
<1>1. Init => Ends
  BY DEF Init, Ends, EndTells
<1> QED
  BY <1>1, NextEnds, ShapeHolds, PathHolds, PTL DEF Spec

------------------------------------------------------------------------------
\* The translation implements TranslationStage.

\* The constants of the stage are as RouteAssumption asks.
LEMMA StageConstants ==
  /\ LeafCount \in [Episodes -> Nat]
  /\ "none" \notin Stage!Codes
  /\ LateEnds \subseteq Stage!Codes
  BY BatchAssumption DEF Stage!Codes, LateEnds, FallbackCodes

LEMMA SlotAt ==
  ASSUME NEW e \in Episodes, NEW rt \in Routes
  PROVE  /\ \A i \in 1..LeafCount[e] : <<e, rt, i>> \in SlotsOf(e, rt)
         /\ \A s \in SlotsOf(e, rt) : s[3] \in 1..LeafCount[e] /\ s = <<e, rt, s[3]>>
  BY DEF SlotsOf, Slots

LEMMA KeptCount ==
  ASSUME NEW e \in Episodes, NEW rt \in Routes
  PROVE  /\ Cardinality(Kept(e, rt)) \in 0..LeafCount[e]
         /\ Cardinality(Kept(e, rt)) = LeafCount[e] <=> Kept(e, rt) = 1..LeafCount[e]
<1> DEFINE n == LeafCount[e]
           K == Kept(e, rt)
<1>1. n \in Nat
  BY BatchAssumption
<1>2. IsFiniteSet(1..n) /\ Cardinality(1..n) = n
  BY <1>1, FS_Interval
<1>3. K \in SUBSET (1..n)
  BY DEF Kept
<1> HIDE DEF n, K
<1>4. IsFiniteSet(K) /\ Cardinality(K) <= n /\ (n = Cardinality(K) => K = 1..n)
  BY <1>2, <1>3, FS_Subset
<1>5. Cardinality(K) \in Nat
  BY <1>4, FS_CardinalityType
<1>6. Cardinality(K) \in 0..n /\ (Cardinality(K) = n <=> K = 1..n)
  BY <1>1, <1>2, <1>4, <1>5
<1> QED
  BY <1>6 DEF n, K

\* What a route with a receipt has come to is a result a stage may leave, and a
\* fallback follows it in both readings.
LEMMA RouteResultType ==
  ASSUME Shape, Path, Ends, NEW e \in Episodes, NEW rt \in Routes, receipts[e][rt] # Absent
  PROVE  /\ RouteResult(e, rt) \in Stage!RouteResults(e)
         /\ Stage!ShouldFallback(RouteResult(e, rt)) <=> ShouldFallback(receipts[e][rt])
<1> DEFINE receipt == receipts[e][rt]
           kept == Cardinality(Kept(e, rt))
           full == Kept(e, rt) = 1..LeafCount[e]
<1>1. receipt \in Receipts
  BY DEF Shape, TypeOK
<1>2. kept \in 0..LeafCount[e] /\ (kept = LeafCount[e] <=> full) /\ LeafCount[e] \in Nat
  BY KeptCount, BatchAssumption
<1>3. RouteResult(e, rt) = [leaves |-> kept, code |-> RouteEnd(e, rt)]
  BY DEF RouteResult
<1>4. receipt.status # "failed" => full
  BY SlotAt DEF Ends, EndTells, Kept
<1>5. receipt.status = "failed" =>
        \/ receipt.code = "unknown"
        \/ /\ receipt.code \in Codes
           /\ ~full
  <2>1. ASSUME NEW s \in SlotsOf(e, rt), attempts[s] = receipt.code, attempts[s] \in Codes
        PROVE  ~full
    <3>1. leaves[s] = Absent
      BY <2>1, BatchAssumption DEF Path, Filed, SlotsOf
    <3> QED
      BY <2>1, <3>1, SlotAt DEF Kept
  <2> QED
    BY <2>1 DEF Ends, EndTells
<1>6. /\ RouteEnd(e, rt) \in {"none"} \cup LateEnds => full
      /\ RouteEnd(e, rt) \notin {"none"} \cup LateEnds =>
            ~full /\ RouteEnd(e, rt) \in Codes \cup {"unknown"}
      /\ RouteEnd(e, rt) \in FallbackCodes \cup {"research_needed"} <=> ShouldFallback(receipt)
  <2>1. CASE receipt.status = "translated"
    BY <1>4, <2>1 DEF RouteEnd, ShouldFallback, FallbackCodes
  <2>2. CASE receipt.status \in {"research_needed", "no_segments"}
    BY <1>4, <2>2 DEF RouteEnd, ShouldFallback, FallbackCodes, LateEnds
  <2>3. CASE receipt.status = "failed" /\ full
    BY <1>5, <2>3 DEF RouteEnd, ShouldFallback, FallbackCodes, LateEnds
  <2>4. CASE receipt.status = "failed" /\ ~full
    <3>1. RouteEnd(e, rt) = receipt.code
      BY <2>4 DEF RouteEnd
    <3>2. receipt.code \in Codes \cup {"unknown"}
      BY <1>5, <2>4
    <3>3. receipt.code \notin {"none"} \cup LateEnds
      BY <3>2, BatchAssumption DEF LateEnds
    <3> QED
      BY <2>4, <3>1, <3>2, <3>3 DEF ShouldFallback, LateEnds
  <2> QED
    BY <1>1, <2>1, <2>2, <2>3, <2>4 DEF Receipts
<1>7. RouteResult(e, rt) \in Stage!RouteResults(e)
  <2>1. CASE RouteEnd(e, rt) \in {"none"} \cup LateEnds
    BY <1>2, <1>3, <1>6, <2>1 DEF Stage!RouteResults
  <2>2. CASE RouteEnd(e, rt) \notin {"none"} \cup LateEnds
    <3>1. kept \in 0..LeafCount[e]-1
      BY <1>2, <1>6, <2>2
    <3>2. RouteEnd(e, rt) \in Stage!Codes \ LateEnds
      BY <1>6, <2>2 DEF Stage!Codes
    <3> QED
      BY <1>3, <3>1, <3>2 DEF Stage!RouteResults
  <2> QED
    BY <2>1, <2>2
<1> QED
  BY <1>3, <1>6, <1>7 DEF Stage!ShouldFallback

LEMMA RoutingType ==
  ASSUME Shape, Path, Ends, NEW e \in Episodes, Decided(e)
  PROVE  Routing(e) \in Stage!Routings(e) /\ Routing(e) # <<>>
<1> DEFINE p == RouteResult(e, "primary")
           f == RouteResult(e, "fallback")
<1>1. /\ receipts[e]["primary"] # Absent
      /\ p \in Stage!RouteResults(e)
      /\ Stage!ShouldFallback(p) <=> ShouldFallback(receipts[e]["primary"])
  BY RouteResultType DEF Decided, Routes
<1>2. ShouldFallback(receipts[e]["primary"]) => f \in Stage!RouteResults(e)
  BY RouteResultType DEF Decided, Routes
<1>3. Routing(e) = IF ShouldFallback(receipts[e]["primary"]) THEN <<p, f>> ELSE <<p>>
  BY DEF Routing
<1> HIDE DEF p, f
<1>4. CASE ShouldFallback(receipts[e]["primary"])
  BY <1>1, <1>2, <1>3, <1>4 DEF Stage!Routings
<1>5. CASE ~ShouldFallback(receipts[e]["primary"])
  BY <1>1, <1>3, <1>5 DEF Stage!Routings
<1> QED
  BY <1>4, <1>5

\* A decided episode keeps its routing, whatever runs, crashes or edits follow.
LEMMA RoutingStays ==
  ASSUME Shape, Path, [Next]_vars, NEW e \in Episodes, Decided(e)
  PROVE  Decided(e)' /\ Routing(e)' = Routing(e)
<1>1. ASSUME NEW rt \in Routes, receipts[e][rt] # Absent
      PROVE  receipts'[e][rt] = receipts[e][rt] /\ RouteResult(e, rt)' = RouteResult(e, rt)
  <2>1. /\ receipts'[e][rt] = receipts[e][rt]
        /\ \A s \in SlotsOf(e, rt) : leaves'[s] = leaves[s]
    BY <1>1, RouteIsClosed
  <2>2. Kept(e, rt)' = Kept(e, rt)
    BY <2>1, SlotAt DEF Kept
  <2> QED
    BY <2>1, <2>2 DEF RouteResult, RouteEnd
<1>2. /\ receipts'[e]["primary"] = receipts[e]["primary"]
      /\ RouteResult(e, "primary")' = RouteResult(e, "primary")
  BY <1>1 DEF Decided, Routes
<1>3. ShouldFallback(receipts[e]["primary"]) =>
        /\ receipts'[e]["fallback"] = receipts[e]["fallback"]
        /\ RouteResult(e, "fallback")' = RouteResult(e, "fallback")
  BY <1>1 DEF Decided, Routes
<1>4. Decided(e)'
  BY <1>2, <1>3 DEF Decided
<1> QED
  BY <1>2, <1>3, <1>4 DEF Routing, ShouldFallback

\* The invariant of the refinement, and the steps of the stage.
StageInv == Shape /\ Path /\ Ends /\ BatchesQuote

LEMMA StageInit == Init => Stage!Init
  BY DEF Init, Stage!Init, Routing, Decided, Routes

LEMMA StageStep == StageInv /\ StageInv' /\ [Next]_vars => [Stage!Next]_(Stage!vars)
<1> SUFFICES ASSUME StageInv, StageInv', [Next]_vars PROVE [Stage!Next]_(Stage!vars)
  OBVIOUS
<1> USE DEF StageInv
<1> DEFINE routings == [e \in Episodes |-> Routing(e)]
<1>1. \A e \in Episodes : Decided(e) => Decided(e)' /\ Routing(e)' = Routing(e)
  BY RoutingStays
<1>2. CASE \E e \in Episodes : ~Decided(e) /\ Decided(e)'
  <2>1. PICK e \in Episodes : ~Decided(e) /\ Decided(e)'
    BY <1>2
  <2>2. PICK rt \in Routes : receipts[e][rt] = Absent /\ receipts'[e][rt] # Absent
    <3>1. CASE receipts[e]["primary"] = Absent
      BY <2>1, <3>1 DEF Decided, Routes
    <3>2. CASE receipts[e]["primary"] # Absent
      <4>1. receipts'[e]["primary"] = receipts[e]["primary"]
        BY <3>2, RouteIsClosed DEF Routes
      <4> QED
        BY <2>1, <3>2, <4>1 DEF Decided, Routes, ShouldFallback
    <3> QED
      BY <3>1, <3>2
  <2>3. FinishRoute(e) \/ FailRoute(e)
    BY <2>2, NewReceipt
  <2>4. PICK r \in Receipts : PublishReceipt(e, r)
    BY <2>3, ReceiptType DEF FinishRoute, FailRoute
  <2>5. UNCHANGED <<leaves, batches>> /\ \A d \in Episodes \ {e} : receipts'[d] = receipts[d]
    BY <2>4 DEF PublishReceipt, Shape, TypeOK
  <2>6. ASSUME NEW d \in Episodes \ {e} PROVE Routing(d)' = Routing(d)
    BY <2>5 DEF Routing, Decided, RouteResult, RouteEnd, Kept
  <2>7. Routing(e) = <<>> /\ Routing(e)' # <<>> /\ Routing(e)' \in Stage!Routings(e)
    <3>1. Routing(e) = <<>>
      BY <2>1 DEF Routing
    <3>2. (Routing(e) \in Stage!Routings(e) /\ Routing(e) # <<>>)'
      BY <2>1, RoutingType, PTL
    <3>3. Stage!Routings(e)' = Stage!Routings(e)
      BY DEF Stage!Routings, Stage!RouteResults, Stage!Codes, Stage!ShouldFallback
    <3> QED
      BY <3>1, <3>2, <3>3
  <2>8. Stage!Translate(e)
    <3>1. routings' = [routings EXCEPT ![e] = routings'[e]]
      BY <2>6
    <3>2. /\ routings[e] = <<>> /\ routings'[e] # <<>>
          /\ routings'[e] \in Stage!Routings(e)
      BY <2>7
    <3>3. UNCHANGED (batches # {})
      BY <2>5
    <3> QED
      BY <3>1, <3>2, <3>3 DEF Stage!Translate
  <2> QED
    BY <2>8 DEF Stage!Next
<1>3. CASE ~\E e \in Episodes : ~Decided(e) /\ Decided(e)'
  <2>1. \A e \in Episodes : Routing(e)' = Routing(e)
    BY <1>1, <1>3 DEF Routing
  <2>2. CASE (batches # {})' = (batches # {})
    BY <2>1, <2>2 DEF Stage!vars
  <2>3. CASE (batches # {})' # (batches # {})
    <3>1. batches = {} /\ batches' # {} /\ EndCompleted
      BY <2>3 DEF Next, EndCompleted, StartRun, MainStep, NoticeException, EndAborted, Crash,
         EditCandidates, PrepareEvaluation, vars, files, jobs, counters, JobStep, PickUp,
         ReuseReceipt, OpenRoute, InputConflict, ReuseLeaf, RefuseLeaf, ClaimLeaf, RefuseEndpoint,
         FailBeforeDelivery, Send, Answer, RecordAttempt, KeepLeaf, AdapterRaises,
         MergeRejected, FinishRoute, FailRoute, PublishReceipt, TakeFallback, PublishResult,
         WriteError
    <3>2. \A e \in Episodes : Decided(e)
      BY <3>1 DEF EndCompleted, BatchesQuote
    <3>3. \A e \in Episodes : Routing(e) # <<>>
      BY <3>2, RoutingType
    <3>4. Stage!Publish
      BY <2>1, <3>1, <3>3 DEF Stage!Publish
    <3> QED
      BY <3>4 DEF Stage!Next
  <2> QED
    BY <2>2, <2>3
<1> QED
  BY <1>2, <1>3

\* Whatever threads, crashes, repeated runs and edits do, a reader of the root
\* sees the translation stage of RouteEvidence, on which the later stages and
\* recoveries rest: routes in one of its shapes, decided once, and no batch
\* before all are.
THEOREM TranslationImplementsStage == Spec => ImplementsStage
<1>1. Spec => []StageInv
  <2>1. Init => BatchesQuote
    BY DEF Init, BatchesQuote
  <2> QED
    BY <2>1, NextBatches, ShapeHolds, PathHolds, EndsHold, PTL DEF Spec, StageInv
<1> QED
  BY <1>1, StageInit, StageStep, PTL DEF Spec, ImplementsStage, Stage!Spec

\* The leaves a route has results of are its first ones: KeptLeaves may count them.
KeptInOrder ==
  \A e \in Episodes, rt \in Routes : \A j \in Kept(e, rt) : 1..j \subseteq Kept(e, rt)

\* Leaves are filed in order, over all runs and faults.
THEOREM KeptIsPrefix == Spec => []KeptInOrder
<1>1. Path => KeptInOrder
  <2> SUFFICES ASSUME Path, NEW e \in Episodes, NEW rt \in Routes,
                      NEW j \in Kept(e, rt), NEW i \in 1..j
               PROVE  i \in Kept(e, rt)
    BY DEF KeptInOrder
  <2>1. LeafCount[e] \in Nat /\ j \in 1..LeafCount[e] /\ leaves[<<e, rt, j>>] # Absent
    BY BatchAssumption DEF Kept
  <2>2. i \in 1..LeafCount[e] /\ (i = j \/ i < j)
    BY <2>1
  <2>3. <<e, rt, i>> \in Slots /\ <<e, rt, j>> \in Slots
    BY <2>1, <2>2, SlotAt DEF SlotsOf
  <2>4. <<e, rt, j>> \in claims
    BY <2>1, <2>3, BatchAssumption DEF Path, Filed
  <2>5. leaves[<<e, rt, i>>] # Absent
    BY <2>1, <2>2, <2>3, <2>4 DEF Path, InOrder
  <2> QED
    BY <2>2, <2>5 DEF Kept
<1> QED
  BY <1>1, PathHolds, PTL
==============================================================================
