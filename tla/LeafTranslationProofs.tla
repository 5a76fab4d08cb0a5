------------------------ MODULE LeafTranslationProofs ------------------------
(***************************************************************************)
(* _leaf_record for every number of runners, settings and response bodies, *)
(* and for every number of calls and crashes: the evidence on disk is      *)
(* consistent, and paid requests are bounded by the number of runners.     *)
(***************************************************************************)
EXTENDS LeafTranslation, FiniteSetTheorems, TLAPS

Holding == {"emit_attempt", "emit_usage", "publish_leaf"}

\* What a runner's program counter says about the files and its reply.
RunnerState(r) ==
  /\ pc[r] # "idle" => setting[r] \in Settings
  /\ pc[r] \in {"adapter", "delivered"} \cup Holding => setting[r] \in claims
  /\ pc[r] \in {"delivered"} \cup Holding => setting[r] \in Approved
  /\ pc[r] \in Holding => reply[r] \in Records
  /\ pc[r] \in {"emit_usage", "publish_leaf"} => attempts[setting[r]] = reply[r]
  /\ pc[r] = "publish_leaf" => reply[r].kind = "succeeded"
  /\ outcome[r] # "none" => setting[r] \in Settings
  /\ outcome[r] = "misconfigured" => setting[r] \notin Approved

\* Requests sent and runners that still may send share the bound; before the
\* claim exists nothing was sent, so everybody may still be on the way to it.
Budget(s) ==
  /\ sends[s] + Cardinality(Entitled(s)) <= Cardinality(Runners)
  /\ s \notin claims => sends[s] = 0

\* Under a refused endpoint nothing is sent and nothing recorded.
NothingRefused == \A s \in Settings \ Approved : sends[s] = 0 /\ attempts[s] = Absent

Evidence ==
  /\ \A r \in Runners : RunnerState(r)
  /\ NothingRefused
  /\ LeafIsEvidenced
  /\ UsageIsEvidenced
  /\ FailureIsRecorded
  /\ ReturnsOwnLeaf

IInv == TypeOK /\ Evidence /\ \A s \in Settings : Budget(s)

------------------------------------------------------------------------------

\* Facts about attempt records.
LEMMA RecordFacts ==
  /\ Blocked \in Records
  /\ \A code \in LocalFailures \cup RemoteFailures : Failure(code, Absent) \in Records
  /\ \A body \in Bodies \ Valid : Failure("provider_response_invalid", body) \in Records
  /\ \A body \in Valid : Success(body) \in Records
  /\ \A rec \in Records : rec.kind = "succeeded" => rec.body \in Valid /\ rec = Success(rec.body)
  /\ \A rec \in Records : rec.body \in Bodies \cup {Absent}
<1>1. ASSUME NEW rec \in Records
      PROVE  /\ rec.kind = "succeeded" => rec.body \in Valid /\ rec = Success(rec.body)
             /\ rec.body \in Bodies \cup {Absent}
  <2>1. CASE rec = Blocked
    BY <2>1 DEF Blocked
  <2>2. CASE \E code \in LocalFailures \cup RemoteFailures : rec = Failure(code, Absent)
    BY <2>2 DEF Failure
  <2>3. CASE \E body \in Bodies \ Valid : rec = Failure("provider_response_invalid", body)
    BY <2>3 DEF Failure
  <2>4. CASE \E body \in Valid : rec = Success(body)
    BY <2>4 DEF Success, Valid
  <2> QED
    BY <1>1, <2>1, <2>2, <2>3, <2>4 DEF Records
<1> QED
  BY <1>1 DEF Records

LEMMA InitIInv == Init => IInv
<1> SUFFICES ASSUME Init PROVE IInv
  OBVIOUS
<1>1. TypeOK /\ Evidence
  <2>1. TypeOK
    BY LeafAssumption DEF Init, TypeOK, Labels, Outcomes
  <2>2. LeafIsEvidenced /\ UsageIsEvidenced /\ FailureIsRecorded /\ ReturnsOwnLeaf
    BY DEF Init, LeafIsEvidenced, UsageIsEvidenced, FailureIsRecorded, ReturnsOwnLeaf
  <2>3. \A r \in Runners : RunnerState(r)
    BY DEF Init, RunnerState, Holding
  <2>4. NothingRefused
    BY DEF Init, NothingRefused
  <2> QED
    BY <2>1, <2>2, <2>3, <2>4 DEF Evidence
<1>2. ASSUME NEW s \in Settings PROVE Budget(s)
  <2>1. Entitled(s) = {}
    BY DEF Init, Entitled
  <2>2. Cardinality(Entitled(s)) = 0 /\ Cardinality(Runners) \in Nat
    BY <2>1, FS_EmptySet, FS_CardinalityType, LeafAssumption
  <2>3. sends[s] = 0
    BY DEF Init
  <2> QED
    BY <2>2, <2>3 DEF Budget
<1> QED
  BY <1>1, <1>2 DEF IInv

------------------------------------------------------------------------------

\* Every step keeps the evidence on disk consistent.
LEMMA NextEvidence == IInv /\ [Next]_vars => TypeOK' /\ Evidence'
<1> SUFFICES ASSUME IInv, [Next]_vars PROVE TypeOK' /\ Evidence'
  OBVIOUS
<1> USE LeafAssumption, AbsentAssumption, RecordFacts
    DEF IInv, TypeOK, Evidence, RunnerState, NothingRefused, Holding, Labels, Outcomes,
        Goto, files
<1>1. ASSUME NEW r \in Runners, NEW s \in Settings, Begin(r, s)
      PROVE  TypeOK' /\ Evidence'
  BY <1>1 DEF Begin, LeafIsEvidenced, UsageIsEvidenced, FailureIsRecorded, ReturnsOwnLeaf
<1>2. ASSUME NEW r \in Runners, ReuseLeaf(r)
      PROVE  TypeOK' /\ Evidence'
  BY <1>2 DEF ReuseLeaf, Finish, LeafIsEvidenced, UsageIsEvidenced, FailureIsRecorded,
              ReturnsOwnLeaf
<1>3. ASSUME NEW r \in Runners, NoLeaf(r)
      PROVE  TypeOK' /\ Evidence'
  BY <1>3 DEF NoLeaf, LeafIsEvidenced, UsageIsEvidenced, FailureIsRecorded, ReturnsOwnLeaf
<1>4. ASSUME NEW r \in Runners, RefuseEvidence(r)
      PROVE  TypeOK' /\ Evidence'
  BY <1>4 DEF RefuseEvidence, Finish, LeafIsEvidenced, UsageIsEvidenced,
              FailureIsRecorded, ReturnsOwnLeaf
<1>5. ASSUME NEW r \in Runners, NoEvidence(r)
      PROVE  TypeOK' /\ Evidence'
  BY <1>5 DEF NoEvidence, LeafIsEvidenced, UsageIsEvidenced, FailureIsRecorded,
              ReturnsOwnLeaf
<1>6. ASSUME NEW r \in Runners, Claim(r)
      PROVE  TypeOK' /\ Evidence'
  BY <1>6 DEF Claim, LeafIsEvidenced, UsageIsEvidenced, FailureIsRecorded, ReturnsOwnLeaf
<1>7. ASSUME NEW r \in Runners, FailBeforeDelivery(r)
      PROVE  TypeOK' /\ Evidence'
  BY <1>7 DEF FailBeforeDelivery, Hold, LeafIsEvidenced, UsageIsEvidenced,
              FailureIsRecorded, ReturnsOwnLeaf
<1>8. ASSUME NEW r \in Runners, Send(r)
      PROVE  TypeOK' /\ Evidence'
  BY <1>8 DEF Send, LeafIsEvidenced, UsageIsEvidenced, FailureIsRecorded, ReturnsOwnLeaf
<1>9. ASSUME NEW r \in Runners, Answer(r)
      PROVE  TypeOK' /\ Evidence'
  BY <1>9 DEF Answer, Hold, LeafIsEvidenced, UsageIsEvidenced, FailureIsRecorded,
              ReturnsOwnLeaf
<1>10. ASSUME NEW r \in Runners, EmitAttempt(r)
       PROVE  TypeOK' /\ Evidence'
  <2> DEFINE s == setting[r]
  <2>1. s \in Settings /\ reply[r] \in Records /\ s \in claims
    BY <1>10 DEF EmitAttempt
  <2>2. CASE attempts[s] = Absent
    <3>1. attempts' = [attempts EXCEPT ![s] = reply[r]] /\ Goto(r, "emit_attempt", "emit_usage")
      BY <1>10, <2>2 DEF EmitAttempt, Stored, Verdict
    <3>2. UNCHANGED <<leaf, claims, usage, sends, setting, calls, reply, outcome>>
      BY <1>10, <2>2 DEF EmitAttempt, Verdict
    <3>3. TypeOK'
      BY <2>1, <3>1, <3>2
    <3>4. ASSUME NEW q \in Runners PROVE RunnerState(q)'
      <4>1. CASE q = r
        BY <2>1, <2>2, <3>1, <3>2, <4>1
      <4>2. CASE q # r
        BY <2>1, <2>2, <3>1, <3>2, <4>2
      <4> QED
        BY <4>1, <4>2
    <3>5. LeafIsEvidenced' /\ ReturnsOwnLeaf'
      <4>1. leaf # Absent => leaf.setting \in Settings /\ leaf.body \in Valid
        BY DEF LeafIsEvidenced, Leaves, Valid
      <4>2. leaf # Absent => leaf.setting # s
        BY <2>2, <4>1 DEF LeafIsEvidenced
      <4> QED
        BY <3>1, <3>2, <4>1, <4>2 DEF LeafIsEvidenced, ReturnsOwnLeaf
    <3>6. UsageIsEvidenced' /\ FailureIsRecorded'
      BY <2>1, <2>2, <3>1, <3>2 DEF UsageIsEvidenced, FailureIsRecorded
    <3>7. NothingRefused'
      BY <1>10, <2>1, <3>1, <3>2 DEF EmitAttempt
    <3> QED
      BY <3>3, <3>4, <3>5, <3>6, <3>7
  <2>3. CASE attempts[s] # Absent
    <3>1. attempts' = attempts
      BY <1>10, <2>1, <2>3 DEF EmitAttempt, Stored
    <3> QED
      BY <1>10, <2>1, <2>3, <3>1
         DEF EmitAttempt, Finish, Verdict, LeafIsEvidenced, UsageIsEvidenced,
             FailureIsRecorded, ReturnsOwnLeaf
  <2> QED
    BY <2>2, <2>3
<1>11. ASSUME NEW r \in Runners, EmitUsage(r)
       PROVE  TypeOK' /\ Evidence'
  BY <1>11 DEF EmitUsage, Finish, LeafIsEvidenced, UsageIsEvidenced, FailureIsRecorded,
               ReturnsOwnLeaf
<1>12. ASSUME NEW r \in Runners, SinkError(r)
       PROVE  TypeOK' /\ Evidence'
  BY <1>12 DEF SinkError, Finish, LeafIsEvidenced, UsageIsEvidenced, FailureIsRecorded,
               ReturnsOwnLeaf
<1>13. ASSUME NEW r \in Runners, PublishLeaf(r)
       PROVE  TypeOK' /\ Evidence'
  <2> DEFINE s == setting[r]
  <2>1. s \in Settings /\ reply[r] \in Records /\ attempts[s] = reply[r]
    BY <1>13 DEF PublishLeaf
  <2>2. reply[r].body \in Valid /\ reply[r] = Success(reply[r].body)
    BY <1>13, <2>1 DEF PublishLeaf
  <2>3. LeafOf(r) \in Leaves
    BY <2>1, <2>2 DEF LeafOf, Leaves, Valid
  <2>4. TypeOK'
    BY <1>13, <2>3 DEF PublishLeaf, Finish, Stored, Verdict
  <2>5. UNCHANGED <<claims, attempts, usage, sends, setting, calls>>
    BY <1>13 DEF PublishLeaf
  <2>6. (\A q \in Runners : RunnerState(q))' /\ UsageIsEvidenced' /\ FailureIsRecorded'
    BY <1>13, <2>1, <2>5
       DEF PublishLeaf, Finish, Verdict, UsageIsEvidenced, FailureIsRecorded
  <2>7. LeafIsEvidenced'
    BY <1>13, <2>1, <2>2, <2>5 DEF PublishLeaf, Stored, LeafOf, LeafIsEvidenced
  <2>8. ReturnsOwnLeaf'
    <3>1. outcome'[r] = "returned" => leaf' # Absent /\ leaf'.setting = s
      BY <1>13, <2>1, <2>3 DEF PublishLeaf, Finish, Stored, Verdict, LeafOf
    <3>2. ASSUME NEW q \in Runners, q # r, outcome'[q] = "returned"
          PROVE  leaf' # Absent /\ leaf'.setting = setting'[q]
      BY <1>13, <2>5, <3>2 DEF PublishLeaf, Finish, Stored, ReturnsOwnLeaf
    <3> QED
      BY <2>5, <3>1, <3>2 DEF ReturnsOwnLeaf
  <2>9. NothingRefused'
    BY <2>5
  <2> QED
    BY <2>4, <2>6, <2>7, <2>8, <2>9
<1>14. ASSUME NEW r \in Runners, Crash(r)
       PROVE  TypeOK' /\ Evidence'
  BY <1>14 DEF Crash, Finish, LeafIsEvidenced, UsageIsEvidenced, FailureIsRecorded,
               ReturnsOwnLeaf
<1>15. ASSUME NEW r \in Runners, RefuseEndpoint(r)
       PROVE  TypeOK' /\ Evidence'
  BY <1>15 DEF RefuseEndpoint, Finish, LeafIsEvidenced, UsageIsEvidenced,
               FailureIsRecorded, ReturnsOwnLeaf
<1>16. CASE UNCHANGED vars
  BY <1>16 DEF vars, LeafIsEvidenced, UsageIsEvidenced, FailureIsRecorded, ReturnsOwnLeaf
<1> QED
  BY <1>1, <1>2, <1>3, <1>4, <1>5, <1>6, <1>7, <1>8, <1>9, <1>10, <1>11, <1>12,
     <1>13, <1>14, <1>15, <1>16 DEF Next, Step

------------------------------------------------------------------------------

\* A step that does not enlarge the runners entitled to send keeps the budget.
LEMMA BudgetKept ==
  ASSUME IInv, NEW s \in Settings, Entitled(s)' \subseteq Entitled(s),
         sends'[s] = sends[s], claims \subseteq claims'
  PROVE  Budget(s)'
<1>1. IsFiniteSet(Entitled(s))
  BY FS_Subset, LeafAssumption DEF Entitled
<1>2. Cardinality(Entitled(s)') <= Cardinality(Entitled(s))
  BY <1>1, FS_Subset
<1>3. /\ Cardinality(Entitled(s)) \in Nat
      /\ Cardinality(Entitled(s)') \in Nat
      /\ Cardinality(Runners) \in Nat
  BY <1>1, FS_Subset, FS_CardinalityType, LeafAssumption
<1>4. sends[s] \in Nat /\ Budget(s)
  BY DEF IInv, TypeOK
<1> QED
  BY <1>2, <1>3, <1>4 DEF Budget

LEMMA NextBudget ==
  ASSUME IInv, [Next]_vars, NEW s \in Settings
  PROVE  Budget(s)'
<1> USE DEF Goto, files
<1>1. ASSUME NEW r \in Runners, NoEvidence(r), setting[r] = s
      PROVE  Budget(s)'
  <2>1. s \notin claims /\ sends[s] = 0 /\ UNCHANGED sends
    BY <1>1 DEF NoEvidence, IInv, Budget
  <2>2. Entitled(s)' \subseteq Runners
    BY DEF Entitled
  <2>3. Cardinality(Entitled(s)') <= Cardinality(Runners)
    BY <2>2, FS_Subset, LeafAssumption
  <2>4. Cardinality(Entitled(s)') \in Nat
    BY <2>2, FS_Subset, FS_CardinalityType, LeafAssumption
  <2> QED
    BY <2>1, <2>3, <2>4 DEF Budget
<1>2. ASSUME NEW r \in Runners, Send(r), setting[r] = s
      PROVE  Budget(s)'
  <2>1. r \in Entitled(s) /\ IsFiniteSet(Entitled(s))
    BY <1>2, FS_Subset, LeafAssumption DEF Send, Entitled
  <2>2. Entitled(s)' = Entitled(s) \ {r}
    BY <1>2 DEF Send, Entitled, IInv, TypeOK
  <2>3. Cardinality(Entitled(s)') = Cardinality(Entitled(s)) - 1
    BY <2>1, <2>2, FS_RemoveElement
  <2>4. sends'[s] = sends[s] + 1 /\ sends[s] \in Nat
    BY <1>2 DEF Send, IInv, TypeOK
  <2>5. s \in claims'
    BY <1>2 DEF Send, IInv, Evidence, RunnerState
  <2>6. Cardinality(Entitled(s)) \in Nat /\ Cardinality(Runners) \in Nat
    BY <2>1, FS_CardinalityType, LeafAssumption
  <2> QED
    BY <2>3, <2>4, <2>5, <2>6 DEF Budget, IInv
<1>3. ASSUME \A r \in Runners : setting[r] = s => ~NoEvidence(r) /\ ~Send(r)
      PROVE  Budget(s)'
  <2>1. claims \subseteq claims'
    BY DEF Next, Step, Begin, ReuseLeaf, NoLeaf, RefuseEvidence, NoEvidence, Claim,
           RefuseEndpoint, FailBeforeDelivery, Hold, Send, Answer, EmitAttempt, EmitUsage,
           SinkError, PublishLeaf, Crash, Finish, vars
  <2>2. sends'[s] = sends[s]
    BY <1>3
       DEF Next, Step, Begin, ReuseLeaf, NoLeaf, RefuseEvidence, NoEvidence, Claim,
           RefuseEndpoint, FailBeforeDelivery, Hold, Send, Answer, EmitAttempt, EmitUsage,
           SinkError, PublishLeaf, Crash, Finish, vars, IInv, TypeOK
  <2>3. Entitled(s)' \subseteq Entitled(s)
    BY <1>3
       DEF Next, Step, Begin, ReuseLeaf, NoLeaf, RefuseEvidence, NoEvidence, Claim,
           RefuseEndpoint, FailBeforeDelivery, Hold, Send, Answer, EmitAttempt, EmitUsage,
           SinkError, PublishLeaf, Crash, Finish, vars, IInv, TypeOK, Entitled
  <2> QED
    BY <2>1, <2>2, <2>3, BudgetKept
<1> QED
  BY <1>1, <1>2, <1>3

------------------------------------------------------------------------------

\* The inductive invariant holds in every reachable state.
LEMMA Invariance == Spec => []IInv
<1>1. IInv /\ [Next]_vars => IInv'
  BY NextEvidence, NextBudget DEF IInv
<1> QED
  BY <1>1, InitIInv, PTL DEF Spec

\* Type correctness for every instance of the constants.
THEOREM TypeCorrect == Spec => []TypeOK
  BY Invariance, PTL DEF IInv

\* For any number of runners, crashes and settings a leaf result is the text of
\* the response its attempt record vouches for (_leaf_record), token sidecars
\* only exist for recorded responses, and the adapter's error is never raised
\* without its record being on disk (adapter.translate): the one exception, the
\* refusal of the configured endpoint, leaves neither a record nor a request.
THEOREM EvidenceIsConsistent == Spec => []EvidenceAgrees
  BY Invariance, PTL DEF IInv, Evidence, EvidenceAgrees

\* A call never returns a leaf of other settings (attempt id comparison).
THEOREM LeafIsOwn == Spec => []ReturnsOwnLeaf
  BY Invariance, PTL DEF IInv, Evidence

\* Paid requests per attempt id are bounded by the runners on the root, for any
\* number of calls and crashes: one runner at a time never pays twice.
THEOREM PaidRequestsBounded == Spec => []SendsBounded
<1>1. IInv => SendsBounded
  <2> SUFFICES ASSUME IInv, NEW s \in Settings PROVE sends[s] <= Cardinality(Runners)
    BY DEF SendsBounded
  <2>1. Cardinality(Entitled(s)) \in Nat /\ Cardinality(Runners) \in Nat
    BY FS_Subset, FS_CardinalityType, LeafAssumption DEF Entitled
  <2> QED
    BY <2>1 DEF IInv, TypeOK, Budget
<1> QED
  BY <1>1, Invariance, PTL

\* A claim nobody holds is never sent again: the claim on disk is the whole
\* difference between an unknown delivery and a free request.
THEOREM ClaimIsFinal == Spec => NoResend
<1>1. ASSUME IInv, [Next]_vars, NEW s \in Settings, s \in claims, Entitled(s) = {}
      PROVE  Entitled(s)' = {} /\ sends'[s] = sends[s]
  BY <1>1
     DEF Next, Step, Begin, ReuseLeaf, NoLeaf, RefuseEvidence, NoEvidence, Claim,
         RefuseEndpoint, FailBeforeDelivery, Hold, Send, Answer, EmitAttempt, EmitUsage,
         SinkError, PublishLeaf, Crash, Finish, vars, IInv, TypeOK, Entitled, Goto, files
<1>2. IInv /\ [Next]_vars =>
        [\A s \in Settings :
           (s \in claims /\ Entitled(s) = {}) =>
             Entitled(s)' = {} /\ sends'[s] = sends[s]]_vars
  BY <1>1
<1> QED
  BY <1>2, Invariance, PTL DEF Spec, NoResend
==============================================================================
