------------------------- MODULE LiveEvaluationProofs -------------------------
(***************************************************************************)
(* The evaluation for every number of rows, workers, configurations,       *)
(* faults and edits.                                                       *)
(***************************************************************************)
EXTENDS LiveEvaluation, TLAPS

\* A row between its look at the checkpoint and its own checkpoint has none; a
\* row that is done has one that says what the worker returns to the run.
RowShape(r) ==
  /\ pc[r] # "idle" => run # "down" /\ r \in seen
  /\ r \in seen => pc[r] # "idle"
  /\ pc[r] \in {"judge", "delivered", "answered"} => checkpoints[r] = Absent
  /\ pc[r] = "answered" => held[r] # Absent
  /\ pc[r] = "done" => /\ held[r] # Absent
                       /\ checkpoints[r] = [config |-> config, outcome |-> held[r]]

Shape == TypeOK /\ \A r \in Rows : RowShape(r)

\* A row whose request has no checkpoint and no worker was lost to a fault.
LostToFault(r) ==
  /\ sends[r] <= faults + 1
  /\ (checkpoints[r] = Absent /\ pc[r] \notin {"delivered", "answered"}) => sends[r] <= faults

------------------------------------------------------------------------------

LEMMA NextShape == Shape /\ [Next]_vars => Shape'
<1> SUFFICES ASSUME Shape, [Next]_vars PROVE Shape'
  OBVIOUS
<1> USE EvaluationAssumption, NoCheckpointAssumption
    DEF Shape, TypeOK, RowShape, Goto, Fault, operator, disk, Working, Stored, Checkpoints,
        Outcomes
<1>1. CASE StartRun
  BY <1>1 DEF StartRun
<1>2. CASE NoticeException
  BY <1>2 DEF NoticeException
<1>3. CASE EndAborted \/ Crash
  BY <1>3 DEF EndAborted, Crash, Stop
<1>4. CASE EndCompleted
  <2>1. [r \in seen |-> held[r]] \in [seen -> Outcomes]
    BY <1>4 DEF EndCompleted
  <2> QED
    BY <1>4, <2>1 DEF EndCompleted, Stop
<1>5. ASSUME NEW r \in Rows, PickUp(r) PROVE Shape'
  BY <1>5 DEF PickUp
<1>6. ASSUME NEW r \in Rows, ReuseCheckpoint(r) PROVE Shape'
  BY <1>6 DEF ReuseCheckpoint
<1>7. ASSUME NEW r \in Rows, CheckpointConflict(r) PROVE Shape'
  BY <1>7 DEF CheckpointConflict
<1>8. ASSUME NEW r \in Rows, Judge(r) PROVE Shape'
  BY <1>8 DEF Judge
<1>9. ASSUME NEW r \in Rows, FailBeforeDelivery(r) PROVE Shape'
  BY <1>9 DEF FailBeforeDelivery
<1>10. ASSUME NEW r \in Rows, Send(r) PROVE Shape'
  BY <1>10 DEF Send
<1>11. ASSUME NEW r \in Rows, Answer(r) PROVE Shape'
  BY <1>11 DEF Answer
<1>12. ASSUME NEW r \in Rows, WriteCheckpoint(r) PROVE Shape'
  BY <1>12 DEF WriteCheckpoint
<1>13. ASSUME NEW r \in Rows, SidecarFails(r) PROVE Shape'
  BY <1>13 DEF SidecarFails
<1>14. ASSUME NEW r \in Rows, WriteError(r) PROVE Shape'
  BY <1>14 DEF WriteError
<1>15. CASE EditInput \/ EditSettings \/ UNCHANGED vars
  BY <1>15 DEF EditInput, EditSettings, vars
<1> QED
  BY <1>1, <1>2, <1>3, <1>4, <1>5, <1>6, <1>7, <1>8, <1>9,
     <1>10, <1>11, <1>12, <1>13, <1>14, <1>15 DEF Next, MainStep, RowStep

LEMMA InitShape == Init => Shape
  BY EvaluationAssumption DEF Init, Shape, TypeOK, RowShape

LEMMA ShapeHolds == Spec => []Shape
  BY InitShape, NextShape, PTL DEF Spec

------------------------------------------------------------------------------

\* A checkpoint is final.
LEMMA CheckpointIsFinal ==
  ASSUME Shape, [Next]_vars, NEW r \in Rows, checkpoints[r] # Absent
  PROVE  checkpoints'[r] = checkpoints[r]
<1> USE DEF operator, disk
<1>1. ASSUME NEW q \in Rows, WriteCheckpoint(q) PROVE checkpoints'[r] = checkpoints[r]
  BY <1>1 DEF WriteCheckpoint, Goto, Shape, RowShape, TypeOK
<1>2. ASSUME \A q \in Rows : ~WriteCheckpoint(q) PROVE UNCHANGED checkpoints
  BY <1>2 DEF Next, StartRun, MainStep, NoticeException, EndAborted, EndCompleted, RowStep,
     PickUp, ReuseCheckpoint, CheckpointConflict, Judge, FailBeforeDelivery, Send, Answer,
     SidecarFails, WriteError, Crash, EditInput, EditSettings, vars
<1> QED
  BY <1>1, <1>2

\* Steps other than Send pay for nothing.
LEMMA OnlySendPays ==
  ASSUME [Next]_vars, \A q \in Rows : ~Send(q)
  PROVE  UNCHANGED sends
  BY DEF operator, disk, Next, StartRun, MainStep, NoticeException, EndAborted, EndCompleted,
     RowStep, PickUp, ReuseCheckpoint, CheckpointConflict, Judge, FailBeforeDelivery, Answer,
     WriteCheckpoint, SidecarFails, WriteError, Crash, EditInput, EditSettings, vars

LEMMA NextReports ==
  Shape /\ ReportsAreCheckpointed /\ [Next]_vars => ReportsAreCheckpointed'
<1> SUFFICES ASSUME Shape, ReportsAreCheckpointed, [Next]_vars,
                    NEW rep \in reports', NEW r \in rep.input
             PROVE  checkpoints'[r] = [config |-> rep.config, outcome |-> rep.results[r]]
  BY DEF ReportsAreCheckpointed
<1>1. CASE rep \in reports
  <2>1. r \in Rows /\ checkpoints[r] = [config |-> rep.config, outcome |-> rep.results[r]]
    BY <1>1 DEF Shape, TypeOK, ReportsAreCheckpointed
  <2>2. checkpoints[r] \in Checkpoints
    BY <1>1, <2>1 DEF Shape, TypeOK, Checkpoints
  <2> QED
    BY <2>1, <2>2, CheckpointIsFinal, NoCheckpointAssumption
<1>2. CASE rep \notin reports
  <2>1. EndCompleted
    BY <1>2 DEF operator, disk, Next, StartRun, MainStep, NoticeException, EndAborted, RowStep,
       PickUp, ReuseCheckpoint, CheckpointConflict, Judge, FailBeforeDelivery, Send, Answer,
       WriteCheckpoint, SidecarFails, WriteError, Crash, EditInput, EditSettings, vars
  <2>2. rep = [input |-> seen, config |-> config, results |-> [q \in seen |-> held[q]]]
    BY <1>2, <2>1 DEF EndCompleted
  <2>3. r \in seen /\ r \in Rows /\ pc[r] = "done" /\ UNCHANGED checkpoints
    BY <2>1, <2>2 DEF EndCompleted, Shape, TypeOK
  <2> QED
    BY <2>2, <2>3 DEF Shape, RowShape
<1> QED
  BY <1>1, <1>2

LEMMA NextLost ==
  Shape /\ (\A r \in Rows : LostToFault(r)) /\ [Next]_vars =>
    (\A r \in Rows : LostToFault(r))'
<1> SUFFICES ASSUME Shape, [Next]_vars, NEW r \in Rows, LostToFault(r) PROVE LostToFault(r)'
  OBVIOUS
<1> USE DEF LostToFault, Shape, TypeOK, RowShape, Goto, Fault, operator, disk, Working
<1>0. sends[r] \in Nat /\ faults \in Nat
  BY EvaluationAssumption
<1>1. CASE StartRun \/ NoticeException \/ EditInput \/ EditSettings \/ UNCHANGED vars
  BY <1>0, <1>1 DEF StartRun, NoticeException, EditInput, EditSettings, vars
<1>2. CASE EndAborted
  BY <1>0, <1>2, NoCheckpointAssumption DEF EndAborted, Stop, Running
<1>3. CASE EndCompleted
  BY <1>0, <1>3 DEF EndCompleted, Stop
<1>4. CASE Crash
  BY <1>0, <1>4 DEF Crash, Stop
<1>5. ASSUME NEW q \in Rows, PickUp(q) PROVE LostToFault(r)'
  BY <1>0, <1>5 DEF PickUp
<1>6. ASSUME NEW q \in Rows, ReuseCheckpoint(q) PROVE LostToFault(r)'
  BY <1>0, <1>6 DEF ReuseCheckpoint
<1>7. ASSUME NEW q \in Rows, CheckpointConflict(q) PROVE LostToFault(r)'
  BY <1>0, <1>7 DEF CheckpointConflict
<1>8. ASSUME NEW q \in Rows, Judge(q) PROVE LostToFault(r)'
  BY <1>0, <1>8 DEF Judge
<1>9. ASSUME NEW q \in Rows, FailBeforeDelivery(q) PROVE LostToFault(r)'
  BY <1>0, <1>9 DEF FailBeforeDelivery
<1>10. ASSUME NEW q \in Rows, Send(q) PROVE LostToFault(r)'
  BY <1>0, <1>10 DEF Send
<1>11. ASSUME NEW q \in Rows, Answer(q) PROVE LostToFault(r)'
  BY <1>0, <1>11 DEF Answer
<1>12. ASSUME NEW q \in Rows, WriteCheckpoint(q) PROVE LostToFault(r)'
  <2>1. [config |-> config, outcome |-> held[q]] \in Checkpoints
    BY <1>12 DEF WriteCheckpoint, Checkpoints
  <2>2. /\ checkpoints'[q] # Absent
        /\ \A p \in Rows \ {q} : checkpoints'[p] = checkpoints[p] /\ pc'[p] = pc[p]
    BY <1>12, <2>1, NoCheckpointAssumption DEF WriteCheckpoint, Stored
  <2> QED
    BY <1>0, <1>12, <2>2 DEF WriteCheckpoint
<1>13. ASSUME NEW q \in Rows, SidecarFails(q) PROVE LostToFault(r)'
  BY <1>0, <1>13 DEF SidecarFails
<1>14. ASSUME NEW q \in Rows, WriteError(q) PROVE LostToFault(r)'
  BY <1>0, <1>14 DEF WriteError
<1> QED
  BY <1>1, <1>2, <1>3, <1>4, <1>5, <1>6, <1>7, <1>8,
     <1>9, <1>10, <1>11, <1>12, <1>13, <1>14 DEF Next, MainStep, RowStep

------------------------------------------------------------------------------

\* Every value on disk and in memory keeps its type, for any number of rows,
\* workers and configurations.
THEOREM TypeCorrect == Spec => []TypeOK
<1>1. Shape => TypeOK
  BY DEF Shape
<1> QED
  BY <1>1, ShapeHolds, PTL

\* A checkpointed row is never sent to the judge again by any worker of any run
\* under any configuration.
THEOREM CheckpointedIsFinal == Spec => NeverResent
<1>1. Shape /\ [Next]_vars =>
        [\A r \in Rows : checkpoints[r] # Absent => sends'[r] = sends[r]]_vars
  <2> SUFFICES ASSUME Shape, [Next]_vars, NEW r \in Rows, checkpoints[r] # Absent
               PROVE  sends'[r] = sends[r]
    OBVIOUS
  <2>1. ASSUME NEW q \in Rows, Send(q) PROVE sends'[r] = sends[r]
    BY <2>1 DEF Send, Goto, Shape, RowShape, TypeOK
  <2> QED
    BY <2>1, OnlySendPays
<1> QED
  BY <1>1, ShapeHolds, PTL DEF Spec, NeverResent

\* Reports quote checkpoints and nothing else, whichever run wrote those.
THEOREM ReportsQuote == Spec => []ReportsAreCheckpointed
<1>1. Init => ReportsAreCheckpointed
  BY DEF Init, ReportsAreCheckpointed
<1> QED
  BY <1>1, NextReports, ShapeHolds, PTL DEF Spec

\* Each further request for a row needs a fault of its own.
THEOREM ResendsNeedFaults == Spec => []ResendsAreFaults
<1>1. Init => \A r \in Rows : LostToFault(r)
  BY DEF Init, LostToFault
<1>2. (\A r \in Rows : LostToFault(r)) => ResendsAreFaults
  BY DEF LostToFault, ResendsAreFaults
<1> QED
  BY <1>1, <1>2, NextLost, ShapeHolds, PTL DEF Spec

------------------------------------------------------------------------------
\* The evaluation implements JudgingStage.

LEMMA StageStep ==
  Shape /\ ReportsAreCheckpointed /\ [Next]_vars => [Stage!Next]_(Stage!vars)
<1> SUFFICES ASSUME Shape, ReportsAreCheckpointed, [Next]_vars
             PROVE  [Stage!Next]_(Stage!vars)
  OBVIOUS
<1> DEFINE results == [r \in Rows |-> IF checkpoints[r] = Absent THEN Absent
                                      ELSE checkpoints[r].outcome]
           covered == {rep.input : rep \in reports}
<1>1. ASSUME NEW q \in Rows, WriteCheckpoint(q) PROVE Stage!Judge(q)
  <2>1. checkpoints[q] = Absent /\ held[q] \in Outcomes /\ config \in Configs
    BY <1>1 DEF WriteCheckpoint, Goto, Shape, RowShape, TypeOK
  <2>2. [config |-> config, outcome |-> held[q]] # Absent
    BY <2>1, NoCheckpointAssumption DEF Checkpoints
  <2>3. checkpoints' = [checkpoints EXCEPT ![q] = [config |-> config, outcome |-> held[q]]]
    BY <1>1, <2>1 DEF WriteCheckpoint, Stored
  <2>4. results[q] = Absent /\ results' = [results EXCEPT ![q] = held[q]]
    BY <2>1, <2>2, <2>3 DEF Shape, TypeOK
  <2>5. UNCHANGED covered
    BY <1>1 DEF WriteCheckpoint
  <2> QED
    BY <2>1, <2>4, <2>5 DEF Stage!Judge
<1>2. CASE EndCompleted
  <2>1. checkpoints' = checkpoints /\ seen \in SUBSET Rows
    BY <1>2 DEF EndCompleted, Shape, TypeOK
  <2>2. \A r \in seen : checkpoints[r] # Absent
    <3>1. ASSUME NEW r \in seen PROVE checkpoints[r] # Absent
      <4>1. pc[r] = "done" /\ config \in Configs
        BY <1>2, <2>1 DEF EndCompleted, Shape, TypeOK
      <4>2. checkpoints[r] = [config |-> config, outcome |-> held[r]] /\ held[r] \in Outcomes
        BY <2>1, <4>1 DEF Shape, RowShape, TypeOK
      <4> QED
        BY <4>1, <4>2, NoCheckpointAssumption DEF Checkpoints
    <3> QED
      BY <3>1
  <2>3. ASSUME Absent \in Outcomes PROVE FALSE
    BY <2>3, EvaluationAssumption DEF Outcomes
  <2>4. \A r \in seen : results[r] # Absent
    BY <2>1, <2>2, <2>3 DEF Shape, TypeOK, Checkpoints
  <2>5. CASE reports' = reports
    BY <2>1, <2>5 DEF Stage!vars
  <2>6. CASE reports' # reports
    <3> DEFINE new == [input |-> seen, config |-> config,
                       results |-> [r \in seen |-> held[r]]]
    <3>1. reports' = reports \cup {new} /\ new.input = seen
      BY <1>2, <2>6 DEF EndCompleted
    <3> HIDE DEF new
    <3>2. covered' = covered \cup {seen}
      BY <3>1
    <3>3. PICK rows \in SUBSET Rows : rows = seen
      BY <2>1
    <3>4. Stage!Report(rows)
      BY <2>1, <2>4, <3>2, <3>3 DEF Stage!Report
    <3> QED
      BY <3>4 DEF Stage!Next
  <2> QED
    BY <2>5, <2>6
<1>3. ASSUME ~EndCompleted, \A q \in Rows : ~WriteCheckpoint(q)
      PROVE  UNCHANGED <<checkpoints, reports>>
  BY <1>3 DEF operator, disk, Next, StartRun, MainStep, NoticeException, EndAborted, RowStep,
     PickUp, ReuseCheckpoint, CheckpointConflict, Judge, FailBeforeDelivery, Send, Answer,
     SidecarFails, WriteError, Crash, EditInput, EditSettings, vars
<1>4. ASSUME UNCHANGED <<checkpoints, reports>> PROVE UNCHANGED Stage!vars
  BY <1>4 DEF Stage!vars
<1> QED
  BY <1>1, <1>2, <1>3, <1>4 DEF Stage!Next

\* Crashed, aborted and repeated runs under edited inputs and configurations
\* look to the next stage like rows that are judged once and reports about
\* judged rows: a row that was lost and paid for again still has one result.
THEOREM EvaluationImplementsStage == Spec => ImplementsStage
<1>1. Init => Stage!Init
  BY DEF Init, Stage!Init
<1> QED
  BY <1>1, StageStep, ShapeHolds, ReportsQuote, PTL DEF Spec, ImplementsStage, Stage!Spec
==============================================================================
