---------------------------- MODULE LiveEvaluation ----------------------------
(***************************************************************************)
(* live_evaluation.run_live_evaluation with the OpenAI judge: the rows of  *)
(* one input file are judged by a pool of workers into one output root,    *)
(* over any number of crashed, aborted, completed and repeated runs, one   *)
(* run at a time, each with a pipeline configuration.  Unlike a            *)
(* translation, a judge request leaves no claim: the only durable trace of *)
(* a row is its checkpoint, written after the answer.                      *)
(***************************************************************************)
EXTENDS Naturals, FiniteSets, Publication

CONSTANTS RowCount,  \* evaluation inputs, in file order
          Workers,   \* max_workers
          Configs,   \* pipeline configurations (role included)
          Verdicts,  \* verdicts a judge may return
          MaxFaults, \* bound: crashes, write errors and sidecar failures
          MaxEdits   \* bound: edits of the input file and of the configuration

Rows == 1..RowCount

ASSUME EvaluationAssumption ==
  /\ RowCount \in Nat /\ Workers \in 1..16
  /\ Absent \notin Configs \cup Verdicts \cup {"failed"} /\ "failed" \notin Verdicts
  /\ MaxFaults \in Nat /\ MaxEdits \in Nat

VARIABLES
  input,         \* the input file: its rows (their ids are content hashes)
  settings,      \* the pipeline configuration runs are started with
  checkpoints,   \* <root>/checkpoints, per row
  reports,       \* <root>/results, <root>/attempts and <root>/runs
  sends,         \* judge requests handed to the provider (paid), per row
  run,           \* "down", "up", or "aborting" after the main thread saw an exception
  seen, config,  \* the input file and configuration of the run
  pc, held,      \* each row: where its worker is, the result it holds
  faults, edits  \* counters for the bounds

operator == <<input, settings>>
disk == <<checkpoints, reports>>
vars == <<operator, disk, sends, run, seen, config, pc, held, faults, edits>>

Outcomes == Verdicts \cup {"failed"}
Working == {"look", "judge", "delivered", "answered"}
Checkpoints == [config: Configs, outcome: Outcomes]

ASSUME NoCheckpointAssumption == Absent \notin Checkpoints

TypeOK ==
  /\ input \in SUBSET Rows \ {{}}
  /\ settings \in Configs
  /\ checkpoints \in [Rows -> Checkpoints \cup {Absent}]
  /\ \A rep \in reports : /\ rep.input \in SUBSET Rows /\ rep.config \in Configs
                          /\ rep.results \in [rep.input -> Outcomes]
  /\ sends \in [Rows -> Nat]
  /\ run \in {"down", "up", "aborting"}
  /\ seen \in SUBSET Rows
  /\ config \in Configs \cup {Absent}
  /\ run # "down" => config \in Configs
  /\ pc \in [Rows -> Working \cup {"idle", "queued", "cancelled", "done", "raised"}]
  /\ held \in [Rows -> Outcomes \cup {Absent}]
  /\ faults \in 0..MaxFaults /\ edits \in 0..MaxEdits

Init ==
  /\ input \in SUBSET Rows \ {{}}
  /\ settings \in Configs
  /\ checkpoints = [r \in Rows |-> Absent]
  /\ reports = {}
  /\ sends = [r \in Rows |-> 0]
  /\ run = "down" /\ seen = {} /\ config = Absent
  /\ pc = [r \in Rows |-> "idle"]
  /\ held = [r \in Rows |-> Absent]
  /\ faults = 0 /\ edits = 0

Goto(r, from, to) ==
  /\ pc[r] = from
  /\ pc' = [pc EXCEPT ![r] = to]

Fault == faults < MaxFaults /\ faults' = faults + 1

------------------------------------------------------------------------------
\* The main thread, see AutonomousTranslation for the pool.

StartRun ==
  /\ run = "down"
  /\ run' = "up"
  /\ seen' = input
  /\ config' = settings
  /\ pc' = [r \in Rows |-> IF r \in input THEN "queued" ELSE "idle"]
  /\ UNCHANGED <<operator, disk, sends, held, faults, edits>>

Stop ==
  /\ run' = "down" /\ seen' = {} /\ config' = Absent
  /\ pc' = [r \in Rows |-> "idle"]
  /\ held' = [r \in Rows |-> Absent]

Running == {r \in Rows : pc[r] \in Working}
Earlier(r) == {q \in seen : q < r}

PickUp(r) ==
  /\ run = "up"
  /\ Goto(r, "queued", "look")
  /\ \A q \in Earlier(r) : pc[q] # "queued" /\ (Workers = 1 => pc[q] = "done")
  /\ Cardinality(Running) < Workers
  /\ UNCHANGED <<operator, disk, sends, run, seen, config, held, faults, edits>>

NoticeException ==
  /\ run = "up"
  /\ \E r \in seen : pc[r] = "raised" /\ \A q \in Earlier(r) : pc[q] = "done"
  /\ run' = "aborting"
  /\ pc' = [r \in Rows |-> IF pc[r] = "queued" THEN "cancelled" ELSE pc[r]]
  /\ UNCHANGED <<operator, disk, sends, seen, config, held, faults, edits>>

EndAborted ==
  /\ run = "aborting"
  /\ Running = {}
  /\ Stop
  /\ UNCHANGED <<operator, disk, sends, faults, edits>>

\* The results are those the workers returned; nothing is published when the
\* input file has changed.
EndCompleted ==
  /\ run = "up"
  /\ \A r \in seen : pc[r] = "done"
  /\ reports' = IF input = seen
                THEN reports \cup {[input |-> seen, config |-> config,
                                    results |-> [r \in seen |-> held[r]]]}
                ELSE reports
  /\ Stop
  /\ UNCHANGED <<operator, checkpoints, sends, faults, edits>>

------------------------------------------------------------------------------
\* evaluate_item

ReuseCheckpoint(r) ==
  /\ Goto(r, "look", "done")
  /\ checkpoints[r] # Absent
  /\ checkpoints[r].config = config
  /\ held' = [held EXCEPT ![r] = checkpoints[r].outcome]
  /\ UNCHANGED <<operator, disk, sends, run, seen, config, faults, edits>>

\* "evaluation checkpoint conflicts with current input or config"
CheckpointConflict(r) ==
  /\ Goto(r, "look", "raised")
  /\ checkpoints[r] # Absent
  /\ checkpoints[r].config # config
  /\ UNCHANGED <<operator, disk, sends, run, seen, config, held, faults, edits>>

\* (mutant) A row whose judge call failed is judged again.
RetryFailed(r) ==
  /\ Goto(r, "look", "judge")
  /\ checkpoints[r] # Absent => checkpoints[r].outcome = "failed"
  /\ UNCHANGED <<operator, disk, sends, run, seen, config, held, faults, edits>>

\* (mutant) A checkpoint of another configuration is passed over.
JudgeOtherConfig(r) ==
  /\ Goto(r, "look", "judge")
  /\ checkpoints[r] # Absent => checkpoints[r].config # config
  /\ UNCHANGED <<operator, disk, sends, run, seen, config, held, faults, edits>>

Judge(r) ==
  /\ Goto(r, "look", "judge")
  /\ checkpoints[r] = Absent
  /\ UNCHANGED <<operator, disk, sends, run, seen, config, held, faults, edits>>

\* (mutant) A blocked preflight is an error of the run.
BlockRaises(r) ==
  /\ Goto(r, "judge", "raised")
  /\ UNCHANGED <<operator, disk, sends, run, seen, config, held, faults, edits>>

\* Preflight or local transport failure: nothing is sent, the row has failed.
FailBeforeDelivery(r) ==
  /\ Goto(r, "judge", "answered")
  /\ held' = [held EXCEPT ![r] = "failed"]
  /\ UNCHANGED <<operator, disk, sends, run, seen, config, faults, edits>>

Send(r) ==
  /\ Goto(r, "judge", "delivered")
  /\ sends' = [sends EXCEPT ![r] = @ + 1]
  /\ UNCHANGED <<operator, disk, run, seen, config, held, faults, edits>>

\* A verdict, or any exception with its one terminal attempt record.
Answer(r) ==
  /\ Goto(r, "delivered", "answered")
  /\ \E outcome \in Outcomes : held' = [held EXCEPT ![r] = outcome]
  /\ UNCHANGED <<operator, disk, sends, run, seen, config, faults, edits>>

\* (mutant) The result record does not tie the attempt to its verdict.
KeepUnjudged(r) ==
  /\ Goto(r, "answered", "done")
  /\ held[r] \in Verdicts
  /\ Fault
  /\ held' = [held EXCEPT ![r] = Absent]
  /\ UNCHANGED <<operator, disk, sends, run, seen, config, edits>>

\* The token sidecar of a successful attempt cannot be written: the verdict is
\* lost, and a succeeded attempt without a verdict is no valid result.
SidecarFails(r) ==
  /\ Goto(r, "answered", "raised")
  /\ held[r] \in Verdicts
  /\ Fault
  /\ held' = [held EXCEPT ![r] = Absent]
  /\ UNCHANGED <<operator, disk, sends, run, seen, config, edits>>

WriteCheckpoint(r) ==
  /\ Goto(r, "answered", "done")
  /\ checkpoints' = [checkpoints EXCEPT ![r] =
       Stored(checkpoints[r], [config |-> config, outcome |-> held[r]])]
  /\ UNCHANGED <<operator, reports, sends, run, seen, config, held, faults, edits>>

\* (mutant) A checkpoint that cannot be written does not stop the row.
WriteErrorPassed(r) ==
  /\ Goto(r, "answered", "done")
  /\ Fault
  /\ UNCHANGED <<operator, disk, sends, run, seen, config, held, edits>>

WriteError(r) ==
  /\ Goto(r, "answered", "raised")
  /\ Fault
  /\ held' = [held EXCEPT ![r] = Absent]
  /\ UNCHANGED <<operator, disk, sends, run, seen, config, edits>>

------------------------------------------------------------------------------

Crash ==
  /\ run # "down"
  /\ Fault
  /\ Stop
  /\ UNCHANGED <<operator, disk, sends, edits>>

EditInput ==
  /\ edits < MaxEdits
  /\ edits' = edits + 1
  /\ input' \in SUBSET Rows \ {{}, input}
  /\ UNCHANGED <<settings, disk, sends, run, seen, config, pc, held, faults>>

EditSettings ==
  /\ edits < MaxEdits
  /\ edits' = edits + 1
  /\ settings' \in Configs \ {settings}
  /\ UNCHANGED <<input, disk, sends, run, seen, config, pc, held, faults>>

RowStep(r) ==
  \/ PickUp(r)
  \/ ReuseCheckpoint(r)
  \/ CheckpointConflict(r)
  \/ Judge(r)
  \/ FailBeforeDelivery(r)
  \/ Send(r)
  \/ Answer(r)
  \/ WriteCheckpoint(r)

MainStep == NoticeException \/ EndAborted \/ EndCompleted

Next ==
  \/ StartRun
  \/ MainStep
  \/ \E r \in Rows : RowStep(r) \/ SidecarFails(r) \/ WriteError(r)
  \/ Crash
  \/ EditInput
  \/ EditSettings

Spec == Init /\ [][Next]_vars

\* As for the translation: live threads run, the transport's timeout bounds an
\* answer, and the operator starts an unfinished evaluation again.
FairSpec ==
  /\ Spec
  /\ WF_vars(StartRun)
  /\ WF_vars(MainStep)
  /\ \A r \in Rows : WF_vars(RowStep(r))

------------------------------------------------------------------------------

\* A row that has a checkpoint, of a verdict or of a failure, is never sent
\* again ("Yeniden gönderme yok"), whatever run asks for it.
NeverResent ==
  [][\A r \in Rows : checkpoints[r] # Absent => sends'[r] = sends[r]]_vars

\* A row is only paid for again when a crash or a write error came between the
\* request and the checkpoint: completed and aborted runs lose no answer.
ResendsAreFaults == \A r \in Rows : sends[r] <= faults + 1

\* What a report says of a row is what the row's checkpoint says, judged under
\* the report's configuration: reports never mix configurations, and repeating
\* an evaluation reproduces its report although a judge may change its mind.
ReportsAreCheckpointed ==
  \A rep \in reports : \A r \in rep.input :
    checkpoints[r] = [config |-> rep.config, outcome |-> rep.results[r]]

Stage == INSTANCE JudgingStage WITH
  results <- [r \in Rows |-> IF checkpoints[r] = Absent THEN Absent ELSE checkpoints[r].outcome],
  covered <- {rep.input : rep \in reports}

\* The stages that follow read an evaluation root as rows that are judged once
\* and reports that cover judged rows, whatever became of the runs between.
ImplementsStage == Stage!Spec

Reported == \E rep \in reports : rep.input = input /\ rep.config = settings

\* The root holds a checkpoint that was made with another configuration.
Blocked == \E r \in input : checkpoints[r] # Absent /\ checkpoints[r].config # settings

\* When faults and edits cease the evaluation gets its report, also after
\* failed, blocked and aborted rows, unless the root was started with another
\* configuration.
Settles == <>[](Reported \/ Blocked)

\* "Judge every strict input row once"
JudgedOnce == \A r \in Rows : sends[r] <= 1

==============================================================================
