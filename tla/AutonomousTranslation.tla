------------------------ MODULE AutonomousTranslation ------------------------
(***************************************************************************)
(* autonomous_pipeline.run_automation_translation: a batch of episodes is  *)
(* translated by a pool of worker threads into one output root, over any   *)
(* number of crashed, aborted, completed and repeated runs, one run at a   *)
(* time.  Each episode takes the primary route and, after a failure that   *)
(* makes a second paid request safe, the fallback route; a route is one    *)
(* run_operational_translation of the episode's leaves in order.           *)
(*                                                                         *)
(* A slot <<episode, route, leaf>> stands for one provider attempt id.     *)
(* The steps of _leaf_record that only read are merged with the write that *)
(* follows (see LeafTranslation, which has them one by one): within a run  *)
(* a slot belongs to one worker.                                           *)
(***************************************************************************)
EXTENDS Naturals, Sequences, FiniteSets

CONSTANTS EpisodeCount,   \* episodes of the candidate file, in processing order
          LeafCount,      \* translatable leaves of each episode
          Workers,        \* max_workers
          Variants,       \* contents (variant ids) an episode may have
          LocalFailures,  \* failure codes of requests that were not delivered
          RemoteFailures, \* failure codes of requests that may be delivered
          Absent,
          MaxFaults,      \* bound: crashes and write errors
          MaxEdits        \* bound: edits of the candidate file

Episodes == 1..EpisodeCount
Routes == {"primary", "fallback"}
Codes == LocalFailures \cup RemoteFailures

\* The failures after which the provider's part is known to be over.
FallbackCodes ==
  {"http_transient", "malformed_response", "provider_response_invalid", "response_too_large"}

\* The ends of a route that has results of all its leaves and no translation.
LateEnds == {"research_needed", "no_segments", "merge_rejected"}

ASSUME BatchAssumption ==
  /\ EpisodeCount \in Nat
  /\ LeafCount \in [Episodes -> Nat]
  /\ Workers \in 1..16
  /\ LocalFailures \cap RemoteFailures = {}
  /\ FallbackCodes \cap LocalFailures = {}
  /\ {"succeeded", "none", "unknown", "translated"} \cap Codes = {}
  /\ LateEnds \cap Codes = {}
  /\ Absent \notin Variants \cup Codes \cup {"succeeded", "translated", "research_needed"}
  /\ MaxFaults \in Nat /\ MaxEdits \in Nat

Slots == UNION {{e} \X Routes \X (1..LeafCount[e]) : e \in Episodes}

VARIABLES
  approved,      \* whether the adapter accepts the configured endpoint; never changes
  candidates,    \* the candidate file: the variant of each episode
  inputs,        \* <root>/episode-inputs: the variant each episode was routed with
  claims,        \* <route root>/provider-claims
  attempts,      \* <route root>/provider-attempts: a failure code or "succeeded"
  leaves,        \* <route root>/leaf-results: the status of each leaf
  receipts,      \* <root>/route-receipts
  results,       \* <root>/episode-results
  batches,       \* <root>/translation-results and <root>/batches
  judged,        \* evaluation inputs prepared from a batch
  sends,         \* requests handed to the provider (paid), per slot
  run,           \* "down", "up", or "aborting" after the main thread saw an exception
  seen,          \* the candidate file as the run has read it
  pc, route, at, \* each job: where it is, on which route, at which leaf
  held,          \* what the adapter holds of the job's current request
  faults, edits  \* counters for the bounds

files == <<inputs, claims, attempts, leaves, receipts, results, batches>>
jobs == <<pc, route, at, held>>
counters == <<faults, edits>>
vars == <<approved, candidates, files, judged, sends, run, seen, jobs, counters>>

Waiting == {"idle", "queued", "cancelled", "done", "raised"}
Working == {"route", "leaf", "claimed", "delivered", "answered", "recorded",
            "failed", "decide"}

Receipts == [status: {"translated", "research_needed", "no_segments", "failed"},
             code: Codes \cup {"none", "unknown"},
             variant: Variants \cup {Absent}]

ASSUME NoReceiptAssumption == Absent \notin Receipts

Rows == [episode: Episodes, variant: Variants,
         primary: Receipts, fallback: Receipts \cup {Absent}]

TypeOK ==
  /\ approved \in BOOLEAN
  /\ candidates \in [Episodes -> Variants]
  /\ inputs \in [Episodes -> Variants \cup {Absent}]
  /\ claims \subseteq Slots
  /\ attempts \in [Slots -> Codes \cup {"succeeded", Absent}]
  /\ leaves \in [Slots -> {"translated", "research_needed", Absent}]
  /\ receipts \in [Episodes -> [Routes -> Receipts \cup {Absent}]]
  /\ results \subseteq Rows
  /\ \A b \in batches : /\ b.input \in [Episodes -> Variants]
                        /\ b.rows \in [Episodes -> Rows]
  /\ judged \subseteq Episodes \X Variants \X (Variants \cup {Absent})
  /\ sends \in [Slots -> Nat]
  /\ run \in {"down", "up", "aborting"}
  /\ seen \in [Episodes -> Variants \cup {Absent}]
  /\ run # "down" => seen \in [Episodes -> Variants]
  /\ pc \in [Episodes -> Waiting \cup Working]
  /\ route \in [Episodes -> Routes]
  /\ at \in [Episodes -> Nat \ {0}]
  /\ held \in [Episodes -> Codes \cup {"translated", "research_needed", Absent}]
  /\ faults \in 0..MaxFaults /\ edits \in 0..MaxEdits

Init ==
  /\ approved \in BOOLEAN
  /\ candidates \in [Episodes -> Variants]
  /\ inputs = [e \in Episodes |-> Absent]
  /\ claims = {}
  /\ attempts = [s \in Slots |-> Absent]
  /\ leaves = [s \in Slots |-> Absent]
  /\ receipts = [e \in Episodes |-> [rt \in Routes |-> Absent]]
  /\ results = {} /\ batches = {} /\ judged = {}
  /\ sends = [s \in Slots |-> 0]
  /\ run = "down"
  /\ seen = [e \in Episodes |-> Absent]
  /\ pc = [e \in Episodes |-> "idle"]
  /\ route = [e \in Episodes |-> "primary"]
  /\ at = [e \in Episodes |-> 1]
  /\ held = [e \in Episodes |-> Absent]
  /\ faults = 0 /\ edits = 0

------------------------------------------------------------------------------
\* What the job of an episode works on.

Slot(e) == <<e, route[e], at[e]>>
RouteSlots(e) == {s \in Slots : s[1] = e /\ s[2] = route[e]}
Receipt(e) == receipts[e][route[e]]
InRoute(e) == at[e] <= LeafCount[e]

Goto(e, from, to) ==
  /\ pc[e] = from
  /\ pc' = [pc EXCEPT ![e] = to]

\* (mutant) A leaf that needs research does not keep the episode back.
RouteStatusAny(e) ==
  IF RouteSlots(e) = {} THEN "no_segments"
  ELSE IF \A s \in RouteSlots(e) : leaves[s] = "research_needed" THEN "research_needed"
  ELSE "translated"

\* _result: no leaf, some leaf that needs research, or all translated.
RouteStatus(e) ==
  IF RouteSlots(e) = {} THEN "no_segments"
  ELSE IF \E s \in RouteSlots(e) : leaves[s] = "research_needed" THEN "research_needed"
  ELSE "translated"

\* _route_failure: a failure code among the attempt records of the route root.
\* Records are taken in file name order, that is by hash: any of them.
RouteFailures(e) ==
  LET codes == {attempts[s] : s \in RouteSlots(e)} \cap Codes
  IN  IF codes = {} THEN {"unknown"} ELSE codes

\* (mutant) Every failure is worth a second model.
FallbackAlways(receipt) == receipt.status \in {"research_needed", "failed"}

\* _should_fallback
ShouldFallback(receipt) ==
  \/ receipt.status = "research_needed"
  \/ receipt.status = "failed" /\ receipt.code \in FallbackCodes

\* AutomationEpisodeResult: the routes the job has taken, under the variant of
\* the candidate file.
RowOf(e) ==
  [episode |-> e, variant |-> seen[e],
   primary |-> receipts[e]["primary"],
   fallback |-> IF ShouldFallback(receipts[e]["primary"])
                THEN receipts[e]["fallback"] ELSE Absent]

\* The route an AutomationEpisodeResult selects, if any.
Selected(row) ==
  IF row.primary.status = "translated" THEN row.primary
  ELSE IF row.fallback # Absent
       THEN IF row.fallback.status = "translated" THEN row.fallback ELSE Absent
       ELSE Absent

------------------------------------------------------------------------------
\* The main thread.

StartRun ==
  /\ run = "down"
  /\ run' = "up"
  /\ seen' = candidates
  /\ pc' = [e \in Episodes |-> "queued"]
  /\ UNCHANGED <<approved, candidates, files, judged, sends, route, at, held, counters>>

\* The process state is gone; only files remain.
Stop ==
  /\ run' = "down"
  /\ seen' = [e \in Episodes |-> Absent]
  /\ pc' = [e \in Episodes |-> "idle"]
  /\ route' = [e \in Episodes |-> "primary"]
  /\ at' = [e \in Episodes |-> 1]
  /\ held' = [e \in Episodes |-> Absent]

Running == {e \in Episodes : pc[e] \in Working}

\* A worker takes the next episode.  With one worker there is no pool: the
\* list comprehension goes on only after a result.
PickUp(e) ==
  /\ run = "up"
  /\ Goto(e, "queued", "route")
  /\ \A d \in 1..e-1 : pc[d] # "queued" /\ (Workers = 1 => pc[d] = "done")
  /\ Cardinality(Running) < Workers
  /\ UNCHANGED <<approved, candidates, files, judged, sends, run, seen, route, at, held, counters>>

\* pool.map yields results in order: an exception reaches the main thread when
\* the results before it are in; the jobs not yet started are cancelled.
NoticeException ==
  /\ run = "up"
  /\ \E e \in Episodes : pc[e] = "raised" /\ \A d \in 1..e-1 : pc[d] = "done"
  /\ run' = "aborting"
  /\ pc' = [e \in Episodes |-> IF pc[e] = "queued" THEN "cancelled" ELSE pc[e]]
  /\ UNCHANGED <<approved, candidates, files, judged, sends, seen, route, at, held, counters>>

\* The pool waits for the jobs in progress, then the exception propagates.
EndAborted ==
  /\ run = "aborting"
  /\ Running = {}
  /\ Stop
  /\ UNCHANGED <<approved, candidates, files, judged, sends, counters>>

\* (mutant) A job that raised after its primary receipt counts as done.
EndCompletedPartial ==
  /\ run = "up"
  /\ \A e \in Episodes :
       pc[e] = "done" \/ (pc[e] = "raised" /\ receipts[e]["primary"] # Absent)
  /\ batches' = IF candidates = seen
                THEN batches \cup {[input |-> seen, rows |-> [e \in Episodes |-> RowOf(e)]]}
                ELSE batches
  /\ Stop
  /\ UNCHANGED <<approved, candidates, inputs, claims, attempts, leaves, receipts, results,
                 judged, sends, counters>>

\* All episodes have a result: the batch is published unless the candidate
\* file has changed since it was read.
EndCompleted ==
  /\ run = "up"
  /\ \A e \in Episodes : pc[e] = "done"
  /\ batches' = IF candidates = seen
                THEN batches \cup {[input |-> seen, rows |-> [e \in Episodes |-> RowOf(e)]]}
                ELSE batches
  /\ Stop
  /\ UNCHANGED <<approved, candidates, inputs, claims, attempts, leaves, receipts, results,
                 judged, sends, counters>>

------------------------------------------------------------------------------
\* _run_route and _leaf_record.

ReuseReceipt(e) ==
  /\ Goto(e, "route", "decide")
  /\ Receipt(e) # Absent
  /\ UNCHANGED <<approved, candidates, files, judged, sends, run, seen, route, at, held, counters>>

\* (mutant) The episode input is replaced when the candidate has changed.
OpenRouteReplacing(e) ==
  /\ Goto(e, "route", "leaf")
  /\ Receipt(e) = Absent
  /\ inputs' = [inputs EXCEPT ![e] = seen[e]]
  /\ UNCHANGED <<approved, candidates, claims, attempts, leaves, receipts, results, batches,
                 judged, sends, run, seen, route, at, held, counters>>

OpenRoute(e) ==
  /\ Goto(e, "route", "leaf")
  /\ Receipt(e) = Absent
  /\ inputs[e] \in {Absent, seen[e]}
  /\ inputs' = [inputs EXCEPT ![e] = seen[e]]
  /\ UNCHANGED <<approved, candidates, claims, attempts, leaves, receipts, results, batches,
                 judged, sends, run, seen, route, at, held, counters>>

\* PublishError: the root holds another variant of the episode.
InputConflict(e) ==
  /\ Goto(e, "route", "raised")
  /\ Receipt(e) = Absent
  /\ inputs[e] \notin {Absent, seen[e]}
  /\ UNCHANGED <<approved, candidates, files, judged, sends, run, seen, route, at, held, counters>>

ReuseLeaf(e) ==
  /\ pc[e] = "leaf"
  /\ InRoute(e)
  /\ leaves[Slot(e)] # Absent
  /\ at' = [at EXCEPT ![e] = @ + 1]
  /\ UNCHANGED <<approved, candidates, files, judged, sends, run, seen, pc, route, held, counters>>

\* (mutant) The leaf is skipped and the route goes on.
RefuseLeafAndGoOn(e) ==
  /\ pc[e] = "leaf"
  /\ InRoute(e)
  /\ leaves[Slot(e)] = Absent
  /\ Slot(e) \in claims \/ attempts[Slot(e)] # Absent
  /\ at' = [at EXCEPT ![e] = @ + 1]
  /\ UNCHANGED <<approved, candidates, files, judged, sends, run, seen, pc, route, held, counters>>

\* (mutant) The refusal is not among the exceptions a route catches.
RefuseLeafRaises(e) ==
  /\ Goto(e, "leaf", "raised")
  /\ InRoute(e)
  /\ leaves[Slot(e)] = Absent
  /\ Slot(e) \in claims \/ attempts[Slot(e)] # Absent
  /\ UNCHANGED <<approved, candidates, files, judged, sends, run, seen, route, at, held, counters>>

\* A claim or a record without a leaf result: manual recovery required.
RefuseLeaf(e) ==
  /\ Goto(e, "leaf", "failed")
  /\ InRoute(e)
  /\ leaves[Slot(e)] = Absent
  /\ Slot(e) \in claims \/ attempts[Slot(e)] # Absent
  /\ UNCHANGED <<approved, candidates, files, judged, sends, run, seen, route, at, held, counters>>

\* (mutant) A claim without a record does not stop the next run.
ClaimAgain(e) ==
  /\ Goto(e, "leaf", "claimed")
  /\ InRoute(e)
  /\ leaves[Slot(e)] = Absent
  /\ attempts[Slot(e)] = Absent
  /\ claims' = claims \cup {Slot(e)}
  /\ UNCHANGED <<approved, candidates, inputs, attempts, leaves, receipts, results, batches,
                 judged, sends, run, seen, route, at, held, counters>>

ClaimLeaf(e) ==
  /\ Goto(e, "leaf", "claimed")
  /\ InRoute(e)
  /\ leaves[Slot(e)] = Absent
  /\ attempts[Slot(e)] = Absent
  /\ Slot(e) \notin claims
  /\ claims' = claims \cup {Slot(e)}
  /\ UNCHANGED <<approved, candidates, inputs, attempts, leaves, receipts, results, batches,
                 judged, sends, run, seen, route, at, held, counters>>

\* validate_deepseek_endpoint raises without a record; a route failure like others.
RefuseEndpoint(e) ==
  /\ ~approved
  /\ Goto(e, "claimed", "failed")
  /\ UNCHANGED <<approved, candidates, files, judged, sends, run, seen, route, at, held, counters>>

\* Preflight, body or credential: nothing leaves the process.
FailBeforeDelivery(e) ==
  /\ approved
  /\ Goto(e, "claimed", "answered")
  /\ \E code \in LocalFailures : held' = [held EXCEPT ![e] = code]
  /\ UNCHANGED <<approved, candidates, files, judged, sends, run, seen, route, at, counters>>

Send(e) ==
  /\ approved
  /\ Goto(e, "claimed", "delivered")
  /\ sends' = [sends EXCEPT ![Slot(e)] = @ + 1]
  /\ UNCHANGED <<approved, candidates, files, judged, run, seen, route, at, held, counters>>

Answer(e) ==
  /\ Goto(e, "delivered", "answered")
  /\ \E reply \in RemoteFailures \cup {"translated", "research_needed"} :
       held' = [held EXCEPT ![e] = reply]
  /\ UNCHANGED <<approved, candidates, files, judged, sends, run, seen, route, at, counters>>

\* persist_attempt
RecordAttempt(e) ==
  /\ Goto(e, "answered", "recorded")
  /\ attempts' = [attempts EXCEPT ![Slot(e)] =
                    IF held[e] \in Codes THEN held[e] ELSE "succeeded"]
  /\ UNCHANGED <<approved, candidates, inputs, claims, leaves, receipts, results, batches,
                 judged, sends, run, seen, route, at, held, counters>>

\* (mutant) Whatever the adapter holds is filed.
KeepAnyLeaf(e) ==
  /\ Goto(e, "recorded", "leaf")
  /\ leaves' = [leaves EXCEPT ![Slot(e)] = held[e]]
  /\ at' = [at EXCEPT ![e] = @ + 1]
  /\ held' = [held EXCEPT ![e] = Absent]
  /\ UNCHANGED <<approved, candidates, inputs, claims, attempts, receipts, results, batches,
                 judged, sends, run, seen, route, counters>>

KeepLeaf(e) ==
  /\ Goto(e, "recorded", "leaf")
  /\ held[e] \notin Codes
  /\ leaves' = [leaves EXCEPT ![Slot(e)] = held[e]]
  /\ at' = [at EXCEPT ![e] = @ + 1]
  /\ held' = [held EXCEPT ![e] = Absent]
  /\ UNCHANGED <<approved, candidates, inputs, claims, attempts, receipts, results, batches,
                 judged, sends, run, seen, route, counters>>

\* The adapter raises the failure it has recorded, or ProviderUsageSinkError
\* because the token sidecar of a recorded attempt cannot be written.
AdapterRaises(e) ==
  /\ Goto(e, "recorded", "failed")
  /\ \/ held[e] \in Codes /\ UNCHANGED faults
     \/ held[e] \notin Codes /\ faults < MaxFaults /\ faults' = faults + 1
  /\ held' = [held EXCEPT ![e] = Absent]
  /\ UNCHANGED <<approved, candidates, files, judged, sends, run, seen, route, at, edits>>

\* merge_translated_segments rejects the leaves (FieldPolicyError).
MergeRejected(e) ==
  /\ Goto(e, "leaf", "failed")
  /\ ~InRoute(e)
  /\ RouteStatus(e) = "translated"
  /\ UNCHANGED <<approved, candidates, files, judged, sends, run, seen, route, at, held, counters>>

PublishReceipt(e, receipt) ==
  /\ receipts' = [receipts EXCEPT ![e][route[e]] = receipt]
  /\ UNCHANGED <<approved, candidates, inputs, claims, attempts, leaves, results, batches,
                 judged, sends, run, seen, route, at, held, counters>>

FinishRoute(e) ==
  /\ Goto(e, "leaf", "decide")
  /\ ~InRoute(e)
  /\ PublishReceipt(e, [status |-> RouteStatus(e), code |-> "none", variant |-> inputs[e]])

FailRoute(e) ==
  /\ Goto(e, "failed", "decide")
  /\ \E code \in RouteFailures(e) :
       PublishReceipt(e, [status |-> "failed", code |-> code, variant |-> Absent])

------------------------------------------------------------------------------
\* process_episode

\* (mutant) The fallback route may be followed by another one.
TakeFallbackAgain(e) ==
  /\ Goto(e, "decide", "route")
  /\ ShouldFallback(Receipt(e))
  /\ route' = [route EXCEPT ![e] = "fallback"]
  /\ at' = [at EXCEPT ![e] = 1]
  /\ UNCHANGED <<approved, candidates, files, judged, sends, run, seen, held, counters>>

TakeFallback(e) ==
  /\ Goto(e, "decide", "route")
  /\ route[e] = "primary"
  /\ ShouldFallback(Receipt(e))
  /\ route' = [route EXCEPT ![e] = "fallback"]
  /\ at' = [at EXCEPT ![e] = 1]
  /\ UNCHANGED <<approved, candidates, files, judged, sends, run, seen, held, counters>>

\* (mutant) The fallback is left to a later run.
PublishResultEarly(e) ==
  /\ Goto(e, "decide", "done")
  /\ results' = results \cup {RowOf(e)}
  /\ route' = [route EXCEPT ![e] = "primary"]
  /\ at' = [at EXCEPT ![e] = 1]
  /\ UNCHANGED <<approved, candidates, inputs, claims, attempts, leaves, receipts, batches,
                 judged, sends, run, seen, held, counters>>

PublishResult(e) ==
  /\ Goto(e, "decide", "done")
  /\ route[e] = "fallback" \/ ~ShouldFallback(Receipt(e))
  /\ results' = results \cup {RowOf(e)}
  /\ route' = [route EXCEPT ![e] = "primary"]
  /\ at' = [at EXCEPT ![e] = 1]
  /\ UNCHANGED <<approved, candidates, inputs, claims, attempts, leaves, receipts, batches,
                 judged, sends, run, seen, held, counters>>

\* A publication fails with OSError or ProviderAttemptSinkError: neither is a
\* route failure, the job raises.  Nothing was written.
WriteError(e) ==
  /\ pc[e] \in {"route", "leaf", "answered", "recorded", "failed", "decide"}
  /\ faults < MaxFaults
  /\ faults' = faults + 1
  /\ pc' = [pc EXCEPT ![e] = "raised"]
  /\ route' = [route EXCEPT ![e] = "primary"]
  /\ at' = [at EXCEPT ![e] = 1]
  /\ held' = [held EXCEPT ![e] = Absent]
  /\ UNCHANGED <<approved, candidates, files, judged, sends, run, seen, edits>>

------------------------------------------------------------------------------
\* The environment and the next stage.

Crash ==
  /\ run # "down"
  /\ faults < MaxFaults
  /\ faults' = faults + 1
  /\ Stop
  /\ UNCHANGED <<approved, candidates, files, judged, sends, edits>>

EditCandidates ==
  /\ edits < MaxEdits
  /\ edits' = edits + 1
  /\ candidates' \in [Episodes -> Variants] \ {candidates}
  /\ UNCHANGED <<approved, files, judged, sends, run, seen, jobs, faults>>

\* prepare_automation_evaluation_inputs on the candidate file and a published
\* batch: refused as a whole when a translation stems from another variant.
PrepareEvaluation(b) ==
  LET translated == {e \in Episodes : Selected(b.rows[e]) # Absent} IN
  /\ \A e \in translated : Selected(b.rows[e]).variant = candidates[e]
  /\ judged' = judged \cup
       {<<e, candidates[e], Selected(b.rows[e]).variant>> : e \in translated}
  /\ UNCHANGED <<approved, candidates, files, sends, run, seen, jobs, counters>>

JobStep(e) ==
  \/ PickUp(e)
  \/ ReuseReceipt(e)
  \/ OpenRoute(e)
  \/ InputConflict(e)
  \/ ReuseLeaf(e)
  \/ RefuseLeaf(e)
  \/ ClaimLeaf(e)
  \/ RefuseEndpoint(e)
  \/ FailBeforeDelivery(e)
  \/ Send(e)
  \/ Answer(e)
  \/ RecordAttempt(e)
  \/ KeepLeaf(e)
  \/ AdapterRaises(e)
  \/ MergeRejected(e)
  \/ FinishRoute(e)
  \/ FailRoute(e)
  \/ TakeFallback(e)
  \/ PublishResult(e)

MainStep == NoticeException \/ EndAborted \/ EndCompleted

Next ==
  \/ StartRun
  \/ MainStep
  \/ \E e \in Episodes : JobStep(e) \/ WriteError(e)
  \/ Crash
  \/ EditCandidates
  \/ \E b \in batches : PrepareEvaluation(b)

Spec == Init /\ [][Next]_vars

\* Threads of a live process are scheduled, and the transport's timeout bounds
\* the wait for an answer; the operator starts the documented resume again.
FairSpec ==
  /\ Spec
  /\ WF_vars(StartRun)
  /\ WF_vars(MainStep)
  /\ \A e \in Episodes : WF_vars(JobStep(e))

------------------------------------------------------------------------------

\* Over any number of crashes, aborts and repeated runs with any number of
\* workers, the request of one attempt id is paid for at most once.
SendOnce == \A s \in Slots : sends[s] <= 1

\* A slot whose request may have reached the provider without a known end.
Uncertain(s) ==
  /\ s \in claims
  /\ attempts[s] \notin FallbackCodes \cup LocalFailures \cup {"succeeded"}

\* The second model is never paid for an episode while it is unknown whether
\* the first one delivered ("Do not risk a second paid request automatically"),
\* also when the run that knew the failure has crashed.
UncertainNeverResent ==
  \A s, t \in Slots :
    (s[1] = t[1] /\ s[2] = "primary" /\ t[2] = "fallback" /\ sends[t] > 0)
      => ~Uncertain(s)

\* A slot that was begun and has no leaf result.
Open(s) == leaves[s] = Absent /\ (s \in claims \/ attempts[s] # Absent)

\* A route is left with at most one unfinished leaf, and it is the last begun:
\* _route_failure takes the last failed record in file name order, and this is
\* why the order of hashes does not matter.
OneOpenLeaf ==
  \A s, t \in Slots :
    (s[1] = t[1] /\ s[2] = t[2] /\ Open(s) /\ t[3] > s[3]) =>
      t \notin claims /\ attempts[t] = Absent /\ leaves[t] = Absent

\* An episode is never routed with two variants: the receipts of both routes
\* are about the variant of the one episode input, whatever was edited.
OneVariantPerEpisode ==
  \A e \in Episodes, rt \in Routes :
    receipts[e][rt] # Absent => receipts[e][rt].variant \in {Absent, inputs[e]}

\* A published translation is complete: every leaf of the selected route has a
\* recorded successful attempt and a translated leaf result on disk.
TranslatedIsComplete ==
  \A row \in results :
    Selected(row) # Absent =>
      \E rt \in Routes :
        /\ Selected(row) = receipts[row.episode][rt]
        /\ \A s \in Slots : (s[1] = row.episode /\ s[2] = rt) =>
             leaves[s] = "translated" /\ attempts[s] = "succeeded"

\* However often a candidate file is run, resumed or raced by faults, all
\* batches published for it are the same batch.
ReRunsAgree == \A a, b \in batches : a.input = b.input => a = b

\* An episode is decided when the routes it takes have their receipts.
Decided(e) ==
  /\ receipts[e]["primary"] # Absent
  /\ ShouldFallback(receipts[e]["primary"]) => receipts[e]["fallback"] # Absent

\* The leaves a route has results of, and what the route came to: the failures
\* of a receipt are told apart by whether a leaf is missing.
Kept(e, rt) == {i \in 1..LeafCount[e] : leaves[<<e, rt, i>>] # Absent}

RouteEnd(e, rt) ==
  LET receipt == receipts[e][rt] IN
  CASE receipt.status = "translated" -> "none"
    [] receipt.status = "failed" ->
         IF Kept(e, rt) = 1..LeafCount[e] THEN "merge_rejected" ELSE receipt.code
    [] OTHER -> receipt.status

RouteResult(e, rt) == [leaves |-> Cardinality(Kept(e, rt)), code |-> RouteEnd(e, rt)]

Routing(e) ==
  IF ~Decided(e) THEN <<>>
  ELSE IF ShouldFallback(receipts[e]["primary"])
       THEN <<RouteResult(e, "primary"), RouteResult(e, "fallback")>>
       ELSE <<RouteResult(e, "primary")>>

Stage == INSTANCE TranslationStage WITH
  Retryable <- {},
  FallbackCodes <- FallbackCodes \cup {"research_needed"},
  OtherCodes <- (Codes \cup {"unknown", "no_segments", "merge_rejected"}) \ FallbackCodes,
  LateCodes <- LateEnds,
  Absent <- <<>>,
  routings <- [e \in Episodes |-> Routing(e)],
  published <- batches # {}

\* The later stages and a recovery read the root as RouteEvidence says: what
\* workers, crashes and repeated runs make of an episode is one of its routings,
\* decided once, and a batch is published when every episode has one.
ImplementsStage == Stage!Spec

\* Judges only see translations of the candidate they are paired with, although
\* a run on an edited candidate file reuses the receipts of the old one.
StaleNeverJudged == \A j \in judged : j[2] = j[3]

\* From the candidate file to the judges an episode is handled in one variant,
\* whenever the file is edited: no route mixes variants, no pair for a judge does.
VariantsMatch == OneVariantPerEpisode /\ StaleNeverJudged

\* Every run ends: completed, aborted or crashed.
RunEnds == (run # "down") ~> (run = "down")

Published(input) == \E b \in batches : b.input = input

\* The root holds an input of an episode that the candidate file no longer has.
Blocked == \E e \in Episodes : inputs[e] \notin {Absent, candidates[e]}

\* When crashes and write errors cease and the run is repeated, the batch of
\* the candidate file gets published, also after provider failures and lost
\* claims; only an edited episode that was already routed stops the root.
Settles == <>[](Published(candidates) \/ Blocked)

==============================================================================
