--------------------------- MODULE LeafTranslation ---------------------------
(***************************************************************************)
(* operational_translation._leaf_record with the DeepSeek adapter it       *)
(* calls: one translatable leaf, one output root, and any number of        *)
(* processes that run the translation on that root, one call after the     *)
(* other, each with the translation settings (model, endpoint, prompt,     *)
(* temperature) it was started with.  They determine the attempt id, under *)
(* which claim and record are filed, but not the request id of the leaf    *)
(* result.                                                                 *)
(*                                                                         *)
(* Files of the root that matter for one leaf:                             *)
(*   leaf-results/<request>.json      leaf                                 *)
(*   provider-claims/<attempt>.json   claims                               *)
(*   provider-attempts/<attempt>.json attempts                             *)
(*   provider-usage/<usage>.json      usage                                *)
(* Each publication is one step, see Publication and ImmutableStore.       *)
(***************************************************************************)
EXTENDS Naturals, FiniteSets, Publication

CONSTANTS Runners,        \* processes that translate on the same root
          Settings,       \* translation settings, one provider attempt id each
          Approved,       \* settings whose endpoint the adapter accepts
          Bodies,         \* response bodies the provider may return
          Parse,          \* what the local contract makes of each body
          LocalFailures,  \* failure codes raised before a request is delivered
          RemoteFailures, \* failure codes of requests that may be delivered
          MaxCalls        \* bound: calls of _leaf_record, over all runners

ASSUME LeafAssumption ==
  /\ IsFiniteSet(Runners)
  /\ Approved \subseteq Settings
  /\ Parse \in [Bodies -> {"translated", "research_needed", "invalid"}]
  /\ LocalFailures \cap RemoteFailures = {}
  /\ Absent \notin Bodies \cup Settings
  /\ MaxCalls \in Nat

VARIABLES leaf,     \* the leaf result file
          claims,   \* attempt ids whose claim file exists
          attempts, \* the terminal attempt record of each attempt id
          usage,    \* token sidecars: attempt id and the body they count
          sends,    \* requests handed to the provider (paid), per attempt id
          pc,       \* where each runner is in _leaf_record
          setting,  \* the settings of the call each runner is in
          reply,    \* what the adapter holds in memory
          outcome,  \* how each runner's last call ended
          calls     \* number of calls begun

files == <<leaf, claims, attempts, usage>>
vars == <<files, sends, pc, setting, reply, outcome, calls>>

Blocked == [kind |-> "preflight_blocked", code |-> "preflight_blocked", body |-> Absent]
Failure(code, body) == [kind |-> "failed", code |-> code, body |-> body]
Success(body) == [kind |-> "succeeded", code |-> "none", body |-> body]

Valid == {body \in Bodies : Parse[body] # "invalid"}

\* Terminal attempt records: the outcome, the failure code, and the response
\* whose hash the record carries.
Records ==
  {Blocked}
  \cup {Failure(code, Absent) : code \in LocalFailures \cup RemoteFailures}
  \cup {Failure("provider_response_invalid", body) : body \in Bodies \ Valid}
  \cup {Success(body) : body \in Valid}

Leaves == [setting: Settings, status: {"translated", "research_needed"}, body: Bodies]

ASSUME AbsentAssumption == Absent \notin Records \cup Leaves

Labels == {"idle", "look_leaf", "look_evidence", "claim", "adapter", "delivered",
           "emit_attempt", "emit_usage", "publish_leaf"}

\* "refused" stands for OperationalTranslationError before any request,
\* "failed" for the adapter's own error, "misconfigured" for its
\* ProviderConfigurationError, "sink" for ProviderAttemptSinkError and
\* ProviderUsageSinkError, "conflict" for PublishError, "crashed" for no answer.
Outcomes == {"none", "returned", "refused", "failed", "misconfigured", "sink",
             "conflict", "crashed"}

TypeOK ==
  /\ leaf \in Leaves \cup {Absent}
  /\ claims \subseteq Settings
  /\ attempts \in [Settings -> Records \cup {Absent}]
  /\ usage \subseteq Settings \X Bodies
  /\ sends \in [Settings -> Nat]
  /\ pc \in [Runners -> Labels]
  /\ setting \in [Runners -> Settings \cup {Absent}]
  /\ reply \in [Runners -> Records \cup {Absent}]
  /\ outcome \in [Runners -> Outcomes]
  /\ calls \in 0..MaxCalls

Init ==
  /\ leaf = Absent
  /\ claims = {}
  /\ attempts = [s \in Settings |-> Absent]
  /\ usage = {}
  /\ sends = [s \in Settings |-> 0]
  /\ pc = [r \in Runners |-> "idle"]
  /\ setting = [r \in Runners |-> Absent]
  /\ reply = [r \in Runners |-> Absent]
  /\ outcome = [r \in Runners |-> "none"]
  /\ calls = 0

Goto(r, from, to) ==
  /\ pc[r] = from
  /\ pc' = [pc EXCEPT ![r] = to]

\* The call ends: with the leaf record, or with an exception.
Finish(r, from, how) ==
  /\ Goto(r, from, "idle")
  /\ outcome' = [outcome EXCEPT ![r] = how]
  /\ reply' = [reply EXCEPT ![r] = Absent]

Begin(r, s) ==
  /\ calls < MaxCalls
  /\ Goto(r, "idle", "look_leaf")
  /\ setting' = [setting EXCEPT ![r] = s]
  /\ outcome' = [outcome EXCEPT ![r] = "none"]
  /\ calls' = calls + 1
  /\ UNCHANGED <<files, sends, reply>>

------------------------------------------------------------------------------
\* A persisted leaf result is returned when it stems from the same attempt id,
\* and refused when it was produced with other settings.

\* (mutant) The identity of the persisted leaf result is not compared.
ReuseAnyLeaf(r) ==
  /\ leaf # Absent
  /\ Finish(r, "look_leaf", "returned")
  /\ UNCHANGED <<files, sends, setting, calls>>

ReuseLeaf(r) ==
  /\ leaf # Absent
  /\ Finish(r, "look_leaf", IF leaf.setting = setting[r] THEN "returned" ELSE "refused")
  /\ UNCHANGED <<files, sends, setting, calls>>

NoLeaf(r) ==
  /\ leaf = Absent
  /\ Goto(r, "look_leaf", "look_evidence")
  /\ UNCHANGED <<files, sends, setting, reply, outcome, calls>>

\* (mutant) A claim without a record is taken for a request still in flight.
AwaitRecord(r) ==
  /\ pc[r] = "look_evidence"
  /\ attempts[setting[r]] # Absent
  /\ Finish(r, "look_evidence", "refused")
  /\ UNCHANGED <<files, sends, setting, calls>>

\* "a prior provider attempt lacks its validated leaf result"
RefuseEvidence(r) ==
  /\ pc[r] = "look_evidence"
  /\ attempts[setting[r]] # Absent \/ setting[r] \in claims
  /\ Finish(r, "look_evidence", "refused")
  /\ UNCHANGED <<files, sends, setting, calls>>

\* (mutant) Only the attempt record is looked at, not the claim.
NoRecord(r) ==
  /\ Goto(r, "look_evidence", "claim")
  /\ attempts[setting[r]] = Absent
  /\ UNCHANGED <<files, sends, setting, reply, outcome, calls>>

NoEvidence(r) ==
  /\ Goto(r, "look_evidence", "claim")
  /\ attempts[setting[r]] = Absent
  /\ setting[r] \notin claims
  /\ UNCHANGED <<files, sends, setting, reply, outcome, calls>>

\* (mutant) The request is sent without a claim.
SkipClaim(r) ==
  /\ Goto(r, "claim", "adapter")
  /\ UNCHANGED <<files, sends, setting, reply, outcome, calls>>

\* publish_bytes_atomic on the claim: its bytes are a function of the attempt
\* id, so a second claimant gets "identical", and the answer is not looked at.
Claim(r) ==
  /\ Goto(r, "claim", "adapter")
  /\ claims' = claims \cup {setting[r]}
  /\ UNCHANGED <<leaf, attempts, usage, sends, setting, reply, outcome, calls>>

------------------------------------------------------------------------------
\* DeepSeekTranslationAdapter.translate: the endpoint, preflight, one transport
\* call, local validation of the body, the attempt record, the usage sidecar.

\* validate_deepseek_endpoint raises before anything is recorded; the caller has
\* claimed the attempt, and nobody looked at the endpoint before.
RefuseEndpoint(r) ==
  /\ setting[r] \notin Approved
  /\ Finish(r, "adapter", "misconfigured")
  /\ UNCHANGED <<files, sends, setting, calls>>

Hold(r, from, to, record) ==
  /\ Goto(r, from, to)
  /\ reply' = [reply EXCEPT ![r] = record]
  /\ UNCHANGED <<files, setting, outcome, calls>>

\* The egress preflight refuses the text, or the transport refuses the endpoint,
\* the body or the credential: nothing leaves the process.
FailBeforeDelivery(r) ==
  /\ setting[r] \in Approved
  /\ \/ Hold(r, "adapter", "emit_attempt", Blocked)
     \/ \E code \in LocalFailures :
          Hold(r, "adapter", "emit_attempt", Failure(code, Absent))
  /\ UNCHANGED sends

Send(r) ==
  /\ setting[r] \in Approved
  /\ Goto(r, "adapter", "delivered")
  /\ sends' = [sends EXCEPT ![setting[r]] = @ + 1]
  /\ UNCHANGED <<files, setting, reply, outcome, calls>>

\* A body that violates the local contract is a failure that still has a
\* response; HTTP, network and size failures have none.
Answer(r) ==
  /\ \/ \E code \in RemoteFailures :
          Hold(r, "delivered", "emit_attempt", Failure(code, Absent))
     \/ \E body \in Bodies :
          Hold(r, "delivered", "emit_attempt",
               IF body \in Valid
               THEN Success(body)
               ELSE Failure("provider_response_invalid", body))
  /\ UNCHANGED sends

\* (mutant) A record that is already there is kept and the call goes on.
EmitAttemptTolerant(r) ==
  LET s == setting[r] IN
  /\ Goto(r, "emit_attempt", "emit_usage")
  /\ attempts' = [attempts EXCEPT ![s] = Stored(attempts[s], reply[r])]
  /\ UNCHANGED <<leaf, claims, usage, sends, setting, reply, outcome, calls>>

\* persist_attempt: a different record of the same attempt id raises, the
\* adapter turns that into ProviderAttemptSinkError.
EmitAttempt(r) ==
  LET s == setting[r] IN
  /\ pc[r] = "emit_attempt"
  /\ attempts' = [attempts EXCEPT ![s] = Stored(attempts[s], reply[r])]
  /\ IF Verdict(attempts[s], reply[r]) = "conflict"
     THEN Finish(r, "emit_attempt", "sink")
     ELSE /\ Goto(r, "emit_attempt", "emit_usage")
          /\ UNCHANGED <<reply, outcome>>
  /\ UNCHANGED <<leaf, claims, usage, sends, setting, calls>>

\* (mutant) A sidecar is written for calls without a response, too.
EmitUsageAlways(r) ==
  /\ pc[r] = "emit_usage"
  /\ usage' = usage \cup {<<setting[r], reply[r].body>>}
  /\ IF reply[r].kind = "succeeded"
     THEN Goto(r, "emit_usage", "publish_leaf") /\ UNCHANGED <<reply, outcome>>
     ELSE Finish(r, "emit_usage", "failed")
  /\ UNCHANGED <<leaf, claims, attempts, sends, setting, calls>>

\* emit_response_usage writes a sidecar when the body has token counters; then
\* the adapter returns the response or raises the failure it recorded.
EmitUsage(r) ==
  LET body == reply[r].body IN
  /\ pc[r] = "emit_usage"
  /\ usage' \in {usage} \cup
                {usage \cup {<<setting[r], b>>} : b \in {body} \ {Absent}}
  /\ IF reply[r].kind = "succeeded"
     THEN Goto(r, "emit_usage", "publish_leaf") /\ UNCHANGED <<reply, outcome>>
     ELSE Finish(r, "emit_usage", "failed")
  /\ UNCHANGED <<leaf, claims, attempts, sends, setting, calls>>

\* A sink that cannot write (disk full) raises; what it wrote before stays.
SinkError(r) ==
  /\ pc[r] \in {"emit_attempt", "emit_usage"}
  /\ Finish(r, pc[r], "sink")
  /\ UNCHANGED <<files, sends, setting, calls>>

------------------------------------------------------------------------------

LeafOf(r) ==
  [setting |-> setting[r], status |-> Parse[reply[r].body], body |-> reply[r].body]

PublishLeaf(r) ==
  /\ pc[r] = "publish_leaf"
  /\ leaf' = Stored(leaf, LeafOf(r))
  /\ Finish(r, "publish_leaf",
            IF Verdict(leaf, LeafOf(r)) = "conflict" THEN "conflict" ELSE "returned")
  /\ UNCHANGED <<claims, attempts, usage, sends, setting, calls>>

\* The process dies, or the leaf result cannot be written.
Crash(r) ==
  /\ pc[r] # "idle"
  /\ Finish(r, pc[r], "crashed")
  /\ UNCHANGED <<files, sends, setting, calls>>

Step(r) ==
  \/ ReuseLeaf(r)
  \/ NoLeaf(r)
  \/ RefuseEvidence(r)
  \/ NoEvidence(r)
  \/ Claim(r)
  \/ RefuseEndpoint(r)
  \/ FailBeforeDelivery(r)
  \/ Send(r)
  \/ Answer(r)
  \/ EmitAttempt(r)
  \/ EmitUsage(r)
  \/ SinkError(r)
  \/ PublishLeaf(r)

Next ==
  \E r \in Runners :
    \/ \E s \in Settings : Begin(r, s)
    \/ Step(r)
    \/ Crash(r)

Spec == Init /\ [][Next]_vars

\* A runner inside the call keeps executing; the transport has a timeout, so
\* Answer is not optional either.
FairSpec == Spec /\ \A r \in Runners : WF_vars(Step(r))

------------------------------------------------------------------------------

\* Whatever the runners and the crashes, a leaf result carries the text of the
\* one response whose hash the attempt record of the same attempt id holds:
\* two runners that both got an answer cannot file one and record the other.
LeafIsEvidenced ==
  leaf # Absent =>
    /\ attempts[leaf.setting] = Success(leaf.body)
    /\ leaf.status = Parse[leaf.body]

\* Token counters are only kept for a response that a terminal record vouches
\* for ("Persist provenance before optional token counters").
UsageIsEvidenced ==
  \A u \in usage : attempts[u[1]] # Absent /\ attempts[u[1]].body = u[2]

\* A call that raised the adapter's error left the record of that failure, the
\* only place where the episode route later reads the failure code from.  Only
\* an endpoint that is refused leaves a claim without a record, and then nothing
\* was ever sent under these settings, by any runner.
FailureIsRecorded ==
  \A r \in Runners :
    /\ outcome[r] = "failed" =>
         attempts[setting[r]] # Absent /\ attempts[setting[r]].kind # "succeeded"
    /\ outcome[r] = "misconfigured" =>
         attempts[setting[r]] = Absent /\ sends[setting[r]] = 0

\* What the provider was paid for and what was kept agree, in all three files.
EvidenceAgrees == LeafIsEvidenced /\ UsageIsEvidenced /\ FailureIsRecorded

\* A call only returns a leaf produced under its own settings, also when the
\* leaf file appeared after the call had looked for it.
ReturnsOwnLeaf ==
  \A r \in Runners :
    outcome[r] = "returned" => leaf # Absent /\ leaf.setting = setting[r]

\* The claim protocol bounds paid requests by the number of runners on the
\* root, over any number of calls, crashes and restarts: with one runner at a
\* time no request is ever paid for twice.
SendsBounded == \A s \in Settings : sends[s] <= Cardinality(Runners)

\* Runners that may still send under settings s.
Entitled(s) == {r \in Runners : setting[r] = s /\ pc[r] \in {"claim", "adapter"}}

\* Once a claim exists and nobody may send under it any more, nobody ever may
\* again, and the request is not repeated: "manual recovery required".
NoResend ==
  [][\A s \in Settings :
       (s \in claims /\ Entitled(s) = {}) =>
         Entitled(s)' = {} /\ sends'[s] = sends[s]]_vars

\* Every call ends, also after somebody else's crash left a claim behind.
CallsEnd == \A r \in Runners : (pc[r] # "idle") ~> (pc[r] = "idle")

\* The request of one attempt id reaches the provider once.
SendOnce == \A s \in Settings : sends[s] <= 1

==============================================================================
