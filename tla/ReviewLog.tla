------------------------------- MODULE ReviewLog -------------------------------
(***************************************************************************)
(* human_review_log.HumanEvaluationReviewLog over events.EventLog: writers *)
(* (one `review submit-evaluation` each) append reviewer decisions to one  *)
(* log directory.  An append reads and checks the log as a review log,     *)
(* reads it again as an event log, publishes one shard that extends what   *)
(* it has read the second time, and reads the event log a third time       *)
(* before it reports success.                                              *)
(***************************************************************************)
EXTENDS EventChain, FiniteSets

CONSTANTS Writers,    \* processes that append to the same log
          Reviews,    \* review ids
          VerdictOf,  \* the model verdict each review decides on
          Stamps,     \* event time stamps
          Absent,
          MaxAppends  \* bound: appends begun

ASSUME ReviewAssumption ==
  /\ DOMAIN VerdictOf = Reviews
  /\ Absent \notin Reviews \X Stamps
  /\ MaxAppends \in Nat

VARIABLES shards, \* the event files
          acked,  \* events whose append has reported success
          pc, item, base, \* each append: where it is, its payload, what it has read
          raced,  \* history: two appends have overlapped
          appends

vars == <<shards, acked, pc, item, base, raced, appends>>

Payloads == Reviews \X Stamps
Labels == {"idle", "check", "read", "publish", "verify"}

Review(event) == event[Len(event)][1]

\* HumanEvaluationReviewLog.read_verified: an intact chain in which no review
\* id and no verdict occurs twice.
Readable(log) ==
  /\ Intact(log)
  /\ \A e, f \in log : VerdictOf[Review(e)] = VerdictOf[Review(f)] => e = f

TypeOK ==
  /\ shards \subseteq Seq(Payloads) \ {<<>>}
  /\ acked \subseteq shards
  /\ pc \in [Writers -> Labels]
  /\ item \in [Writers -> Payloads \cup {Absent}]
  /\ base \in [Writers -> Seq(Payloads)]
  /\ raced \in BOOLEAN
  /\ appends \in 0..MaxAppends

Init ==
  /\ shards = {}
  /\ acked = {}
  /\ pc = [w \in Writers |-> "idle"]
  /\ item = [w \in Writers |-> Absent]
  /\ base = [w \in Writers |-> <<>>]
  /\ raced = FALSE
  /\ appends = 0

Begin(w) ==
  /\ pc[w] = "idle"
  /\ appends < MaxAppends
  /\ pc' = [pc EXCEPT ![w] = "check"]
  /\ \E payload \in Payloads : item' = [item EXCEPT ![w] = payload]
  /\ raced' = (raced \/ \E v \in Writers : pc[v] # "idle")
  /\ appends' = appends + 1
  /\ UNCHANGED <<shards, acked, base>>

\* The call ends: with the entry, with an error, or with the process.
Leave(w) ==
  /\ pc' = [pc EXCEPT ![w] = "idle"]
  /\ item' = [item EXCEPT ![w] = Absent]
  /\ base' = [base EXCEPT ![w] = <<>>]
  /\ UNCHANGED <<raced, appends>>

\* (mutant) Only the review id is looked for.
AcceptableById(w) ==
  Readable(shards) /\ \A e \in shards : Review(e) # item[w][1]

\* Neither the review id nor its verdict is in the log yet.
Acceptable(w) ==
  Readable(shards) /\ \A e \in shards : VerdictOf[Review(e)] # VerdictOf[item[w][1]]

Check(w) ==
  /\ pc[w] = "check"
  /\ Acceptable(w)
  /\ pc' = [pc EXCEPT ![w] = "read"]
  /\ UNCHANGED <<shards, acked, item, base, raced, appends>>

Refuse(w) ==
  /\ \/ pc[w] = "check" /\ ~Acceptable(w)
     \/ pc[w] \in {"read", "verify"} /\ ~Intact(shards)
  /\ Leave(w)
  /\ UNCHANGED <<shards, acked>>

\* EventLog.append: the log as it is now, which need not be the checked one.
Read(w) ==
  /\ pc[w] = "read"
  /\ Intact(shards)
  /\ pc' = [pc EXCEPT ![w] = "publish"]
  /\ base' = [base EXCEPT ![w] = LastEvent(shards)]
  /\ UNCHANGED <<shards, acked, item, raced, appends>>

Event(w) == Append(base[w], item[w])

\* (mutant) A shard that cannot be published is passed over.
PublishLost(w) ==
  /\ pc[w] = "publish"
  /\ pc' = [pc EXCEPT ![w] = "verify"]
  /\ shards' \in {shards, shards \cup {Event(w)}}
  /\ UNCHANGED <<acked, item, base, raced, appends>>

\* The file name carries sequence and hash: other events never collide with it.
Publish(w) ==
  /\ pc[w] = "publish"
  /\ pc' = [pc EXCEPT ![w] = "verify"]
  /\ shards' = shards \cup {Event(w)}
  /\ UNCHANGED <<acked, item, base, raced, appends>>

\* (mutant) Success is reported without reading the log again.
AcknowledgeUnread(w) ==
  /\ pc[w] = "verify"
  /\ acked' = acked \cup {Event(w)}
  /\ Leave(w)
  /\ UNCHANGED shards

Acknowledge(w) ==
  /\ pc[w] = "verify"
  /\ Intact(shards)
  /\ acked' = acked \cup {Event(w)}
  /\ Leave(w)
  /\ UNCHANGED shards

Crash(w) ==
  /\ pc[w] # "idle"
  /\ Leave(w)
  /\ UNCHANGED <<shards, acked>>

Next ==
  \E w \in Writers :
    \/ Begin(w)
    \/ Check(w)
    \/ Refuse(w)
    \/ Read(w)
    \/ Publish(w)
    \/ Acknowledge(w)
    \/ Crash(w)

Spec == Init /\ [][Next]_vars

------------------------------------------------------------------------------

\* Writers that race may ruin the log, but two successes never contradict each
\* other: acknowledged events lie on one chain, each extending the other.
AcksAgree ==
  \A e, f \in acked : e \in Chain(f) \/ f \in Chain(e)

\* As long as appends do not overlap the log stays readable through every crash,
\* retry and repeated submission: one review per verdict, on one chain.
StaysReadable == ~raced => Readable(shards)

\* An intact log holds one human review per model verdict.
OneReviewPerVerdict == Intact(shards) => Readable(shards)

==============================================================================
