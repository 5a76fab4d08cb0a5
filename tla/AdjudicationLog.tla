---------------------------- MODULE AdjudicationLog ----------------------------
(***************************************************************************)
(* adjudication.ConflictAdjudicationLog over events.EventLog: reviewers    *)
(* (one `review submit-conflict` each) append decisions about conflicts    *)
(* between episodes.  Each decision names the decision it supersedes, the  *)
(* one its reviewer has seen.  An append checks that link against the log, *)
(* reads the log again, publishes one shard that extends what it has read  *)
(* the second time, and reads the log a third time before it reports       *)
(* success.                                                                *)
(***************************************************************************)
EXTENDS EventChain

CONSTANTS Reviewers,    \* processes that append to the same log
          Conflicts,
          Decisions,    \* what tells two decisions apart, time stamps included
          NoDecision,
          MaxSubmitted  \* bound: appends begun

\* The superseded decision is named by its place in the log, 0 for none.
Adjudications == [conflict : Conflicts, decision : Decisions, supersedes : Nat]

ASSUME AdjudicationAssumption ==
  /\ NoDecision \notin Adjudications
  /\ MaxSubmitted \in Nat

VARIABLES events,    \* the shard files
          settled,   \* events whose append has reported success
          at, submitted, extends, \* each append: where it is, its decision, the event it extends
          overlap,   \* history: two appends have overlapped
          submissions

adjudicationVars == <<events, settled, at, submitted, extends, overlap, submissions>>

AdjudicationTypeOK ==
  /\ events \subseteq Seq(Adjudications) \ {<<>>}
  /\ settled \subseteq events
  /\ at \in [Reviewers -> {"away", "checking", "reading", "publishing", "verifying"}]
  /\ submitted \in [Reviewers -> Adjudications \cup {NoDecision}]
  /\ extends \in [Reviewers -> Seq(Adjudications)]
  /\ overlap \in BOOLEAN
  /\ submissions \in 0..MaxSubmitted

\* The decision in force for a conflict at the end of a chain, by its place.
CurrentDecision(chain, conflict) ==
  LET places == {n \in DOMAIN chain : chain[n].conflict = conflict} IN
  IF places = {} THEN 0 ELSE CHOOSE n \in places : \A m \in places : m <= n

\* Each decision supersedes the one in force before it.
LinksHold(chain) ==
  \A n \in DOMAIN chain :
    chain[n].supersedes = CurrentDecision(SubSeq(chain, 1, n - 1), chain[n].conflict)

\* ConflictAdjudicationLog.read_verified does not raise.
LogVerified == Intact(events) /\ LinksHold(LastEvent(events))

AdjudicationInit ==
  /\ events = {} /\ settled = {}
  /\ at = [r \in Reviewers |-> "away"]
  /\ submitted = [r \in Reviewers |-> NoDecision]
  /\ extends = [r \in Reviewers |-> <<>>]
  /\ overlap = FALSE
  /\ submissions = 0

------------------------------------------------------------------------------

\* A reviewer decides on a conflict, having seen the log as it is or was.
Submit(r) ==
  /\ at[r] = "away"
  /\ submissions < MaxSubmitted
  /\ submissions' = submissions + 1
  /\ overlap' = (overlap \/ \E s \in Reviewers : at[s] # "away")
  /\ at' = [at EXCEPT ![r] = "checking"]
  /\ \E conflict \in Conflicts, decision \in Decisions, seen \in 0..MaxSubmitted :
       submitted' = [submitted EXCEPT ![r] =
         [conflict |-> conflict, decision |-> decision, supersedes |-> seen]]
  /\ UNCHANGED <<events, settled, extends>>

\* The call ends: with the entry, with an error, or with the process.
Withdraw(r) ==
  /\ at' = [at EXCEPT ![r] = "away"]
  /\ submitted' = [submitted EXCEPT ![r] = NoDecision]
  /\ extends' = [extends EXCEPT ![r] = <<>>]
  /\ UNCHANGED <<overlap, submissions>>

\* (mutant) Any earlier decision on the conflict may be superseded.
SupersedesEarlier(r) ==
  /\ LogVerified
  /\ LET last == LastEvent(events) IN
     \/ submitted[r].supersedes = CurrentDecision(last, submitted[r].conflict)
     \/ /\ submitted[r].supersedes \in DOMAIN last
        /\ last[submitted[r].supersedes].conflict = submitted[r].conflict

\* The check of append.
SupersedesCurrent(r) ==
  /\ LogVerified
  /\ submitted[r].supersedes = CurrentDecision(LastEvent(events), submitted[r].conflict)

CheckLink(r) ==
  /\ at[r] = "checking"
  /\ SupersedesCurrent(r)
  /\ at' = [at EXCEPT ![r] = "reading"]
  /\ UNCHANGED <<events, settled, submitted, extends, overlap, submissions>>

\* EventLog.append: the log as it is now, which need not be the checked one.
ReadEvents(r) ==
  /\ at[r] = "reading"
  /\ Intact(events)
  /\ at' = [at EXCEPT ![r] = "publishing"]
  /\ extends' = [extends EXCEPT ![r] = LastEvent(events)]
  /\ UNCHANGED <<events, settled, submitted, overlap, submissions>>

NewEvent(r) == Append(extends[r], submitted[r])

PublishEvent(r) ==
  /\ at[r] = "publishing"
  /\ at' = [at EXCEPT ![r] = "verifying"]
  /\ events' = events \cup {NewEvent(r)}
  /\ UNCHANGED <<settled, submitted, extends, overlap, submissions>>

Settle(r) ==
  /\ at[r] = "verifying"
  /\ Intact(events)
  /\ settled' = settled \cup {NewEvent(r)}
  /\ Withdraw(r)
  /\ UNCHANGED events

Reject(r) ==
  /\ \/ at[r] = "checking" /\ ~SupersedesCurrent(r)
     \/ at[r] \in {"reading", "verifying"} /\ ~Intact(events)
  /\ Withdraw(r)
  /\ UNCHANGED <<events, settled>>

CrashReviewer(r) ==
  /\ at[r] # "away"
  /\ Withdraw(r)
  /\ UNCHANGED <<events, settled>>

AdjudicationNext ==
  \E r \in Reviewers :
    \/ Submit(r)
    \/ CheckLink(r)
    \/ ReadEvents(r)
    \/ PublishEvent(r)
    \/ Settle(r)
    \/ Reject(r)
    \/ CrashReviewer(r)

AdjudicationSpec == AdjudicationInit /\ [][AdjudicationNext]_adjudicationVars

------------------------------------------------------------------------------

\* Unless appends overlap, the log stays readable through every crash and every
\* decision made on an outdated view: the decisions on a conflict form one chain,
\* each superseding the one that was in force, and none is lost.
DecisionsStand == ~overlap => LogVerified

==============================================================================
