----------------------------- MODULE CurationProofs -----------------------------
(***************************************************************************)
(* The adjudication log for every number of reviewers, conflicts and       *)
(* decisions; the release gate for every dataset, every evidence and every *)
(* member list; and that the three parts of curation keep what was proved  *)
(* of each when they are put together.                                     *)
(***************************************************************************)
EXTENDS Curation, DataPreparationProofs, SequenceTheorems

------------------------------------------------------------------------------
\* The adjudication log.

\* A reviewer past the start has a decision, and past publication a shard.
Underway ==
  \A r \in Reviewers :
    /\ at[r] # "away" => submitted[r] \in Adjudications
    /\ at[r] = "verifying" => NewEvent(r) \in events

AdjudicationInv == AdjudicationTypeOK /\ Underway

\* What a lone reviewer knows: the log it checked and the one it read are still
\* the log.
LoneReviewer ==
  ~overlap =>
    /\ \A r, s \in Reviewers : at[r] # "away" /\ at[s] # "away" => r = s
    /\ LogVerified
    /\ \A r \in Reviewers :
         /\ at[r] \in {"reading", "publishing"} => SupersedesCurrent(r)
         /\ at[r] = "publishing" => events = Chain(extends[r])

------------------------------------------------------------------------------
\* Chains.

\* An appended event adds itself to the files of the log.
LEMMA ChainGrows ==
  ASSUME NEW S, NEW head \in Seq(S), NEW x \in S
  PROVE  Chain(Append(head, x)) = Chain(head) \cup {Append(head, x)}
<1> DEFINE next == Append(head, x)
<1>1. next \in Seq(S) /\ Len(next) = Len(head) + 1 /\ \A i \in 1..Len(head) : next[i] = head[i]
  OBVIOUS
<1>2. SubSeq(next, 1, Len(next)) = next
  BY <1>1
<1>3. \A n \in 1..Len(head) : SubSeq(next, 1, n) = SubSeq(head, 1, n)
  BY <1>1
<1>4. 1..Len(next) = 1..Len(head) \cup {Len(next)}
  BY <1>1
<1> QED
  BY <1>2, <1>3, <1>4 DEF Chain

\* The files of a chain are no longer than its last event.
LEMMA ChainBounds ==
  ASSUME NEW S, NEW g \in Seq(S), NEW h \in Seq(S), Chain(g) = Chain(h)
  PROVE  Len(g) <= Len(h) /\ g = SubSeq(h, 1, Len(g))
<1>1. CASE Len(g) = 0
  <2>1. g = <<>>
    BY <1>1
  <2>2. SubSeq(h, 1, 0) = <<>>
    OBVIOUS
  <2>3. Len(g) <= Len(h)
    BY <1>1
  <2>4. SubSeq(h, 1, Len(g)) = <<>>
    BY <1>1, <2>2
  <2> QED
    BY <2>1, <2>3, <2>4
<1>2. CASE Len(g) # 0
  <2>1. Len(g) \in 1..Len(g) /\ SubSeq(g, 1, Len(g)) = g
    BY <1>2
  <2>2. g \in Chain(h)
    BY <2>1 DEF Chain
  <2>3. PICK n \in 1..Len(h) : g = SubSeq(h, 1, n)
    BY <2>2 DEF Chain
  <2>4. Len(g) = n
    BY <2>3
  <2> QED
    BY <2>3, <2>4
<1> QED
  BY <1>1, <1>2

\* A chain has one last event.
LEMMA ChainHead ==
  ASSUME NEW S, NEW g \in Seq(S), NEW h \in Seq(S), Chain(g) = Chain(h)
  PROVE  g = h
<1>1. Len(g) <= Len(h) /\ g = SubSeq(h, 1, Len(g))
  BY ChainBounds
<1>2. Len(h) <= Len(g)
  BY ChainBounds
<1>3. Len(g) = Len(h)
  BY <1>1, <1>2
<1>4. SubSeq(h, 1, Len(h)) = h
  OBVIOUS
<1> QED
  BY <1>1, <1>3, <1>4

\* The last event of an intact log.
LEMMA LastEventFacts ==
  ASSUME AdjudicationTypeOK, Intact(events)
  PROVE  LastEvent(events) \in Seq(Adjudications) /\ events = Chain(LastEvent(events))
<1>1. \E head \in events \cup {<<>>} : events = Chain(head)
  BY DEF Intact
<1>2. LastEvent(events) \in events \cup {<<>>} /\ events = Chain(LastEvent(events))
  BY <1>1 DEF LastEvent
<1>3. events \cup {<<>>} \subseteq Seq(Adjudications)
  <2>1. <<>> \in Seq(Adjudications)
    OBVIOUS
  <2> QED
    BY <2>1 DEF AdjudicationTypeOK
<1> QED
  BY <1>2, <1>3

\* A decision that supersedes the one in force extends a good chain to another.
LEMMA LinksExtend ==
  ASSUME NEW chain \in Seq(Adjudications), NEW x \in Adjudications,
         LinksHold(chain), x.supersedes = CurrentDecision(chain, x.conflict)
  PROVE  LinksHold(Append(chain, x))
<1> DEFINE next == Append(chain, x)
<1>1. /\ next \in Seq(Adjudications) /\ Len(next) = Len(chain) + 1
      /\ \A n \in 1..Len(chain) : next[n] = chain[n]
      /\ next[Len(chain) + 1] = x
  OBVIOUS
<1> HIDE DEF next
<1> SUFFICES ASSUME NEW n \in 1..Len(next)
             PROVE  next[n].supersedes = CurrentDecision(SubSeq(next, 1, n - 1), next[n].conflict)
  BY <1>1 DEF LinksHold, next
<1>2. CASE n <= Len(chain)
  <2>1. SubSeq(next, 1, n - 1) = SubSeq(chain, 1, n - 1)
    BY <1>1, <1>2
  <2>2. n \in DOMAIN chain
    BY <1>2
  <2>3. next[n] = chain[n]
    BY <1>1, <1>2
  <2>4. chain[n].supersedes = CurrentDecision(SubSeq(chain, 1, n - 1), chain[n].conflict)
    BY <2>2 DEF LinksHold
  <2> QED
    BY <2>1, <2>3, <2>4
<1>3. CASE n = Len(chain) + 1
  <2>1. SubSeq(next, 1, n - 1) = chain
    BY <1>1, <1>3
  <2> QED
    BY <1>1, <1>3, <2>1
<1> QED
  BY <1>1, <1>2, <1>3

------------------------------------------------------------------------------

LEMMA InitAdjudicationInv == AdjudicationInit => AdjudicationInv /\ LoneReviewer
<1> SUFFICES ASSUME AdjudicationInit PROVE AdjudicationInv /\ LoneReviewer
  OBVIOUS
<1>1. <<>> \in Seq(Adjudications) /\ 0 \in 0..MaxSubmitted
  BY AdjudicationAssumption
<1>2. AdjudicationTypeOK
  BY <1>1 DEF AdjudicationInit, AdjudicationTypeOK
<1>3. AdjudicationInv
  BY <1>2 DEF AdjudicationInit, AdjudicationInv, Underway
<1>4. Intact(events) /\ \A head \in events \cup {<<>>} : head = <<>>
  BY DEF AdjudicationInit, Intact, Chain
<1>5. LastEvent(events) = <<>>
  BY <1>4 DEF Intact, LastEvent
<1>6. LogVerified
  BY <1>4, <1>5 DEF LogVerified, LinksHold
<1> QED
  BY <1>3, <1>6 DEF AdjudicationInit, LoneReviewer

LEMMA NextAdjudicationInv ==
  AdjudicationInv /\ [AdjudicationNext]_adjudicationVars => AdjudicationInv'
<1> SUFFICES ASSUME AdjudicationInv, [AdjudicationNext]_adjudicationVars
             PROVE  AdjudicationInv'
  OBVIOUS
<1> USE DEF AdjudicationInv, AdjudicationTypeOK
<1>1. ASSUME NEW r \in Reviewers, Withdraw(r), UNCHANGED events, settled' \subseteq events
      PROVE  AdjudicationInv'
  <2>1. <<>> \in Seq(Adjudications)
    OBVIOUS
  <2>2. AdjudicationTypeOK'
    BY <1>1, <2>1 DEF Withdraw
  <2>3. Underway'
    BY <1>1 DEF Withdraw, Underway, NewEvent
  <2> QED
    BY <2>2, <2>3
<1>2. ASSUME NEW r \in Reviewers, Submit(r) PROVE AdjudicationInv'
  <2>1. PICK decision \in Adjudications : submitted' = [submitted EXCEPT ![r] = decision]
    <3>1. PICK conflict \in Conflicts, decision \in Decisions, seen \in 0..MaxSubmitted :
            submitted' = [submitted EXCEPT ![r] =
              [conflict |-> conflict, decision |-> decision, supersedes |-> seen]]
      BY <1>2 DEF Submit
    <3>2. seen \in Nat
      BY AdjudicationAssumption
    <3> QED
      BY <3>1, <3>2 DEF Adjudications
  <2>2. overlap' \in BOOLEAN /\ submissions' \in 0..MaxSubmitted
    BY <1>2, AdjudicationAssumption DEF Submit
  <2>3. AdjudicationTypeOK'
    BY <1>2, <2>1, <2>2 DEF Submit
  <2>4. Underway'
    BY <1>2, <2>1 DEF Submit, Underway, NewEvent
  <2> QED
    BY <2>3, <2>4
<1>3. ASSUME NEW r \in Reviewers, CheckLink(r) PROVE AdjudicationInv'
  BY <1>3 DEF CheckLink, Underway, NewEvent
<1>4. ASSUME NEW r \in Reviewers, ReadEvents(r) PROVE AdjudicationInv'
  BY <1>4, LastEventFacts DEF ReadEvents, Underway, NewEvent
<1>5. ASSUME NEW r \in Reviewers, PublishEvent(r) PROVE AdjudicationInv'
  <2>1. extends[r] \in Seq(Adjudications) /\ submitted[r] \in Adjudications
    BY <1>5 DEF PublishEvent, Underway
  <2>2. NewEvent(r) \in Seq(Adjudications) \ {<<>>}
    <3>1. Append(extends[r], submitted[r]) \in Seq(Adjudications)
      BY <2>1
    <3>2. Len(Append(extends[r], submitted[r])) # 0
      BY <2>1
    <3> QED
      BY <3>1, <3>2 DEF NewEvent
  <2>3. AdjudicationTypeOK'
    BY <1>5, <2>2 DEF PublishEvent
  <2>4. Underway'
    BY <1>5 DEF PublishEvent, Underway, NewEvent
  <2> QED
    BY <2>3, <2>4
<1>6. ASSUME NEW r \in Reviewers, Settle(r) PROVE AdjudicationInv'
  <2>1. settled' \subseteq events
    BY <1>6 DEF Settle, Underway
  <2> QED
    BY <1>1, <1>6, <2>1 DEF Settle
<1>7. ASSUME NEW r \in Reviewers, Reject(r) \/ CrashReviewer(r) PROVE AdjudicationInv'
  BY <1>1, <1>7 DEF Reject, CrashReviewer
<1>8. CASE UNCHANGED adjudicationVars
  BY <1>8 DEF adjudicationVars, Underway, NewEvent
<1> QED
  BY <1>2, <1>3, <1>4, <1>5, <1>6, <1>7, <1>8 DEF AdjudicationNext

LEMMA NextLoneReviewer ==
  AdjudicationInv /\ LoneReviewer /\ [AdjudicationNext]_adjudicationVars => LoneReviewer'
<1> SUFFICES ASSUME AdjudicationInv, LoneReviewer, [AdjudicationNext]_adjudicationVars, ~overlap'
             PROVE  LoneReviewer'
  BY DEF LoneReviewer
<1> USE DEF AdjudicationInv, AdjudicationTypeOK
<1>0. ~overlap
  BY DEF AdjudicationNext, Submit, CheckLink, ReadEvents, PublishEvent, Settle, Reject,
         CrashReviewer, Withdraw, adjudicationVars
<1>1. ASSUME NEW r \in Reviewers, Submit(r) PROVE LoneReviewer'
  BY <1>0, <1>1 DEF LoneReviewer, Submit, SupersedesCurrent, LogVerified
<1>2. ASSUME NEW r \in Reviewers, CheckLink(r) PROVE LoneReviewer'
  BY <1>0, <1>2 DEF LoneReviewer, CheckLink, SupersedesCurrent, LogVerified
<1>3. ASSUME NEW r \in Reviewers, Settle(r) \/ Reject(r) \/ CrashReviewer(r)
      PROVE  LoneReviewer'
  BY <1>0, <1>3, ZenonT(30)
  DEF LoneReviewer, Settle, Reject, CrashReviewer, Withdraw, SupersedesCurrent, LogVerified
<1>4. ASSUME NEW r \in Reviewers, ReadEvents(r) PROVE LoneReviewer'
  BY <1>0, <1>4, LastEventFacts DEF LoneReviewer, ReadEvents, SupersedesCurrent, LogVerified
<1>5. ASSUME NEW r \in Reviewers, PublishEvent(r) PROVE LoneReviewer'
  <2>1. extends[r] \in Seq(Adjudications) /\ submitted[r] \in Adjudications
    BY <1>5 DEF PublishEvent, Underway
  <2>2. SupersedesCurrent(r) /\ events = Chain(extends[r])
    BY <1>0, <1>5 DEF LoneReviewer, PublishEvent
  <2>3. extends[r] = LastEvent(events)
    <3>1. Intact(events)
      BY <2>2 DEF SupersedesCurrent, LogVerified
    <3> QED
      BY <2>1, <2>2, <3>1, LastEventFacts, ChainHead
  <2>4. LinksHold(NewEvent(r))
    BY <2>1, <2>2, <2>3, LinksExtend DEF SupersedesCurrent, LogVerified, NewEvent
  <2>5. NewEvent(r) \in Seq(Adjudications) /\ events' = Chain(NewEvent(r))
        /\ NewEvent(r) \in events'
    BY <1>5, <2>1, <2>2, ChainGrows DEF PublishEvent, NewEvent
  <2>6. Intact(events')
    BY <2>5 DEF Intact
  <2>7. AdjudicationTypeOK'
    BY NextAdjudicationInv
  <2>8. LastEvent(events') = NewEvent(r)
    <3>1. \E head \in events' \cup {<<>>} : events' = Chain(head)
      BY <2>6 DEF Intact
    <3>2. LastEvent(events') \in events' \cup {<<>>} /\ events' = Chain(LastEvent(events'))
      BY <3>1 DEF LastEvent
    <3>3. <<>> \in Seq(Adjudications)
      OBVIOUS
    <3>4. LastEvent(events') \in Seq(Adjudications)
      BY <2>7, <3>2, <3>3
    <3> QED
      BY <2>5, <3>2, <3>4, ChainHead
  <2>9. LogVerified'
    BY <2>4, <2>6, <2>8 DEF LogVerified
  <2>10. \A s \in Reviewers : s # r => at[s] = "away" /\ at'[s] = "away"
    BY <1>0, <1>5 DEF LoneReviewer, PublishEvent
  <2> QED
    BY <1>5, <2>9, <2>10 DEF LoneReviewer, PublishEvent
<1>6. CASE UNCHANGED adjudicationVars
  BY <1>0, <1>6 DEF adjudicationVars, LoneReviewer, SupersedesCurrent, LogVerified
<1> QED
  BY <1>1, <1>2, <1>3, <1>4, <1>5, <1>6 DEF AdjudicationNext

------------------------------------------------------------------------------

\* The log and the state of every append keep their types.
THEOREM AdjudicationTypeCorrect == AdjudicationSpec => []AdjudicationTypeOK
<1>1. AdjudicationInit => AdjudicationInv
  BY InitAdjudicationInv
<1>2. AdjudicationInv => AdjudicationTypeOK
  BY DEF AdjudicationInv
<1> QED
  BY <1>1, <1>2, NextAdjudicationInv, PTL DEF AdjudicationSpec

\* Without overlapping appends the log stays readable and its decisions on each
\* conflict form one chain, for any number of reviewers, crashes and decisions
\* made on an outdated view of the log.
THEOREM LoneDecisionsStand == AdjudicationSpec => []DecisionsStand
<1>1. AdjudicationInv /\ LoneReviewer /\ [AdjudicationNext]_adjudicationVars
        => (AdjudicationInv /\ LoneReviewer)'
  BY NextAdjudicationInv, NextLoneReviewer
<1>2. LoneReviewer => DecisionsStand
  BY DEF LoneReviewer, DecisionsStand
<1> QED
  BY <1>1, <1>2, InitAdjudicationInv, PTL DEF AdjudicationSpec

------------------------------------------------------------------------------
\* The release gate.

\* Versions are only ever replaced by later ones.
NoLater(files, other) == \A f \in Files : files[f] <= other[f]

Unambiguous(reviews) == \A r, s \in reviews : r.verdict = s.verdict => r = s

\* Members that no later check will find out of order.
Listed(list) ==
  /\ Ordered(list)
  /\ \A i, j \in DOMAIN list : list[i].review = list[j].review => i = j

\* What a command relies on, besides what it checks itself.
Sound ==
  phase # "idle" =>
    /\ version \in moments
    /\ NoLater(described, version)
    /\ Unambiguous(known)
    /\ Ordered(members)

\* When the second pass begins, the dataset is no older than the manifest; for
\* the files the pass has found unchanged it is then what the manifest says.
SecondPass ==
  phase = "check" =>
    /\ Listed(members)
    /\ \E moment \in moments :
         /\ NoLater(described, moment)
         /\ NoLater(moment, version)
         /\ \A f \in Files : f < position => moment[f] = described[f]

WrittenManifests ==
  \A manifest \in manifests : NoLater(manifest.files, version) /\ Listed(manifest.members)

ReleaseInv ==
  /\ ReleaseTypeOK
  /\ Sound /\ SecondPass /\ WrittenManifests
  /\ DescribedTogether /\ ReleasedIsAccepted

------------------------------------------------------------------------------

\* A report is about versions that were in the dataset together.
LEMMA ReportTogether ==
  ASSUME ReleaseInv, phase = "check", position \notin Files
  PROVE  described \in moments
<1> USE DEF ReleaseInv, ReleaseTypeOK
<1>1. PICK moment \in moments : \A f \in Files : f < position => moment[f] = described[f]
  BY DEF SecondPass
<1>2. \A f \in Files : f < position
  BY ReleaseAssumption DEF Files
<1>3. moment \in [Files -> Nat] /\ described \in [Files -> Nat]
  BY DEF Versions
<1>4. moment = described
  BY <1>1, <1>2, <1>3
<1> QED
  BY <1>1, <1>4

\* A report is about rows that are accepted.
LEMMA ReportAccepted ==
  ASSUME ReleaseInv, phase = "check", Releasable
  PROVE  Accepted(members, described, known)
<1> USE DEF ReleaseInv, ReleaseTypeOK
<1>1. [i \in DOMAIN members |-> members[i].episode] =
        FlattenSeq([f \in Files |-> Contents[f][described[f]]])
  BY DEF Releasable, ReleasedRows
<1>2. ASSUME NEW i \in DOMAIN members, NEW j \in DOMAIN members,
             members[i].episode = members[j].episode \/ members[i].review = members[j].review
      PROVE  i = j
  <2>1. i \in Nat /\ j \in Nat /\ members[i] \in Members /\ members[j] \in Members
    OBVIOUS
  <2>2. members[i].episode \in GoldEpisodes /\ members[j].episode \in GoldEpisodes
    BY <2>1 DEF Members
  <2>3. EpisodeRank[members[i].episode] \in Nat /\ EpisodeRank[members[j].episode] \in Nat
    BY <2>2, ReleaseAssumption
  <2>4. CASE members[i].episode = members[j].episode
    <3>1. ~(i < j) /\ ~(j < i)
      BY <2>3, <2>4 DEF Sound, Ordered
    <3> QED
      BY <2>1, <3>1
  <2>5. CASE members[i].review = members[j].review
    BY <2>5 DEF SecondPass, Listed
  <2> QED
    BY <1>2, <2>4, <2>5
<1>3. ASSUME NEW i \in DOMAIN members
      PROVE  /\ EpisodeOf[members[i].verdict] = members[i].episode
             /\ {r \in known : r.verdict = members[i].verdict}
                  = {[verdict |-> members[i].verdict, decision |-> "accept_for_gold"]}
  <2>1. Admitted(members[i])
    BY DEF Releasable
  <2>2. members[i].review \in known /\ members[i].review \in Reviews
    BY <2>1 DEF Admitted
  <2>3. members[i].review = [verdict |-> members[i].verdict, decision |-> "accept_for_gold"]
    BY <2>1, <2>2 DEF Admitted, Reviews
  <2>4. \A r \in known : r.verdict = members[i].verdict => r = members[i].review
    BY <2>1, <2>2 DEF Sound, Unambiguous, Admitted
  <2> QED
    BY <2>1, <2>2, <2>3, <2>4 DEF Admitted
<1> QED
  BY <1>1, <1>2, <1>3 DEF Accepted

LEMMA NextReleaseInv == ReleaseInv /\ [ReleaseNext]_releaseVars => ReleaseInv'
<1> SUFFICES ASSUME ReleaseInv, [ReleaseNext]_releaseVars PROVE ReleaseInv'
  OBVIOUS
<1> USE DEF ReleaseInv
<1>a. version \in [Files -> Nat] /\ described \in [Files -> Nat] /\ moments \subseteq [Files -> Nat]
  BY DEF ReleaseTypeOK, Versions
<1>b. \A f \in Files : f \in Nat /\ f >= 1
  BY DEF Files
<1>c. \A manifest \in manifests :
        manifest.files \in [Files -> Nat] /\ manifest.members \in Seq(Members)
  BY DEF ReleaseTypeOK, Manifests, Versions
<1>1. ASSUME NEW f \in Files, EditFile(f) PROVE ReleaseInv'
  <2>1. /\ version' = [version EXCEPT ![f] = @ + 1] /\ version' \in [Files -> Nat]
        /\ NoLater(version, version')
    BY <1>1, <1>a DEF EditFile, NoLater
  <2>2. \A files \in [Files -> Nat] : NoLater(files, version) => NoLater(files, version')
    <3> SUFFICES ASSUME NEW files \in [Files -> Nat], NoLater(files, version), NEW g \in Files
                 PROVE  files[g] <= version'[g]
      BY DEF NoLater
    <3>1. files[g] <= version[g] /\ version[g] <= version'[g]
      BY <2>1 DEF NoLater
    <3>2. files[g] \in Nat /\ version[g] \in Nat /\ version'[g] \in Nat
      BY <1>a, <2>1
    <3> QED
      BY <3>1, <3>2
  <2>3. moments' \subseteq [Files -> Nat] /\ moments \subseteq moments'
        /\ (phase # "idle" => version' \in moments')
    BY <1>1, <1>a, <2>1 DEF EditFile
  <2>4. ReleaseTypeOK'
    <3>1. \A g \in Files : version'[g] \in DOMAIN Contents[g]
      BY <1>1, <1>a DEF EditFile, ReleaseTypeOK
    <3> QED
      BY <1>1, <2>1, <2>3, <3>1 DEF EditFile, ReleaseTypeOK, Versions, command
  <2>5. Sound'
    BY <1>1, <1>a, <2>2, <2>3 DEF EditFile, Sound, command, Unambiguous, Ordered, NoLater
  <2>6. SecondPass'
    BY <1>1, <1>a, <2>2, <2>3 DEF EditFile, SecondPass, command, Listed, Ordered, NoLater
  <2>7. WrittenManifests'
    BY <1>1, <1>c, <2>2 DEF EditFile, WrittenManifests, command, Listed, Ordered, NoLater
  <2> QED
    BY <1>1, <2>4, <2>5, <2>6, <2>7 DEF EditFile, command, DescribedTogether, ReleasedIsAccepted
<1>2. ASSUME NEW r \in Reviews, SubmitReview(r) PROVE ReleaseInv'
  <2>1. log \subseteq log' /\ log' \subseteq Reviews
    BY <1>2 DEF SubmitReview, ReleaseTypeOK
  <2>2. ReleaseTypeOK'
    BY <1>2, <2>1 DEF SubmitReview, ReleaseTypeOK, command
  <2> QED
    BY <1>2, <2>2 DEF SubmitReview, command, Sound, SecondPass, WrittenManifests,
       Unambiguous, Listed, Ordered, NoLater, DescribedTogether, ReleasedIsAccepted
<1>3. ASSUME NEW list \in MemberLists, StartBuild(list) PROVE ReleaseInv'
  <2>1. list \in Seq(Members) /\ Undescribed \in [Files -> Nat] /\ 1 \in 1..FileCount + 1
    BY ReleaseAssumption DEF Undescribed
  <2>2. ReleaseTypeOK'
    BY <1>3, <2>1 DEF StartBuild, Begin, ReleaseTypeOK, Versions
  <2>3. Sound'
    <3>1. NoLater(Undescribed, version)
      BY <1>a DEF NoLater, Undescribed
    <3> QED
      BY <1>3, <3>1 DEF StartBuild, Begin, Sound, LogReadable, Unambiguous, NoLater, Ordered
  <2> QED
    BY <1>3, <2>2, <2>3 DEF StartBuild, Begin, SecondPass, WrittenManifests, Listed, Ordered,
       NoLater, DescribedTogether, ReleasedIsAccepted
<1>4. ASSUME NEW manifest \in manifests, StartValidate(manifest) PROVE ReleaseInv'
  <2>0. NoLater(manifest.files, version) /\ Listed(manifest.members)
    BY DEF WrittenManifests
  <2>1. 1 \in 1..FileCount + 1
    BY ReleaseAssumption
  <2>2. ReleaseTypeOK'
    BY <1>4, <1>c, <2>1 DEF StartValidate, Begin, ReleaseTypeOK, Versions
  <2>3. Sound'
    BY <1>4, <2>0
    DEF StartValidate, Begin, Sound, LogReadable, Unambiguous, NoLater, Ordered, Listed
  <2>4. SecondPass'
    <3>1. NoLater(version, version)
      BY <1>a DEF NoLater
    <3>2. \A f \in Files : ~(f < 1)
      BY <1>b
    <3> QED
      BY <1>4, <2>0, <3>1, <3>2 DEF StartValidate, Begin, SecondPass, NoLater, Ordered, Listed
  <2> QED
    BY <1>4, <2>2, <2>3, <2>4 DEF StartValidate, Begin, WrittenManifests, Listed, Ordered,
       NoLater, DescribedTogether, ReleasedIsAccepted
<1>5. CASE Describe
  <2>1. /\ described' = [described EXCEPT ![position] = version[position]]
        /\ described' \in [Files -> Nat] /\ NoLater(described', version)
    <3>1. NoLater(described, version)
      BY <1>5 DEF Describe, Sound
    <3> QED
      BY <1>5, <1>a, <3>1 DEF Describe, NoLater
  <2>2. position + 1 \in 1..FileCount + 1
    BY <1>5, ReleaseAssumption DEF Describe, Files
  <2>3. ReleaseTypeOK'
    BY <1>5, <2>1, <2>2 DEF Describe, ReleaseTypeOK, Versions
  <2> QED
    BY <1>5, <2>1, <2>3 DEF Describe, Sound, SecondPass, WrittenManifests, Unambiguous, Listed,
       Ordered, NoLater, DescribedTogether, ReleasedIsAccepted
<1>6. CASE Assemble
  <2>1. 1 \in 1..FileCount + 1
    BY ReleaseAssumption
  <2>2. ReleaseTypeOK'
    BY <1>6, <2>1 DEF Assemble, ReleaseTypeOK
  <2>3. SecondPass'
    <3>1. NoLater(version, version)
      BY <1>a DEF NoLater
    <3>2. \A f \in Files : ~(f < 1)
      BY <1>b
    <3>3. version \in moments /\ NoLater(described, version) /\ Ordered(members)
      BY <1>6 DEF Assemble, Sound
    <3> QED
      BY <1>6, <3>1, <3>2, <3>3 DEF Assemble, SecondPass, NoLater, Ordered, Listed, WellFormed
  <2> QED
    BY <1>6, <2>2, <2>3 DEF Assemble, Sound, WrittenManifests, Unambiguous, Listed,
       Ordered, NoLater, DescribedTogether, ReleasedIsAccepted
<1>7. CASE CheckFile
  <2>1. position + 1 \in 1..FileCount + 1
    BY <1>7, ReleaseAssumption DEF CheckFile, Files
  <2>2. ReleaseTypeOK'
    BY <1>7, <2>1 DEF CheckFile, ReleaseTypeOK
  <2>3. SecondPass'
    <3>1. PICK moment \in moments :
            /\ NoLater(described, moment)
            /\ NoLater(moment, version)
            /\ \A f \in Files : f < position => moment[f] = described[f]
      BY <1>7 DEF CheckFile, SecondPass
    <3>2. moment[position] = described[position]
      <4>1. /\ described[position] <= moment[position] /\ moment[position] <= version[position]
            /\ version[position] = described[position]
        BY <1>7, <3>1 DEF CheckFile, NoLater
      <4>2. described[position] \in Nat /\ moment[position] \in Nat /\ version[position] \in Nat
        BY <1>7, <1>a DEF CheckFile
      <4> QED
        BY <4>1, <4>2
    <3>3. \A f \in Files : f < position + 1 => moment[f] = described[f]
      <4>1. position \in Nat
        BY <1>7, <1>b DEF CheckFile
      <4>2. \A f \in Files : f < position + 1 => f < position \/ f = position
        BY <1>b, <4>1
      <4> QED
        BY <3>1, <3>2, <4>2
    <3> QED
      BY <1>7, <3>1, <3>3 DEF CheckFile, SecondPass, NoLater, Ordered, Listed
  <2> QED
    BY <1>7, <2>2, <2>3 DEF CheckFile, Sound, WrittenManifests, Unambiguous, Listed,
       Ordered, NoLater, DescribedTogether, ReleasedIsAccepted
<1>8. ASSUME End, UNCHANGED <<manifests, reports>> PROVE ReleaseInv'
  <2>1. <<>> \in Seq(Members) /\ Undescribed \in [Files -> Nat] /\ 1 \in 1..FileCount + 1
    BY ReleaseAssumption DEF Undescribed
  <2>2. ReleaseTypeOK'
    BY <1>8, <2>1 DEF End, ReleaseTypeOK, Versions
  <2> QED
    BY <1>8, <2>2 DEF End, Sound, SecondPass, WrittenManifests, Listed,
       Ordered, NoLater, DescribedTogether, ReleasedIsAccepted
<1>9. CASE Report
  <2>0. described \in moments
    BY <1>9, ReportTogether DEF Report
  <2>1. <<>> \in Seq(Members) /\ Undescribed \in [Files -> Nat] /\ 1 \in 1..FileCount + 1
    BY ReleaseAssumption DEF Undescribed
  <2>2. Manifest \in Manifests /\ Manifest.files = described /\ Manifest.members = members
    BY DEF Manifest, Manifests, ReleaseTypeOK
  <2>3. ReleaseTypeOK'
    <3>1. manifests' \subseteq Manifests /\ manifests \subseteq manifests' /\ Manifest \in manifests'
      BY <1>9, <2>2 DEF Report, ReleaseTypeOK
    <3>2. reports' \subseteq [manifest : manifests', known : SUBSET log, moments : SUBSET Versions]
      BY <1>9, <3>1 DEF Report, ReleaseTypeOK
    <3> QED
      BY <1>9, <2>1, <3>1, <3>2 DEF Report, End, ReleaseTypeOK, Versions
  <2>4. Sound' /\ SecondPass'
    BY <1>9 DEF Report, End, Sound, SecondPass
  <2>5. WrittenManifests'
    <3>1. NoLater(described, version) /\ Listed(members)
      BY <1>9 DEF Report, Sound, SecondPass
    <3> QED
      BY <1>9, <2>2, <3>1 DEF Report, End, WrittenManifests, Listed, Ordered, NoLater
  <2>6. DescribedTogether'
    BY <1>9, <2>0, <2>2 DEF Report, DescribedTogether
  <2>7. ReleasedIsAccepted'
    <3> DEFINE new == [manifest |-> Manifest, known |-> known, moments |-> moments]
    <3>1. reports' = reports \cup {new}
      BY <1>9 DEF Report
    <3>2. new.manifest.members = members /\ new.manifest.files = described /\ new.known = known
      BY <2>2
    <3> HIDE DEF new
    <3> QED
      BY <1>9, <3>1, <3>2, ReportAccepted DEF Report, ReleasedIsAccepted
  <2> QED
    BY <2>3, <2>4, <2>5, <2>6, <2>7
<1>10. CASE RefuseRelease \/ CrashRelease
  BY <1>8, <1>10 DEF RefuseRelease, CrashRelease
<1>11. CASE UNCHANGED releaseVars
  BY <1>11 DEF releaseVars, command, ReleaseTypeOK, Sound, SecondPass, WrittenManifests,
     Unambiguous, Listed, Ordered, NoLater, DescribedTogether, ReleasedIsAccepted
<1> QED
  BY <1>1, <1>2, <1>3, <1>4, <1>5, <1>6, <1>7, <1>9, <1>10, <1>11 DEF ReleaseNext

LEMMA ReleaseInvHolds == ReleaseSpec => []ReleaseInv
<1>1. ReleaseInit => ReleaseInv
  <2> SUFFICES ASSUME ReleaseInit PROVE ReleaseInv
    OBVIOUS
  <2>1. <<>> \in Seq(Members) /\ Undescribed \in [Files -> Nat] /\ 1 \in 1..FileCount + 1
    BY ReleaseAssumption DEF Undescribed
  <2>2. \A f \in Files : 1 \in DOMAIN Contents[f]
    BY ReleaseAssumption
  <2>3. ReleaseTypeOK
    BY <2>1, <2>2 DEF ReleaseInit, ReleaseTypeOK, Versions
  <2> QED
    BY <2>3 DEF ReleaseInit, ReleaseInv, Sound, SecondPass, WrittenManifests,
       DescribedTogether, ReleasedIsAccepted
<1> QED
  BY <1>1, NextReleaseInv, PTL DEF ReleaseSpec

------------------------------------------------------------------------------

\* Dataset, log, running command and reports keep their types.
THEOREM ReleaseTypeCorrect == ReleaseSpec => []ReleaseTypeOK
<1>1. ReleaseInv => ReleaseTypeOK
  BY DEF ReleaseInv
<1> QED
  BY <1>1, ReleaseInvHolds, PTL

\* The dataset as it was when the second pass began is what the report names:
\* no file is older than described then, none was younger when it was checked.
THEOREM FilesAreDescribedTogether == ReleaseSpec => []DescribedTogether
<1>1. ReleaseInv => DescribedTogether
  BY DEF ReleaseInv
<1> QED
  BY <1>1, ReleaseInvHolds, PTL

\* No release has a row without an acceptance of its own by a logged review.
THEOREM ReleasesAreAccepted == ReleaseSpec => []ReleasedIsAccepted
<1>1. ReleaseInv => ReleasedIsAccepted
  BY DEF ReleaseInv
<1> QED
  BY <1>1, ReleaseInvHolds, PTL

------------------------------------------------------------------------------
\* The composition.

\* A behaviour of the composition is one of each of its parts: they share no state.
LEMMA PartsAreIndependent ==
  CurationSpec => PreparationSpec /\ AdjudicationSpec /\ ReleaseSpec
<1>1. CurationInit => PreparationInit /\ AdjudicationInit /\ ReleaseInit
  BY DEF CurationInit
<1>2. [CurationNext]_curationVars =>
        /\ [PreparationNext]_preparationVars
        /\ [AdjudicationNext]_adjudicationVars
        /\ [ReleaseNext]_releaseVars
  BY DEF CurationNext, curationVars
<1> QED
  BY <1>1, <1>2, PTL DEF CurationSpec, PreparationSpec, AdjudicationSpec, ReleaseSpec

\* Every part of the state keeps its type when the parts run side by side.
THEOREM CurationTypeCorrect == CurationSpec => []TypeOK
<1>1. PreparationTypeOK /\ AdjudicationTypeOK /\ ReleaseTypeOK => TypeOK
  BY DEF TypeOK
<1> QED
  BY <1>1, PartsAreIndependent, PreparationTypeCorrect, AdjudicationTypeCorrect,
     ReleaseTypeCorrect, PTL

\* What the tools of curation promise, together and in every state: canonical
\* files are snapshots, reviewers see the conflicts they are asked about, batches
\* of candidates stay apart, unraced decisions stand, and a release names files
\* that were together on disk and rows that a logged review accepts.
THEOREM CurationIsSafe ==
  CurationSpec => [](/\ CanonicalIsSnapshot /\ ReviewersSeeConflicts /\ CandidatesApart
                     /\ DecisionsStand /\ DescribedTogether /\ ReleasedIsAccepted)
  BY PartsAreIndependent, PublishedIsSnapshot, ConflictsReachReviewers, CandidatesStayApart,
     LoneDecisionsStand, FilesAreDescribedTogether, ReleasesAreAccepted, PTL

==============================================================================
