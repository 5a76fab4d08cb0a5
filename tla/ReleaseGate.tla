------------------------------ MODULE ReleaseGate ------------------------------
(***************************************************************************)
(* release_contract: `release build` reads the human reviews, describes    *)
(* the dataset files one by one, reads them all again, and writes a        *)
(* manifest if every row is an episode that a logged review admits;        *)
(* `release validate` does the second half for a manifest.  Dataset files  *)
(* are edited and reviews are logged meanwhile.                            *)
(***************************************************************************)
EXTENDS Naturals, Sequences, SequencesExt

CONSTANTS FileCount,   \* files of the dataset, in the order of their paths
          Contents,    \* the rows (episodes) of every version of each file
          Verdicts,    \* verdicts in the evidence file
          EpisodeOf,   \* the episode each verdict is about
          EpisodeRank, \* the order of episode ids
          MemberLists  \* gold member files operators write

Files == 1..FileCount
GoldEpisodes == DOMAIN EpisodeRank
Reviews == [verdict : Verdicts, decision : {"accept_for_gold", "reject"}]
Members == [episode : GoldEpisodes, verdict : Verdicts, review : Reviews]
Versions == [Files -> Nat]
Manifests == [files : Versions, members : Seq(Members)]

ASSUME ReleaseAssumption ==
  /\ FileCount \in Nat \ {0}
  /\ \A f \in Files : Contents[f] \in Seq(Seq(GoldEpisodes)) /\ Contents[f] # <<>>
  /\ EpisodeOf \in [Verdicts -> GoldEpisodes]
  /\ EpisodeRank \in [GoldEpisodes -> Nat]
  /\ MemberLists \subseteq Seq(Members)

VARIABLES
  version,   \* the version each file is in
  log,       \* reviews in the log
  phase,     \* the running command: "idle", "describe" or "check"
  members,   \* its gold members
  known,     \* the reviews it has read
  described, \* the version of each file in its manifest, 0 if not yet described
  position,  \* the file it reads next
  moments,   \* history: what the dataset has been since it started
  manifests, \* manifests written
  reports    \* history: manifests reported good, with what the command went by

command == <<phase, members, known, described, position>>
releaseVars == <<version, log, command, moments, manifests, reports>>

Manifest == [files |-> described, members |-> members]

ReleaseTypeOK ==
  /\ version \in Versions
  /\ \A f \in Files : version[f] \in DOMAIN Contents[f]
  /\ log \subseteq Reviews /\ known \subseteq log
  /\ phase \in {"idle", "describe", "check"}
  /\ members \in Seq(Members)
  /\ described \in Versions
  /\ position \in 1..FileCount + 1
  /\ moments \subseteq Versions
  /\ manifests \subseteq Manifests
  /\ reports \subseteq [manifest : manifests, known : SUBSET log, moments : SUBSET Versions]

Undescribed == [f \in Files |-> 0]

ReleaseInit ==
  /\ version = [f \in Files |-> 1]
  /\ log = {} /\ known = {}
  /\ phase = "idle"
  /\ members = <<>>
  /\ described = Undescribed
  /\ position = 1
  /\ moments = {}
  /\ manifests = {} /\ reports = {}

------------------------------------------------------------------------------
\* The environment.

\* An edit never restores the bytes of an earlier version.
EditFile(f) ==
  /\ version[f] + 1 \in DOMAIN Contents[f]
  /\ version' = [version EXCEPT ![f] = @ + 1]
  /\ moments' = IF phase = "idle" THEN moments ELSE moments \cup {version'}
  /\ UNCHANGED <<log, command, manifests, reports>>

\* HumanEvaluationReviewLog.read_verified does not raise.
LogReadable == \A r, s \in log : r.verdict = s.verdict => r = s

\* One review of a verdict; appends that overlap may log two (ReviewLog), after
\* which no append succeeds.
SubmitReview(r) ==
  /\ LogReadable
  /\ log' = log \cup {r}
  /\ UNCHANGED <<version, command, moments, manifests, reports>>

------------------------------------------------------------------------------
\* What a manifest must be.

ReleasedRows == FlattenSeq([f \in Files |-> Contents[f][described[f]]])

\* _read_gold_members and the validators of ReleaseManifest.
Ordered(list) ==
  \A i, j \in DOMAIN list : i < j =>
    EpisodeRank[list[i].episode] < EpisodeRank[list[j].episode]
WellFormed ==
  /\ \A i, j \in DOMAIN members : members[i].review = members[j].review => i = j
  /\ Len(ReleasedRows) = Len(members)

\* (mutant) The verdict may be that of another episode.
AdmittedByAny(member) ==
  /\ member.review \in known
  /\ member.review.verdict = member.verdict
  /\ member.review.decision = "accept_for_gold"

\* _validate_gold_membership; the acceptance of the verdict is computed from the
\* same reviews.
Admitted(member) ==
  /\ EpisodeOf[member.verdict] = member.episode
  /\ member.review \in known
  /\ member.review.verdict = member.verdict
  /\ member.review.decision = "accept_for_gold"

Releasable ==
  /\ ReleasedRows = [i \in DOMAIN members |-> members[i].episode]
  /\ \A i \in DOMAIN members : Admitted(members[i])

------------------------------------------------------------------------------
\* The commands.

\* Members and file versions are those of the input, the reviews those logged.
Begin(list, files) ==
  /\ members' = list
  /\ known' = log
  /\ described' = files
  /\ position' = 1
  /\ moments' = {version}
  /\ UNCHANGED <<version, log, manifests, reports>>

StartBuild(list) ==
  /\ phase = "idle"
  /\ LogReadable /\ Ordered(list)
  /\ phase' = "describe"
  /\ Begin(list, Undescribed)

\* The command takes any manifest whose hash is its own; only those of a build are
\* modelled.  One made otherwise is not described first, only checked file by file.
StartValidate(manifest) ==
  /\ phase = "idle"
  /\ LogReadable
  /\ phase' = "check"
  /\ Begin(manifest.members, manifest.files)

\* _describe_dataset_file
Describe ==
  /\ phase = "describe"
  /\ position \in Files
  /\ described' = [described EXCEPT ![position] = version[position]]
  /\ position' = position + 1
  /\ UNCHANGED <<version, log, phase, members, known, moments, manifests, reports>>

\* (mutant) The files are not read a second time.
AssembleOnce ==
  /\ phase = "describe"
  /\ position \notin Files
  /\ WellFormed
  /\ phase' = "check"
  /\ UNCHANGED <<version, log, members, known, described, position, moments, manifests, reports>>

\* The manifest in memory.
Assemble ==
  /\ phase = "describe"
  /\ position \notin Files
  /\ WellFormed
  /\ phase' = "check"
  /\ position' = 1
  /\ UNCHANGED <<version, log, members, known, described, moments, manifests, reports>>

\* validate_release_manifest, for one file.
CheckFile ==
  /\ phase = "check"
  /\ position \in Files
  /\ version[position] = described[position]
  /\ position' = position + 1
  /\ UNCHANGED <<version, log, phase, members, known, described, moments, manifests, reports>>

\* The command ends and forgets.
End ==
  /\ phase' = "idle"
  /\ members' = <<>>
  /\ known' = {}
  /\ described' = Undescribed
  /\ position' = 1
  /\ moments' = {}
  /\ UNCHANGED <<version, log>>

\* A build writes the manifest, a validation has read it.
Report ==
  /\ phase = "check"
  /\ position \notin Files
  /\ Releasable
  /\ manifests' = manifests \cup {Manifest}
  /\ reports' = reports \cup {[manifest |-> Manifest, known |-> known, moments |-> moments]}
  /\ End

RefuseRelease ==
  /\ \/ phase = "describe" /\ position \notin Files /\ ~WellFormed
     \/ phase = "check" /\ position \in Files /\ version[position] # described[position]
     \/ phase = "check" /\ position \notin Files /\ ~Releasable
  /\ End
  /\ UNCHANGED <<manifests, reports>>

\* A crash, or a file that changes between its two hashes: refused.
CrashRelease ==
  /\ phase # "idle"
  /\ End
  /\ UNCHANGED <<manifests, reports>>

ReleaseNext ==
  \/ \E f \in Files : EditFile(f)
  \/ \E r \in Reviews : SubmitReview(r)
  \/ \E list \in MemberLists : StartBuild(list)
  \/ \E manifest \in manifests : StartValidate(manifest)
  \/ Describe
  \/ Assemble
  \/ CheckFile
  \/ Report
  \/ RefuseRelease
  \/ CrashRelease

ReleaseSpec == ReleaseInit /\ [][ReleaseNext]_releaseVars

------------------------------------------------------------------------------

\* Files are read one at a time and edited in between, yet the versions a report
\* is about have all been in the dataset at one moment of its command: a
\* manifest never names a mixture that never existed.
DescribedTogether == \A report \in reports : report.manifest.files \in report.moments

Accepted(released, files, reviews) ==
  /\ [i \in DOMAIN released |-> released[i].episode] =
       FlattenSeq([f \in Files |-> Contents[f][files[f]]])
  /\ \A i, j \in DOMAIN released :
       released[i].episode = released[j].episode \/ released[i].review = released[j].review
         => i = j
  /\ \A i \in DOMAIN released :
       /\ EpisodeOf[released[i].verdict] = released[i].episode
       /\ {r \in reviews : r.verdict = released[i].verdict}
            = {[verdict |-> released[i].verdict, decision |-> "accept_for_gold"]}

\* Each row of a reported release is the episode of a member of its own, whose
\* verdict on that episode was accepted by a logged human review, shared with no
\* other row and contradicted by no other review in the log that was read.
ReleasedIsAccepted ==
  \A report \in reports :
    Accepted(report.manifest.members, report.manifest.files, report.known)

==============================================================================
