---------------------------- MODULE DataPreparation ----------------------------
(***************************************************************************)
(* From source files to candidates: a pilot takes a snapshot of a source   *)
(* file, ingests and canonicalises it line by line and publishes canonical *)
(* episodes, their audit, the rows it has rejected and a report; audits    *)
(* over several canonical files are made (`audit duplicates`), worklists   *)
(* for reviewers are made of audits and rejected rows (`review prepare`),  *)
(* and batches (`automation plan`) and canaries (`canary prepare`) are     *)
(* drawn from canonical files under audits the operator names.  Source     *)
(* files are edited all the while; what has been published is not.  Rows   *)
(* that cannot be parsed are left out: nobody reads the file they go to.   *)
(***************************************************************************)
EXTENDS Naturals, Sequences, FiniteSetsExt

CONSTANTS Sources,    \* source files, numbered in the order of their namespaces
          Text,       \* the rows of every version of each source file
          Rejected,   \* rows that cannot be made episodes
          Context, Behaviour, Segments, \* of the other rows
          Order,      \* hash orders of episode ids: "id", "candidate" and "canary"
          Caps, Offsets, Counts, Budgets, \* values operators choose
          MaxAudits, MaxDrawn \* bounds: published audits; batches and canaries

Snapshots == UNION {{s} \X DOMAIN Text[s] : s \in Sources}
EpisodeIds == UNION {{<<v[1], v[2], n>> : n \in DOMAIN Text[v[1]][v[2]]} : v \in Snapshots}
Rows == {Text[e[1]][e[2]][e[3]] : e \in EpisodeIds}

\* There are finitely many rows, and each source file is there from the start; a
\* hash order puts no two episode ids in the same place.
ASSUME PreparationAssumption ==
  /\ Sources \subseteq Nat
  /\ \A s \in Sources : Text[s] \in Seq(Seq(Rows)) /\ Text[s] # <<>>
  /\ IsFiniteSet(EpisodeIds)
  /\ \A k \in {"id", "candidate", "canary"} : \A e, f \in EpisodeIds :
       Order[k][e] \in Nat /\ (Order[k][e] = Order[k][f] => e = f)
  /\ Caps \cup Offsets \cup Counts \cup Budgets \subseteq Nat

VARIABLES
  file,      \* the version each source file is in
  stage,     \* the pilot: "none", "verify", "read", "verify_again" or "publish"
  snapshot,  \* the source and version it has registered
  lines,     \* the rows it has read
  canonical, \* published canonical files
  audits,    \* published audits: the episodes they cover
  quarantines, \* published files of rejected rows
  pilots,    \* published pilot reports
  worklists, \* published review queues
  batches,   \* published candidate manifests
  canaries   \* published canary manifests

pilot == <<stage, snapshot, lines>>
pilotFiles == <<canonical, audits, quarantines, pilots>>
drawn == <<worklists, batches, canaries>>
preparationVars == <<file, pilot, pilotFiles, drawn>>

Survivors == [id : EpisodeIds, row : Rows \ Rejected]
Draws == [files : SUBSET canonical, audits : SUBSET audits, members : Seq(Survivors)]

PreparationTypeOK ==
  /\ file \in [Sources -> Nat] /\ \A s \in Sources : file[s] \in DOMAIN Text[s]
  /\ stage \in {"none", "verify", "read", "verify_again", "publish"}
  /\ snapshot \in Snapshots \cup {<<>>}
  /\ lines \in Seq(Rows)
  /\ canonical \subseteq [snapshot : Snapshots, episodes : SUBSET Survivors]
  /\ audits \subseteq SUBSET Survivors
  /\ quarantines \subseteq [snapshot : Snapshots, rejects : SUBSET EpisodeIds]
  /\ pilots \subseteq Snapshots
  /\ \A w \in worklists : w.audits \subseteq audits /\ w.quarantines \subseteq quarantines
  /\ \A d \in batches \cup canaries :
       [files |-> d.files, audits |-> d.audits, members |-> d.members] \in Draws

PreparationInit ==
  /\ file = [s \in Sources |-> 1]
  /\ stage = "none" /\ snapshot = <<>> /\ lines = <<>>
  /\ canonical = {} /\ audits = {} /\ quarantines = {} /\ pilots = {}
  /\ worklists = {} /\ batches = {} /\ canaries = {}

------------------------------------------------------------------------------
\* The pilot.

\* An edit never restores the bytes of an earlier version.
EditSource(s) ==
  /\ file[s] + 1 \in DOMAIN Text[s]
  /\ file' = [file EXCEPT ![s] = @ + 1]
  /\ UNCHANGED <<pilot, pilotFiles, drawn>>

\* register_source
RegisterSource(s) ==
  /\ stage = "none"
  /\ stage' = "verify"
  /\ snapshot' = <<s, file[s]>>
  /\ UNCHANGED <<file, lines, pilotFiles, drawn>>

\* (mutant) Only the number of records is compared.
UnchangedCount ==
  Len(Text[snapshot[1]][file[snapshot[1]]]) = Len(Text[snapshot[1]][snapshot[2]])

\* _verify_file, and the comparison with a second registration.
Unchanged == file[snapshot[1]] = snapshot[2]

VerifyFile ==
  /\ stage = "verify"
  /\ Unchanged
  /\ stage' = "read"
  /\ UNCHANGED <<file, snapshot, lines, pilotFiles, drawn>>

\* Depending on when and how the file is edited, the next line is that of any
\* version since the snapshot.
Readable == snapshot[2]..file[snapshot[1]]

ReadLine ==
  /\ stage = "read"
  /\ \E v \in Readable :
       /\ Len(lines) + 1 \in DOMAIN Text[snapshot[1]][v]
       /\ lines' = Append(lines, Text[snapshot[1]][v][Len(lines) + 1])
  /\ UNCHANGED <<file, stage, snapshot, pilotFiles, drawn>>

EndOfFile ==
  /\ stage = "read"
  /\ \E v \in Readable : Len(lines) >= Len(Text[snapshot[1]][v])
  /\ stage' = "verify_again"
  /\ UNCHANGED <<file, snapshot, lines, pilotFiles, drawn>>

\* The whole file has been read and is what it was.
VerifyAgain ==
  /\ stage = "verify_again"
  /\ Unchanged
  /\ Len(lines) = Len(Text[snapshot[1]][snapshot[2]])
  /\ stage' = "publish"
  /\ UNCHANGED <<file, snapshot, lines, pilotFiles, drawn>>

\* What is read at one line is an occurrence of its own, whatever the row says.
Occurrences(s, v, rows) == {[id |-> <<s, v, n>>, row |-> rows[n]] : n \in DOMAIN rows}

\* (mutant) Quarantined rows are published with the others.
CanonicalisedAll(occurrences) == occurrences

Canonicalised(occurrences) == {e \in occurrences : e.row \notin Rejected}
EpisodesOf(files) == UNION {c.episodes : c \in files}

PilotEnds == stage' = "none" /\ snapshot' = <<>> /\ lines' = <<>>

RejectsOf(occurrences) == {e.id : e \in {f \in occurrences : f.row \in Rejected}}

PilotOrder == [canonical |-> 1, audit |-> 2, quarantine |-> 3, report |-> 4]

\* The files are published one after the other, while the process lives.  No
\* file is published for no episodes, or for no rejected rows.
PublishPilot ==
  LET rows == Occurrences(snapshot[1], snapshot[2], lines)
      episodes == Canonicalised(rows)
      rejects == RejectsOf(rows)
  IN
  /\ stage = "publish"
  /\ Unchanged
  /\ \E last \in 1..4 :
       /\ canonical' = IF PilotOrder.canonical <= last /\ episodes # {}
                       THEN canonical \cup {[snapshot |-> snapshot, episodes |-> episodes]}
                       ELSE canonical
       /\ audits' = IF PilotOrder.audit <= last /\ episodes # {}
                    THEN audits \cup {episodes} ELSE audits
       /\ quarantines' = IF PilotOrder.quarantine <= last /\ rejects # {}
                         THEN quarantines \cup {[snapshot |-> snapshot, rejects |-> rejects]}
                         ELSE quarantines
       /\ pilots' = IF PilotOrder.report <= last THEN pilots \cup {snapshot} ELSE pilots
  /\ PilotEnds
  /\ UNCHANGED <<file, drawn>>

\* Refused, or crashed before it has published anything.
AbandonPilot ==
  /\ stage # "none"
  /\ PilotEnds
  /\ UNCHANGED <<file, pilotFiles, drawn>>

------------------------------------------------------------------------------
\* Audits.

AuditDuplicates(files) ==
  /\ Cardinality(audits) < MaxAudits
  /\ audits' = audits \cup {EpisodesOf(files)}
  /\ UNCHANGED <<file, pilot, canonical, quarantines, pilots, drawn>>

\* Two behaviours in one context, with all episodes that show either.
Candidate(audit, context, behaviours) ==
  [context |-> context, behaviours |-> behaviours,
   members |-> {e \in audit : Context[e.row] = context /\ Behaviour[e.row] \in behaviours}]
Candidates(audit) ==
  {Candidate(audit, Context[p[1].row], {Behaviour[p[1].row], Behaviour[p[2].row]}) :
     p \in {q \in audit \X audit : /\ Context[q[1].row] = Context[q[2].row]
                                   /\ Behaviour[q[1].row] # Behaviour[q[2].row]}}

\* _conflicted_ids
Conflicted(audit) == UNION {c.members : c \in Candidates(audit)}

\* _alias_ids: the same behaviour in the same context, and not the first.
Aliases(audit) ==
  {e \in audit : \E f \in audit :
     /\ Context[e.row] = Context[f.row] /\ Behaviour[e.row] = Behaviour[f.row]
     /\ Order["id"][f.id] < Order["id"][e.id]}

\* (mutant) The audits are taken to agree.
ExcludedByAll(chosen) ==
  {e \in UNION chosen : \A audit \in chosen : e \in Conflicted(audit) \cup Aliases(audit)}

Excluded(chosen) == UNION {Conflicted(audit) \cup Aliases(audit) : audit \in chosen}

------------------------------------------------------------------------------
\* Worklists for reviewers.

\* The identity of a conflict leaves out its members.
SameConflict(c, d) == c.context = d.context /\ c.behaviours = d.behaviours

\* (mutant) One candidate of each conflict is enough.
AgreeOnFirst(candidates) == TRUE

\* build_review_tasks refuses audits that list a conflict with other members.
Agree(candidates) == \A c, d \in candidates : SameConflict(c, d) => c = d

\* One task for each rejected row and each conflict.
PrepareReview(chosen, files) ==
  LET candidates == UNION {Candidates(audit) : audit \in chosen} IN
  /\ Agree(candidates)
  /\ \E tasks \in SUBSET candidates :
       /\ \A c \in candidates : \E d \in tasks : SameConflict(c, d)
       /\ \A c, d \in tasks : SameConflict(c, d) => c = d
       /\ worklists' = worklists \cup
            {[audits |-> chosen, quarantines |-> files, conflicts |-> tasks,
              rejects |-> UNION {q.rejects : q \in files}]}
  /\ UNCHANGED <<file, pilot, pilotFiles, batches, canaries>>

------------------------------------------------------------------------------
\* Batches and canaries.

\* The first episodes of each canonical file, which are in the order of their lines.
Window(files, cap) ==
  UNION {{e \in c.episodes :
            Cardinality({f \in c.episodes : f.id[3] <= e.id[3]}) <= cap} : c \in files}

Eligible(episodes, chosen) == {e \in episodes \ Excluded(chosen) : Segments[e.row] > 0}

\* The members of a set, each after those that come before it.
Sorted(set, before) ==
  [n \in 1..Cardinality(set) |->
     CHOOSE e \in set : Cardinality({f \in set : <<f, e>> \in before}) = n - 1]

HashOrder(kind, episodes) ==
  {p \in episodes \X episodes : Order[kind][p[1].id] < Order[kind][p[2].id]}

\* How many episodes of its namespace an episode is not after.
Depth(e, episodes) ==
  Cardinality({f \in episodes : /\ f.id[1] = e.id[1]
                                /\ Order["candidate"][f.id] <= Order["candidate"][e.id]})

\* select_automation_candidates: the n-th episodes of all namespaces come before
\* the next ones of any.
RoundRobin(episodes) ==
  {p \in episodes \X episodes :
     \/ Depth(p[1], episodes) < Depth(p[2], episodes)
     \/ Depth(p[1], episodes) = Depth(p[2], episodes) /\ p[1].id[1] < p[2].id[1]}
Stratified(episodes) == Sorted(episodes, RoundRobin(episodes))

SegmentTotal(episodes) == MapThenSumSet(LAMBDA e : Segments[e.row], episodes)

\* Refused when the stream is too short or its slice over the budget.
Plan(files, chosen) ==
  \E cap \in Caps : \E stream \in {Stratified(Eligible(Window(files, cap), chosen))} :
    \E offset \in Offsets, count \in Counts, budget \in Budgets :
      LET members == SubSeq(stream, offset + 1, offset + count) IN
      /\ offset + count <= Len(stream)
      /\ SegmentTotal({members[n] : n \in 1..count}) <= budget
      /\ batches' = batches \cup
           {[files |-> files, audits |-> chosen, cap |-> cap, offset |-> offset,
             count |-> count, members |-> members]}
      /\ UNCHANGED <<file, pilot, pilotFiles, worklists, canaries>>

\* select_pre_review_canary: an episode is selected unless there are enough
\* before it, or it would exceed the budget; later ones are looked at even so.
Selection(selected, episodes, count, budget) ==
  \A e \in episodes :
    LET earlier == {f \in selected : Order["canary"][f.id] < Order["canary"][e.id]} IN
    e \in selected <=> /\ Cardinality(earlier) < count
                      /\ SegmentTotal(earlier \cup {e}) <= budget

PrepareCanary(files, chosen) ==
  \E episodes \in {Eligible(EpisodesOf(files), chosen)}, count \in Counts, budget \in Budgets :
    \E selected \in SUBSET episodes :
      /\ Selection(selected, episodes, count, budget)
      /\ Cardinality(selected) = count
      /\ canaries' = canaries \cup
           {[files |-> files, audits |-> chosen,
             members |-> Sorted(selected, HashOrder("canary", selected))]}
      /\ UNCHANGED <<file, pilot, pilotFiles, worklists, batches>>

Draw(files, chosen) ==
  /\ Cardinality(batches) + Cardinality(canaries) < MaxDrawn
  /\ Plan(files, chosen) \/ PrepareCanary(files, chosen)

PreparationNext ==
  \/ \E s \in Sources : EditSource(s) \/ RegisterSource(s)
  \/ VerifyFile
  \/ ReadLine
  \/ EndOfFile
  \/ VerifyAgain
  \/ PublishPilot
  \/ AbandonPilot
  \/ \E files \in SUBSET canonical \ {{}} : AuditDuplicates(files)
  \/ \E chosen \in SUBSET audits, files \in SUBSET quarantines :
       (chosen # {} \/ files # {}) /\ PrepareReview(chosen, files)
  \/ \E files \in SUBSET canonical \ {{}}, chosen \in SUBSET audits \ {{}} : Draw(files, chosen)

PreparationSpec == PreparationInit /\ [][PreparationNext]_preparationVars

------------------------------------------------------------------------------

\* A source file may be edited at any point while it is read line by line, yet
\* what a pilot publishes under a snapshot is that version of the file and no
\* mixture of versions; and when its report is out, whatever runs have crashed
\* before, each row of that version is in a published file: as an episode or as
\* a rejected row.
CanonicalIsSnapshot ==
  LET rows(v) == Occurrences(v[1], v[2], Text[v[1]][v[2]]) IN
  /\ \A c \in canonical : c.episodes = Canonicalised(rows(c.snapshot))
  /\ \A v \in pilots : \A e \in rows(v) :
       \/ \E c \in canonical : c.snapshot = v /\ e \in c.episodes
       \/ \E q \in quarantines : q.snapshot = v /\ e.id \in q.rejects

\* Audits of different files see different members of one conflict.  Yet an
\* episode that a batch may not contain because of a conflict in some audit is
\* named by a task of every worklist made of that audit: nothing a batch leaves
\* out is hidden from the reviewers.
ReviewersSeeConflicts ==
  \A w \in worklists : \A audit \in w.audits : \A e \in Conflicted(audit) :
    \E c \in w.conflicts : c.context = Context[e.row] /\ e \in c.members

\* Batches drawn from the same files under the same audits and row cap have no
\* episode in common if their windows do not overlap; and if one of the audits
\* covers all that a batch or canary is drawn from, no two of its members
\* present the same context.
CandidatesApart ==
  /\ \A b, c \in batches :
       /\ <<b.files, b.audits, b.cap>> = <<c.files, c.audits, c.cap>>
       /\ b.offset + b.count <= c.offset
       => \A i \in DOMAIN b.members, j \in DOMAIN c.members : b.members[i] # c.members[j]
  /\ \A d \in batches \cup canaries :
       (\E audit \in d.audits : EpisodesOf(d.files) \subseteq audit) =>
         \A i, j \in DOMAIN d.members :
           Context[d.members[i].row] = Context[d.members[j].row] => i = j

==============================================================================
