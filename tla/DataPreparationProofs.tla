------------------------ MODULE DataPreparationProofs ------------------------
(***************************************************************************)
(* Data preparation for every number of source files, every sequence of    *)
(* edits and whatever audits, files and sizes the operators choose.        *)
(***************************************************************************)
EXTENDS DataPreparation, FiniteSetTheorems, FunctionTheorems, TLAPS

\* A strict total order of a set.
Orders(before, set) ==
  /\ \A e \in set : <<e, e>> \notin before
  /\ \A e, f \in set : e = f \/ <<e, f>> \in before \/ <<f, e>> \in before
  /\ \A e, f, g \in set : <<e, f>> \in before /\ <<f, g>> \in before => <<e, g>> \in before

\* An episode is known by its id.
Identified(episodes) ==
  /\ \A e \in episodes : e.id \in EpisodeIds
  /\ \A e, f \in episodes : e.id = f.id => e = f

\* What a pilot has read, line by line, is from versions of one source since its
\* snapshot; what it publishes has the snapshot's length.
Reading ==
  IF stage = "none" THEN lines = <<>>
  ELSE /\ snapshot \in Snapshots /\ snapshot[2] <= file[snapshot[1]]
       /\ \A n \in DOMAIN lines : \E v \in Readable :
            n \in DOMAIN Text[snapshot[1]][v] /\ lines[n] = Text[snapshot[1]][v][n]
       /\ stage = "publish" => Len(lines) = Len(Text[snapshot[1]][snapshot[2]])

\* A worklist has every conflict of every audit it was made of, with that audit's
\* members.
ConflictsListed ==
  \A w \in worklists : \A audit \in w.audits : Candidates(audit) \subseteq w.conflicts

Slice(stream, offset, count) == SubSeq(stream, offset + 1, offset + count)

\* A batch is a slice of the stream its inputs determine, a canary a selection.
BatchDrawn(b) ==
  LET stream == Stratified(Eligible(Window(b.files, b.cap), b.audits)) IN
  /\ b.offset \in Nat /\ b.count \in Nat
  /\ b.offset + b.count <= Len(stream)
  /\ b.members = Slice(stream, b.offset, b.count)
CanaryDrawn(d) ==
  \E selected \in SUBSET Eligible(EpisodesOf(d.files), d.audits) :
    d.members = Sorted(selected, HashOrder("canary", selected))
Drawn == (\A b \in batches : BatchDrawn(b)) /\ (\A d \in canaries : CanaryDrawn(d))

PreparationInv ==
  PreparationTypeOK /\ Reading /\ CanonicalIsSnapshot /\ ConflictsListed /\ Drawn

------------------------------------------------------------------------------
\* Sorting.

\* Sorting a finite set lists each member exactly once.
LEMMA SortedLists ==
  ASSUME NEW set, IsFiniteSet(set), NEW before, Orders(before, set)
  PROVE  /\ Sorted(set, before) \in Seq(set)
         /\ Len(Sorted(set, before)) = Cardinality(set)
         /\ \A i, j \in 1..Cardinality(set) :
              Sorted(set, before)[i] = Sorted(set, before)[j] => i = j
<1> DEFINE N == Cardinality(set)
           Below(e) == {f \in set : <<f, e>> \in before}
           rank == [e \in set |-> Cardinality(Below(e))]
<1>1. N \in Nat
  BY FS_CardinalityType
<1>2. ASSUME NEW e \in set
      PROVE  IsFiniteSet(Below(e)) /\ rank[e] \in 0..N - 1
  <2>1. e \notin Below(e) /\ Below(e) \in SUBSET set
    BY DEF Orders
  <2>2. /\ IsFiniteSet(Below(e))
        /\ Cardinality(Below(e)) <= N
        /\ N = Cardinality(Below(e)) => set = Below(e)
    BY <2>1, FS_Subset
  <2>3. Cardinality(Below(e)) \in Nat
    BY <2>2, FS_CardinalityType
  <2> QED
    BY <1>1, <2>1, <2>2, <2>3
<1>3. ASSUME NEW e \in set, NEW f \in set, <<e, f>> \in before
      PROVE  rank[e] # rank[f]
  <2>1. Below(e) \in SUBSET Below(f)
    BY <1>3 DEF Orders
  <2>2. e \in Below(f) /\ e \notin Below(e)
    BY <1>3 DEF Orders
  <2>3. Cardinality(Below(f)) # Cardinality(Below(e))
    BY <1>2, <2>1, <2>2, FS_Subset
  <2> QED
    BY <2>3
<1>4. rank \in [set -> 0..N - 1]
  BY <1>2
<1>5. \A e, f \in set : rank[e] = rank[f] => e = f
  BY <1>3 DEF Orders
<1>6. rank \in Injection(set, 0..N - 1)
  BY <1>4, <1>5, Fun_IsInj
<1>7. IsFiniteSet(0..N - 1) /\ Cardinality(0..N - 1) = N
  BY <1>1, FS_Interval
<1>8. rank \in Surjection(set, 0..N - 1)
  BY <1>6, <1>7, FS_Injection
<1>9. \A n \in 0..N - 1 : \E e \in set : rank[e] = n
  <2> HIDE DEF rank
  <2> QED
    BY <1>8 DEF Surjection
<1>10. ASSUME NEW n \in 1..N
       PROVE  Sorted(set, before)[n] \in set /\ rank[Sorted(set, before)[n]] = n - 1
  <2>1. n - 1 \in 0..N - 1
    BY <1>1
  <2>2. PICK e \in set : Cardinality(Below(e)) = n - 1
    BY <1>9, <2>1
  <2>3. Sorted(set, before)[n] = CHOOSE d \in set : Cardinality(Below(d)) = n - 1
    BY DEF Sorted
  <2> QED
    BY <2>2, <2>3
<1>11. Sorted(set, before) \in [1..N -> set]
  BY <1>10 DEF Sorted
<1> HIDE DEF N, rank
<1> QED
  BY <1>1, <1>10, <1>11 DEF N

\* A hash order is an order of any episodes.
LEMMA HashOrders ==
  ASSUME NEW kind \in {"id", "candidate", "canary"}, NEW episodes, Identified(episodes)
  PROVE  Orders(HashOrder(kind, episodes), episodes)
<1> DEFINE Place(e) == Order[kind][e.id]
<1>1. \A e \in episodes : Place(e) \in Nat
  BY PreparationAssumption DEF Identified
<1>2. \A e, f \in episodes : Place(e) = Place(f) => e = f
  BY PreparationAssumption DEF Identified
<1>3. \A e, f \in episodes : <<e, f>> \in HashOrder(kind, episodes) <=> Place(e) < Place(f)
  BY DEF HashOrder
<1> HIDE DEF Place
<1> QED
  BY <1>1, <1>2, <1>3 DEF Orders

\* Of two episodes of a namespace the later one is deeper.
LEMMA DepthGrows ==
  ASSUME NEW episodes, IsFiniteSet(episodes), Identified(episodes),
         NEW e \in episodes, NEW f \in episodes, e.id[1] = f.id[1],
         Order["candidate"][e.id] < Order["candidate"][f.id]
  PROVE  Depth(e, episodes) # Depth(f, episodes)
<1> DEFINE Place(d) == Order["candidate"][d.id]
           Upto(d) == {c \in episodes : c.id[1] = d.id[1] /\ Place(c) <= Place(d)}
<1>1. \A d \in episodes : Place(d) \in Nat
  BY PreparationAssumption DEF Identified
<1>2. Place(e) < Place(f)
  OBVIOUS
<1>3. Upto(e) \in SUBSET Upto(f) /\ f \in Upto(f) /\ f \notin Upto(e)
  <2> HIDE DEF Place
  <2> QED
    BY <1>1, <1>2
<1>4. IsFiniteSet(Upto(f))
  BY FS_Subset
<1>5. Cardinality(Upto(f)) # Cardinality(Upto(e))
  <2> HIDE DEF Upto
  <2> QED
    BY <1>3, <1>4, FS_Subset
<1> QED
  BY <1>5 DEF Depth

\* The round robin over the namespaces is an order.
LEMMA RoundRobinOrders ==
  ASSUME NEW episodes, IsFiniteSet(episodes), Identified(episodes)
  PROVE  Orders(RoundRobin(episodes), episodes)
<1> DEFINE D(e) == Depth(e, episodes)
           Namespace(e) == e.id[1]
<1>1. ASSUME NEW e \in episodes PROVE D(e) \in Nat
  <2> DEFINE Upto == {f \in episodes : /\ f.id[1] = e.id[1]
                                       /\ Order["candidate"][f.id] <= Order["candidate"][e.id]}
  <2>1. IsFiniteSet(Upto)
    BY FS_Subset
  <2>2. Cardinality(Upto) \in Nat
    BY <2>1, FS_CardinalityType
  <2> QED
    BY <2>2 DEF Depth
<1>2. ASSUME NEW e \in episodes PROVE Namespace(e) \in Nat
  BY PreparationAssumption DEF Identified, EpisodeIds, Snapshots
<1>3. ASSUME NEW e \in episodes, NEW f \in episodes, D(e) = D(f), Namespace(e) = Namespace(f)
      PROVE  e = f
  <2>1. Order["candidate"][e.id] \in Nat /\ Order["candidate"][f.id] \in Nat
    BY PreparationAssumption DEF Identified
  <2>2. ~(Order["candidate"][e.id] < Order["candidate"][f.id])
    BY <1>3, DepthGrows
  <2>3. ~(Order["candidate"][f.id] < Order["candidate"][e.id])
    BY <1>3, DepthGrows
  <2>4. e.id = f.id
    BY <2>1, <2>2, <2>3, PreparationAssumption DEF Identified
  <2> QED
    BY <2>4 DEF Identified
<1>4. \A e, f \in episodes :
        <<e, f>> \in RoundRobin(episodes) <=>
          \/ D(e) < D(f)
          \/ D(e) = D(f) /\ Namespace(e) < Namespace(f)
  <2> SUFFICES ASSUME NEW e \in episodes, NEW f \in episodes
               PROVE  <<e, f>> \in RoundRobin(episodes) <=>
                        \/ D(e) < D(f)
                        \/ D(e) = D(f) /\ Namespace(e) < Namespace(f)
    OBVIOUS
  <2>1. <<e, f>> \in episodes \X episodes /\ <<e, f>>[1] = e /\ <<e, f>>[2] = f
    OBVIOUS
  <2> QED
    BY <2>1, Zenon DEF RoundRobin
<1> HIDE DEF D, Namespace
<1>5. \A e \in episodes : <<e, e>> \notin RoundRobin(episodes)
  BY <1>1, <1>2, <1>4
<1>6. ASSUME NEW e \in episodes, NEW f \in episodes, e # f
      PROVE  <<e, f>> \in RoundRobin(episodes) \/ <<f, e>> \in RoundRobin(episodes)
  <2>1. /\ D(e) \in Nat /\ D(f) \in Nat
        /\ Namespace(e) \in Nat /\ Namespace(f) \in Nat
    BY <1>1, <1>2
  <2>2. D(e) # D(f) \/ Namespace(e) # Namespace(f)
    BY <1>3, <1>6
  <2> QED
    BY <1>4, <2>1, <2>2
<1>7. ASSUME NEW e \in episodes, NEW f \in episodes, NEW g \in episodes,
             <<e, f>> \in RoundRobin(episodes), <<f, g>> \in RoundRobin(episodes)
      PROVE  <<e, g>> \in RoundRobin(episodes)
  <2>1. /\ D(e) \in Nat /\ D(f) \in Nat /\ D(g) \in Nat
        /\ Namespace(e) \in Nat /\ Namespace(f) \in Nat /\ Namespace(g) \in Nat
    BY <1>1, <1>2
  <2>2. D(e) < D(f) \/ (D(e) = D(f) /\ Namespace(e) < Namespace(f))
    BY <1>4, <1>7
  <2>3. D(f) < D(g) \/ (D(f) = D(g) /\ Namespace(f) < Namespace(g))
    BY <1>4, <1>7
  <2>4. D(e) < D(g) \/ (D(e) = D(g) /\ Namespace(e) < Namespace(g))
    BY <2>1, <2>2, <2>3
  <2> QED
    BY <1>4, <2>4
<1> QED
  BY <1>5, <1>6, <1>7 DEF Orders

\* Episodes known by their ids are finitely many.
LEMMA IdentifiedFinite ==
  ASSUME NEW episodes, Identified(episodes)
  PROVE  IsFiniteSet(episodes)
<1> DEFINE ids == [e \in episodes |-> e.id]
<1>1. ids \in Injection(episodes, EpisodeIds)
  BY Fun_IsInj DEF Identified
<1> QED
  BY <1>1, FS_Injection, PreparationAssumption

------------------------------------------------------------------------------
\* Source files and pilots.

LEMMA SnapshotParts ==
  ASSUME NEW v \in Snapshots
  PROVE  /\ v = <<v[1], v[2]>>
         /\ v[1] \in Sources /\ v[2] \in DOMAIN Text[v[1]] /\ v[2] \in Nat
         /\ Text[v[1]][v[2]] \in Seq(Rows)
         /\ \A n \in DOMAIN Text[v[1]][v[2]] : <<v[1], v[2], n>> \in EpisodeIds
<1>1. PICK s \in Sources : v \in {s} \X DOMAIN Text[s]
  BY DEF Snapshots
<1>2. PICK w \in DOMAIN Text[s] : v = <<s, w>>
  BY <1>1
<1>3. Text[s] \in Seq(Seq(Rows))
  BY PreparationAssumption
<1>4. v[1] = s /\ v[2] = w
  BY <1>2
<1>5. w \in Nat /\ Text[s][w] \in Seq(Rows)
  BY <1>3
<1>6. \A n \in DOMAIN Text[v[1]][v[2]] : <<v[1], v[2], n>> \in EpisodeIds
  <2> DEFINE ids(u) == {<<u[1], u[2], n>> : n \in DOMAIN Text[u[1]][u[2]]}
  <2>1. ids(v) \subseteq EpisodeIds
    BY DEF EpisodeIds
  <2>2. \A n \in DOMAIN Text[v[1]][v[2]] : <<v[1], v[2], n>> \in ids(v)
    OBVIOUS
  <2> QED
    BY <2>1, <2>2, Zenon
<1> QED
  BY <1>2, <1>4, <1>5, <1>6

LEMMA VersionIsSnapshot ==
  ASSUME NEW s \in Sources, NEW v \in DOMAIN Text[s]
  PROVE  <<s, v>> \in Snapshots
  BY DEF Snapshots

\* What is published is the version of the snapshot, although lines were read
\* while the file could change: the file is what it was, and versions never return.
LEMMA PublishesSnapshot ==
  ASSUME PreparationTypeOK, Reading, stage = "publish", Unchanged
  PROVE  snapshot \in Snapshots /\ lines = Text[snapshot[1]][snapshot[2]]
<1> DEFINE text == Text[snapshot[1]][snapshot[2]]
<1>1. snapshot \in Snapshots /\ lines \in Seq(Rows)
  BY DEF Reading, PreparationTypeOK
<1>2. text \in Seq(Rows) /\ snapshot[2] \in Nat
  BY <1>1, SnapshotParts
<1>3. Len(lines) = Len(text)
  BY DEF Reading
<1>4. \A n \in DOMAIN lines : lines[n] = text[n]
  BY <1>2 DEF Reading, Readable, Unchanged
<1> HIDE DEF text
<1>5. lines = text
  BY <1>1, <1>2, <1>3, <1>4
<1> QED
  BY <1>1, <1>5 DEF text

\* The episodes and the rejected rows of a version.
LEMMA OccurrenceTypes ==
  ASSUME NEW v \in Snapshots
  PROVE  LET rows == Occurrences(v[1], v[2], Text[v[1]][v[2]]) IN
         /\ Canonicalised(rows) \in SUBSET Survivors
         /\ RejectsOf(rows) \in SUBSET EpisodeIds
         /\ \A e \in rows : e = [id |-> e.id, row |-> Text[e.id[1]][e.id[2]][e.id[3]]]
<1> DEFINE text == Text[v[1]][v[2]]
           rows == Occurrences(v[1], v[2], text)
<1>1. ASSUME NEW e \in rows
      PROVE  /\ e.id \in EpisodeIds /\ e.row \in Rows
             /\ e = [id |-> e.id, row |-> e.row]
             /\ e.row = Text[e.id[1]][e.id[2]][e.id[3]]
  <2>1. PICK n \in DOMAIN text : e = [id |-> <<v[1], v[2], n>>, row |-> text[n]]
    BY DEF Occurrences
  <2>2. <<v[1], v[2], n>> \in EpisodeIds
    BY SnapshotParts
  <2>3. e.id = <<v[1], v[2], n>> /\ e.row = text[n] /\ e = [id |-> e.id, row |-> e.row]
    BY <2>1
  <2> HIDE DEF rows
  <2>4. Text[e.id[1]][e.id[2]][e.id[3]] = text[n]
    BY <2>3
  <2>5. e.id \in EpisodeIds
    BY <2>2, <2>3
  <2>6. Text[e.id[1]][e.id[2]][e.id[3]] \in Rows
    BY <2>5 DEF Rows
  <2> HIDE DEF text
  <2> QED
    BY <2>3, <2>4, <2>5, <2>6, Zenon
<1> HIDE DEF rows
<1>2. Canonicalised(rows) \in SUBSET Survivors
  BY <1>1 DEF Canonicalised, Survivors
<1>3. RejectsOf(rows) \in SUBSET EpisodeIds
  BY <1>1 DEF RejectsOf
<1>4. \A e \in rows : e = [id |-> e.id, row |-> Text[e.id[1]][e.id[2]][e.id[3]]]
  BY <1>1
<1>5. Occurrences(v[1], v[2], Text[v[1]][v[2]]) = rows
  BY DEF rows, text
<1> QED
  BY <1>2, <1>3, <1>4, <1>5, Zenon

\* In the published canonical files an episode is known by its id.
LEMMA PublishedIdentified ==
  ASSUME PreparationTypeOK, CanonicalIsSnapshot, NEW files \in SUBSET canonical
  PROVE  Identified(EpisodesOf(files)) /\ EpisodesOf(files) \in SUBSET Survivors
<1>1. ASSUME NEW e \in EpisodesOf(files)
      PROVE  /\ e \in Survivors
             /\ e = [id |-> e.id, row |-> Text[e.id[1]][e.id[2]][e.id[3]]]
  <2>1. PICK c \in files : e \in c.episodes
    BY DEF EpisodesOf
  <2> DEFINE rows == Occurrences(c.snapshot[1], c.snapshot[2],
                                 Text[c.snapshot[1]][c.snapshot[2]])
  <2>2. c.snapshot \in Snapshots /\ c.episodes = Canonicalised(rows)
    BY DEF CanonicalIsSnapshot, PreparationTypeOK
  <2>3. e \in rows
    BY <2>1, <2>2 DEF Canonicalised
  <2> QED
    BY <2>1, <2>2, <2>3, OccurrenceTypes
<1>2. \A e \in EpisodesOf(files) : e.id \in EpisodeIds
  BY <1>1 DEF Survivors
<1>3. \A e, f \in EpisodesOf(files) : e.id = f.id => e = f
  BY <1>1
<1> QED
  BY <1>1, <1>2, <1>3 DEF Identified

LEMMA SubsetIdentified ==
  ASSUME NEW episodes, Identified(episodes), NEW chosen \in SUBSET episodes
  PROVE  Identified(chosen)
  BY DEF Identified

LEMMA EligibleSubset ==
  ASSUME NEW episodes, NEW chosen
  PROVE  Eligible(episodes, chosen) \in SUBSET (episodes \ Excluded(chosen))
  BY DEF Eligible

LEMMA WindowSubset ==
  ASSUME NEW files, NEW cap
  PROVE  Window(files, cap) \in SUBSET EpisodesOf(files)
  BY DEF Window, EpisodesOf

\* A list without repetitions of eligible episodes of some canonical files.
Listing(members, files, chosen) ==
  /\ members \in Seq(EpisodesOf(files) \ Excluded(chosen))
  /\ \A i, j \in DOMAIN members : members[i] = members[j] => i = j

LEMMA StreamListing ==
  ASSUME PreparationTypeOK, CanonicalIsSnapshot,
         NEW files \in SUBSET canonical, NEW chosen, NEW cap
  PROVE  Listing(Stratified(Eligible(Window(files, cap), chosen)), files, chosen)
<1> DEFINE episodes == Eligible(Window(files, cap), chosen)
<1>1. episodes \in SUBSET (EpisodesOf(files) \ Excluded(chosen))
  BY EligibleSubset, WindowSubset
<1>2. Identified(episodes)
  BY <1>1, PublishedIdentified, SubsetIdentified
<1> HIDE DEF episodes
<1>3. IsFiniteSet(episodes) /\ Orders(RoundRobin(episodes), episodes)
  BY <1>2, IdentifiedFinite, RoundRobinOrders
<1>4. /\ Stratified(episodes) \in Seq(episodes)
      /\ Len(Stratified(episodes)) = Cardinality(episodes)
      /\ \A i, j \in 1..Cardinality(episodes) :
           Stratified(episodes)[i] = Stratified(episodes)[j] => i = j
  BY <1>3, SortedLists DEF Stratified
<1>5. Listing(Stratified(episodes), files, chosen)
  BY <1>1, <1>4 DEF Listing
<1> QED
  BY <1>5 DEF episodes

LEMMA SelectionListing ==
  ASSUME PreparationTypeOK, CanonicalIsSnapshot,
         NEW files \in SUBSET canonical, NEW chosen,
         NEW selected \in SUBSET Eligible(EpisodesOf(files), chosen)
  PROVE  Listing(Sorted(selected, HashOrder("canary", selected)), files, chosen)
<1> DEFINE before == HashOrder("canary", selected)
<1>1. selected \in SUBSET (EpisodesOf(files) \ Excluded(chosen))
  BY EligibleSubset
<1>2. Identified(selected)
  BY <1>1, PublishedIdentified, SubsetIdentified
<1>3. IsFiniteSet(selected) /\ Orders(before, selected)
  BY <1>2, IdentifiedFinite, HashOrders
<1> HIDE DEF before
<1>4. /\ Sorted(selected, before) \in Seq(selected)
      /\ Len(Sorted(selected, before)) = Cardinality(selected)
      /\ \A i, j \in 1..Cardinality(selected) :
           Sorted(selected, before)[i] = Sorted(selected, before)[j] => i = j
  BY <1>3, SortedLists
<1>5. Listing(Sorted(selected, before), files, chosen)
  BY <1>1, <1>4 DEF Listing
<1> QED
  BY <1>5 DEF before

\* A slice of a list.
LEMMA SliceListing ==
  ASSUME NEW stream, NEW files, NEW chosen, Listing(stream, files, chosen),
         NEW offset \in Nat, NEW count \in Nat, offset + count <= Len(stream)
  PROVE  /\ Listing(Slice(stream, offset, count), files, chosen)
         /\ DOMAIN Slice(stream, offset, count) = 1..count
         /\ \A i \in 1..count : Slice(stream, offset, count)[i] = stream[offset + i]
<1> DEFINE slice == Slice(stream, offset, count)
           S == EpisodesOf(files) \ Excluded(chosen)
<1> HIDE DEF S
<1>1. stream \in Seq(S) /\ \A i, j \in DOMAIN stream : stream[i] = stream[j] => i = j
  BY DEF Listing, S
<1>2. slice \in Seq(S) /\ DOMAIN slice = 1..count
  BY <1>1 DEF Slice
<1>3. \A i \in 1..count : slice[i] = stream[offset + i] /\ offset + i \in DOMAIN stream
  BY <1>1 DEF Slice
<1> HIDE DEF slice
<1>4. \A i, j \in DOMAIN slice : slice[i] = slice[j] => i = j
  BY <1>1, <1>2, <1>3
<1>5. Listing(slice, files, chosen)
  BY <1>2, <1>4 DEF Listing, S
<1> QED
  BY <1>2, <1>3, <1>5 DEF slice

\* Slices that do not overlap have no episode in common.
LEMMA SlicesApart ==
  ASSUME NEW stream, NEW files, NEW chosen, Listing(stream, files, chosen),
         NEW offset \in Nat, NEW count \in Nat, NEW later \in Nat, NEW more \in Nat,
         offset + count <= later, later + more <= Len(stream),
         NEW i \in 1..count, NEW j \in 1..more
  PROVE  Slice(stream, offset, count)[i] # Slice(stream, later, more)[j]
<1>1. Len(stream) \in Nat /\ DOMAIN stream = 1..Len(stream)
  BY DEF Listing
<1>2. offset + count <= Len(stream)
  BY <1>1
<1>3. /\ Slice(stream, offset, count)[i] = stream[offset + i]
      /\ Slice(stream, later, more)[j] = stream[later + j]
  BY <1>2, SliceListing
<1>4. /\ offset + i \in DOMAIN stream /\ later + j \in DOMAIN stream
      /\ offset + i # later + j
  BY <1>1
<1> QED
  BY <1>3, <1>4 DEF Listing

------------------------------------------------------------------------------
\* Every step preserves the invariant.

LEMMA InitPreparation == PreparationInit => PreparationInv
<1> SUFFICES ASSUME PreparationInit PROVE PreparationInv
  OBVIOUS
<1> USE DEF PreparationInit
<1>1. PreparationTypeOK
  <2>1. \A s \in Sources : 1 \in DOMAIN Text[s]
    <3> SUFFICES ASSUME NEW s \in Sources PROVE 1 \in DOMAIN Text[s]
      OBVIOUS
    <3>1. Text[s] \in Seq(Seq(Rows)) /\ Text[s] # <<>>
      BY PreparationAssumption
    <3> QED
      BY <3>1
  <2> QED
    BY <2>1 DEF PreparationTypeOK
<1> QED
  BY <1>1 DEF PreparationInv, Reading, CanonicalIsSnapshot, ConflictsListed, Drawn

\* Reviews and draws only publish their own files.
LEMMA OtherFrames ==
  ASSUME NEW files, NEW chosen
  PROVE  /\ Draw(files, chosen) => UNCHANGED <<file, pilot, pilotFiles, worklists>>
         /\ Plan(files, chosen) => UNCHANGED canaries
         /\ PrepareCanary(files, chosen) => UNCHANGED batches
         /\ PrepareReview(chosen, files) => UNCHANGED <<file, pilot, pilotFiles, batches, canaries>>
<1>1. Plan(files, chosen) => UNCHANGED <<file, pilot, pilotFiles, worklists, canaries>>
  BY DEF Plan
<1>2. PrepareCanary(files, chosen) => UNCHANGED <<file, pilot, pilotFiles, worklists, batches>>
  BY DEF PrepareCanary
<1>3. PrepareReview(chosen, files) => UNCHANGED <<file, pilot, pilotFiles, batches, canaries>>
  BY DEF PrepareReview
<1> QED
  BY <1>1, <1>2, <1>3 DEF Draw

\* Nothing that has been published is changed or withdrawn.
LEMMA PublishedStays ==
  ASSUME [PreparationNext]_preparationVars
  PROVE  /\ canonical \subseteq canonical' /\ audits \subseteq audits'
         /\ quarantines \subseteq quarantines' /\ pilots \subseteq pilots'
<1> USE DEF pilotFiles
<1>1. CASE PublishPilot
  BY <1>1 DEF PublishPilot
<1>2. ASSUME NEW files \in SUBSET canonical, AuditDuplicates(files)
      PROVE  audits \subseteq audits' /\ UNCHANGED <<canonical, quarantines, pilots>>
  BY <1>2 DEF AuditDuplicates
<1>3. CASE UNCHANGED pilotFiles
  BY <1>3
<1>4. PublishPilot \/ (\E files \in SUBSET canonical : AuditDuplicates(files))
        \/ UNCHANGED pilotFiles
  BY OtherFrames
     DEF PreparationNext, EditSource, RegisterSource, VerifyFile, ReadLine, EndOfFile,
         VerifyAgain, AbandonPilot, preparationVars
<1> QED
  BY <1>1, <1>2, <1>3, <1>4

LEMMA NextReading == PreparationTypeOK /\ Reading /\ [PreparationNext]_preparationVars => Reading'
<1> SUFFICES ASSUME PreparationTypeOK, Reading, [PreparationNext]_preparationVars PROVE Reading'
  OBVIOUS
<1> USE DEF PreparationTypeOK, Reading, Readable
<1>1. ASSUME NEW s \in Sources, EditSource(s) PROVE Reading'
  <2>1. CASE stage = "none"
    BY <1>1, <2>1 DEF EditSource, pilot
  <2>2. CASE stage # "none"
    <3>1. snapshot[1] \in Sources /\ snapshot[2] \in Nat
      BY <2>2, SnapshotParts
    <3>2. file[snapshot[1]] \in Nat /\ file'[snapshot[1]] \in Nat
          /\ file[snapshot[1]] <= file'[snapshot[1]] /\ UNCHANGED pilot
      BY <1>1, <3>1 DEF EditSource
    <3>3. Readable \subseteq Readable'
      BY <3>1, <3>2 DEF pilot
    <3> QED
      BY <2>2, <3>1, <3>2, <3>3 DEF pilot
  <2> QED
    BY <2>1, <2>2
<1>2. ASSUME NEW s \in Sources, RegisterSource(s) PROVE Reading'
  <2>1. snapshot' \in Snapshots
    BY <1>2, VersionIsSnapshot DEF RegisterSource
  <2> QED
    BY <1>2, <2>1 DEF RegisterSource
<1>3. CASE ReadLine
  <2>1. PICK v \in Readable :
          /\ Len(lines) + 1 \in DOMAIN Text[snapshot[1]][v]
          /\ lines' = Append(lines, Text[snapshot[1]][v][Len(lines) + 1])
    BY <1>3 DEF ReadLine
  <2>2. UNCHANGED <<file, stage, snapshot>> /\ stage = "read"
    BY <1>3 DEF ReadLine
  <2>3. Readable' = Readable
    BY <2>2
  <2>4. DOMAIN lines' = DOMAIN lines \cup {Len(lines) + 1}
    BY <2>1
  <2>5. \A n \in DOMAIN lines : lines'[n] = lines[n]
    BY <2>1
  <2>6. lines'[Len(lines) + 1] = Text[snapshot[1]][v][Len(lines) + 1]
    BY <2>1
  <2> QED
    BY <2>1, <2>2, <2>3, <2>4, <2>5, <2>6
<1>4. CASE VerifyFile \/ EndOfFile
  BY <1>4 DEF VerifyFile, EndOfFile
<1>5. CASE VerifyAgain
  BY <1>5 DEF VerifyAgain
<1>6. CASE PublishPilot \/ AbandonPilot
  BY <1>6 DEF PublishPilot, AbandonPilot, PilotEnds
<1>7. CASE UNCHANGED <<file, pilot>>
  BY <1>7 DEF pilot
<1> QED
  BY <1>1, <1>2, <1>3, <1>4, <1>5, <1>6, <1>7, OtherFrames
     DEF PreparationNext, AuditDuplicates, preparationVars

LEMMA NextCanonical ==
  PreparationTypeOK /\ Reading /\ CanonicalIsSnapshot /\ [PreparationNext]_preparationVars
    => CanonicalIsSnapshot'
<1> SUFFICES ASSUME PreparationTypeOK, Reading, CanonicalIsSnapshot,
                    [PreparationNext]_preparationVars
             PROVE  CanonicalIsSnapshot'
  OBVIOUS
<1>1. CASE PublishPilot
  <2> DEFINE rows(v) == Occurrences(v[1], v[2], Text[v[1]][v[2]])
             episodes == Canonicalised(rows(snapshot))
             rejects == RejectsOf(rows(snapshot))
             published == [snapshot |-> snapshot, episodes |-> episodes]
             quarantine == [snapshot |-> snapshot, rejects |-> rejects]
  <2>1. lines = Text[snapshot[1]][snapshot[2]]
    BY <1>1, PublishesSnapshot DEF PublishPilot
  <2>2. PICK last \in 1..4 :
          /\ canonical' = IF PilotOrder.canonical <= last /\ episodes # {}
                          THEN canonical \cup {published} ELSE canonical
          /\ quarantines' = IF PilotOrder.quarantine <= last /\ rejects # {}
                            THEN quarantines \cup {quarantine} ELSE quarantines
          /\ pilots' = IF PilotOrder.report <= last THEN pilots \cup {snapshot} ELSE pilots
    BY <1>1, <2>1 DEF PublishPilot
  <2> HIDE DEF rows
  <2>3. ASSUME NEW c \in canonical' PROVE c.episodes = Canonicalised(rows(c.snapshot))
    BY <2>2 DEF CanonicalIsSnapshot, rows
  <2>4. ASSUME NEW v \in pilots', NEW e \in rows(v)
        PROVE  \/ \E c \in canonical' : c.snapshot = v /\ e \in c.episodes
               \/ \E q \in quarantines' : q.snapshot = v /\ e.id \in q.rejects
    <3>1. CASE v \in pilots
      BY <3>1, PublishedStays DEF CanonicalIsSnapshot, rows
    <3>2. CASE v \notin pilots
      <4>1. v = snapshot /\ last = 4
        BY <2>2, <3>2 DEF PilotOrder
      <4>2. CASE e.row \in Rejected
        <5>1. e.id \in rejects
          BY <4>1, <4>2 DEF RejectsOf
        <5>2. quarantine \in quarantines'
          BY <2>2, <4>1, <5>1 DEF PilotOrder
        <5> QED
          BY <4>1, <5>1, <5>2
      <4>3. CASE e.row \notin Rejected
        <5>1. e \in episodes
          BY <4>1, <4>3 DEF Canonicalised
        <5>2. published \in canonical'
          BY <2>2, <4>1, <5>1 DEF PilotOrder
        <5> QED
          BY <4>1, <5>1, <5>2
      <4> QED
        BY <4>2, <4>3
    <3> QED
      BY <3>1, <3>2
  <2> QED
    BY <2>3, <2>4 DEF CanonicalIsSnapshot, rows
<1>2. CASE UNCHANGED <<canonical, quarantines, pilots>>
  BY <1>2 DEF CanonicalIsSnapshot
<1> QED
  BY <1>1, <1>2, OtherFrames
     DEF PreparationNext, EditSource, RegisterSource, VerifyFile, ReadLine, EndOfFile,
         VerifyAgain, AbandonPilot, AuditDuplicates, preparationVars, pilotFiles

LEMMA NextConflicts ==
  ConflictsListed /\ [PreparationNext]_preparationVars => ConflictsListed'
<1> SUFFICES ASSUME ConflictsListed, [PreparationNext]_preparationVars PROVE ConflictsListed'
  OBVIOUS
<1>1. ASSUME NEW chosen \in SUBSET audits, NEW files \in SUBSET quarantines,
             PrepareReview(chosen, files)
      PROVE  ConflictsListed'
  <2> DEFINE candidates == UNION {Candidates(audit) : audit \in chosen}
  <2>1. PICK tasks \in SUBSET candidates :
          /\ \A c \in candidates : \E d \in tasks : SameConflict(c, d)
          /\ worklists' = worklists \cup
               {[audits |-> chosen, quarantines |-> files, conflicts |-> tasks,
                 rejects |-> UNION {q.rejects : q \in files}]}
    BY <1>1 DEF PrepareReview
  <2>2. Agree(candidates)
    BY <1>1 DEF PrepareReview
  <2>3. tasks = candidates
    BY <2>1, <2>2 DEF Agree
  <2>4. \A audit \in chosen : Candidates(audit) \subseteq candidates
    OBVIOUS
  <2> HIDE DEF candidates
  <2> QED
    BY <2>1, <2>3, <2>4 DEF ConflictsListed
<1>2. CASE UNCHANGED worklists
  BY <1>2 DEF ConflictsListed
<1> QED
  BY <1>1, <1>2, OtherFrames
     DEF PreparationNext, EditSource, RegisterSource, VerifyFile, ReadLine, EndOfFile,
         VerifyAgain, PublishPilot, AbandonPilot, AuditDuplicates, preparationVars, drawn

LEMMA NextDrawn == Drawn /\ [PreparationNext]_preparationVars => Drawn'
<1> SUFFICES ASSUME Drawn, [PreparationNext]_preparationVars PROVE Drawn'
  OBVIOUS
<1>1. ASSUME NEW files \in SUBSET canonical, NEW chosen \in SUBSET audits, Plan(files, chosen)
      PROVE  Drawn'
  <2>1. PICK cap \in Caps, offset \in Offsets, count \in Counts :
          LET stream == Stratified(Eligible(Window(files, cap), chosen)) IN
          /\ offset + count <= Len(stream)
          /\ batches' = batches \cup
               {[files |-> files, audits |-> chosen, cap |-> cap, offset |-> offset,
                 count |-> count, members |-> Slice(stream, offset, count)]}
    BY <1>1 DEF Plan, Slice
  <2>2. offset \in Nat /\ count \in Nat
    BY PreparationAssumption
  <2> DEFINE new == [files |-> files, audits |-> chosen, cap |-> cap, offset |-> offset,
                     count |-> count,
                     members |-> Slice(Stratified(Eligible(Window(files, cap), chosen)),
                                       offset, count)]
  <2>3. BatchDrawn(new)
    BY <2>1, <2>2 DEF BatchDrawn
  <2>4. batches' = batches \cup {new}
    BY <2>1
  <2> HIDE DEF new
  <2>5. \A b \in batches' : BatchDrawn(b)
    BY <2>3, <2>4 DEF Drawn
  <2> QED
    BY <1>1, <2>5, OtherFrames DEF Drawn, BatchDrawn, CanaryDrawn
<1>2. ASSUME NEW files \in SUBSET canonical, NEW chosen \in SUBSET audits,
             PrepareCanary(files, chosen)
      PROVE  Drawn'
  <2>1. PICK selected \in SUBSET Eligible(EpisodesOf(files), chosen) :
          canaries' = canaries \cup
            {[files |-> files, audits |-> chosen,
              members |-> Sorted(selected, HashOrder("canary", selected))]}
    BY <1>2 DEF PrepareCanary
  <2>2. \A d \in canaries' : CanaryDrawn(d)
    BY <2>1 DEF Drawn, CanaryDrawn
  <2> QED
    BY <1>2, <2>2, OtherFrames DEF Drawn, BatchDrawn, CanaryDrawn
<1>3. CASE UNCHANGED <<batches, canaries>>
  BY <1>3 DEF Drawn, BatchDrawn, CanaryDrawn
<1> QED
  BY <1>1, <1>2, <1>3, OtherFrames
     DEF PreparationNext, EditSource, RegisterSource, VerifyFile, ReadLine, EndOfFile,
         VerifyAgain, PublishPilot, AbandonPilot, AuditDuplicates, Draw, preparationVars, drawn

LEMMA NextType ==
  PreparationTypeOK /\ Reading /\ CanonicalIsSnapshot /\ [PreparationNext]_preparationVars
    => PreparationTypeOK'
<1> SUFFICES ASSUME PreparationTypeOK, Reading, CanonicalIsSnapshot,
                    [PreparationNext]_preparationVars
             PROVE  PreparationTypeOK'
  OBVIOUS
<1> USE DEF PreparationTypeOK
<1>1. ASSUME NEW s \in Sources, EditSource(s) PROVE PreparationTypeOK'
  BY <1>1 DEF EditSource, pilot, pilotFiles, drawn, Draws
<1>2. ASSUME NEW s \in Sources, RegisterSource(s) PROVE PreparationTypeOK'
  BY <1>2, VersionIsSnapshot DEF RegisterSource, pilotFiles, drawn, Draws
<1>3. CASE ReadLine
  <2>1. PICK v \in Readable :
          /\ Len(lines) + 1 \in DOMAIN Text[snapshot[1]][v]
          /\ lines' = Append(lines, Text[snapshot[1]][v][Len(lines) + 1])
    BY <1>3 DEF ReadLine
  <2>2. /\ snapshot[1] \in Sources /\ snapshot[2] \in DOMAIN Text[snapshot[1]]
        /\ Text[snapshot[1]] \in Seq(Seq(Rows))
    BY <1>3, SnapshotParts, PreparationAssumption DEF ReadLine, Reading
  <2>3. v \in DOMAIN Text[snapshot[1]]
    BY <2>1, <2>2 DEF Readable
  <2>4. Text[snapshot[1]][v][Len(lines) + 1] \in Rows
    BY <2>1, <2>2, <2>3
  <2>5. lines' \in Seq(Rows)
    BY <2>1, <2>4
  <2> QED
    BY <1>3, <2>5 DEF ReadLine, pilotFiles, drawn, Draws
<1>4. CASE VerifyFile \/ EndOfFile \/ VerifyAgain
  BY <1>4 DEF VerifyFile, EndOfFile, VerifyAgain, pilotFiles, drawn, Draws
<1>5. CASE PublishPilot
  <2> DEFINE rows == Occurrences(snapshot[1], snapshot[2], lines)
             episodes == Canonicalised(rows)
             rejects == RejectsOf(rows)
  <2>1. snapshot \in Snapshots /\ episodes \in SUBSET Survivors /\ rejects \in SUBSET EpisodeIds
    BY <1>5, PublishesSnapshot, OccurrenceTypes DEF PublishPilot
  <2>2. /\ canonical' \subseteq canonical \cup {[snapshot |-> snapshot, episodes |-> episodes]}
        /\ audits' \subseteq audits \cup {episodes}
        /\ quarantines' \subseteq quarantines \cup {[snapshot |-> snapshot, rejects |-> rejects]}
        /\ pilots' \subseteq pilots \cup {snapshot}
    BY <1>5 DEF PublishPilot
  <2> HIDE DEF rows, episodes, rejects
  <2>3. /\ canonical' \subseteq [snapshot : Snapshots, episodes : SUBSET Survivors]
        /\ audits' \subseteq SUBSET Survivors
        /\ quarantines' \subseteq [snapshot : Snapshots, rejects : SUBSET EpisodeIds]
        /\ pilots' \subseteq Snapshots
    BY <2>1, <2>2
  <2>4. UNCHANGED <<file, drawn>> /\ PilotEnds
    BY <1>5 DEF PublishPilot
  <2>5. \A w \in worklists : w.audits \subseteq audits' /\ w.quarantines \subseteq quarantines'
    BY PublishedStays
  <2>6. \A d \in batches \cup canaries :
          [files |-> d.files, audits |-> d.audits, members |-> d.members] \in Draws'
    BY PublishedStays DEF Draws
  <2> QED
    BY <2>3, <2>4, <2>5, <2>6 DEF drawn, PilotEnds
<1>6. CASE AbandonPilot
  BY <1>6 DEF AbandonPilot, PilotEnds, pilotFiles, drawn, Draws
<1>7. ASSUME NEW files \in SUBSET canonical, AuditDuplicates(files) PROVE PreparationTypeOK'
  <2>1. audits' = audits \cup {EpisodesOf(files)} /\ EpisodesOf(files) \in SUBSET Survivors
    BY <1>7, PublishedIdentified DEF AuditDuplicates
  <2>2. UNCHANGED <<file, pilot, canonical, quarantines, pilots, drawn>>
    BY <1>7 DEF AuditDuplicates
  <2> QED
    BY <2>1, <2>2 DEF pilot, drawn, Draws
<1>8. ASSUME NEW chosen \in SUBSET audits, NEW files \in SUBSET quarantines,
             PrepareReview(chosen, files)
      PROVE  PreparationTypeOK'
  <2>1. \A w \in worklists' : w.audits \subseteq audits /\ w.quarantines \subseteq quarantines
    BY <1>8 DEF PrepareReview
  <2> QED
    BY <1>8, <2>1, OtherFrames DEF pilot, pilotFiles, Draws
<1>9. ASSUME NEW files \in SUBSET canonical, NEW chosen \in SUBSET audits, Draw(files, chosen)
      PROVE  PreparationTypeOK'
  <2> DEFINE Fits(d) == [files |-> d.files, audits |-> d.audits, members |-> d.members] \in Draws
  <2>1. ASSUME NEW members, Listing(members, files, chosen)
        PROVE  members \in Seq(Survivors)
    BY <2>1, PublishedIdentified DEF Listing
  <2>2. CASE Plan(files, chosen)
    <3>1. PICK cap \in Caps, offset \in Offsets, count \in Counts :
            LET stream == Stratified(Eligible(Window(files, cap), chosen)) IN
            /\ offset + count <= Len(stream)
            /\ batches' = batches \cup
                 {[files |-> files, audits |-> chosen, cap |-> cap, offset |-> offset,
                   count |-> count, members |-> Slice(stream, offset, count)]}
      BY <2>2 DEF Plan, Slice
    <3> DEFINE slice == Slice(Stratified(Eligible(Window(files, cap), chosen)), offset, count)
               new == [files |-> files, audits |-> chosen, cap |-> cap, offset |-> offset,
                       count |-> count, members |-> slice]
    <3>2. Listing(slice, files, chosen)
      BY <3>1, StreamListing, SliceListing, PreparationAssumption
    <3>3. slice \in Seq(Survivors) /\ batches' = batches \cup {new}
      BY <2>1, <3>1, <3>2
    <3> HIDE DEF slice
    <3>4. \A d \in batches' \cup canaries' : Fits(d)
      BY <2>2, <3>3, OtherFrames DEF Draws
    <3> QED
      BY <1>9, <3>4, OtherFrames DEF pilot, pilotFiles, Draws
  <2>3. CASE PrepareCanary(files, chosen)
    <3>1. PICK selected \in SUBSET Eligible(EpisodesOf(files), chosen) :
            canaries' = canaries \cup
              {[files |-> files, audits |-> chosen,
                members |-> Sorted(selected, HashOrder("canary", selected))]}
      BY <2>3 DEF PrepareCanary
    <3> DEFINE list == Sorted(selected, HashOrder("canary", selected))
    <3>2. list \in Seq(Survivors)
      BY <2>1, SelectionListing
    <3> HIDE DEF list
    <3>3. \A d \in batches' \cup canaries' : Fits(d)
      BY <2>3, <3>1, <3>2, OtherFrames DEF Draws, list
    <3> QED
      BY <1>9, <3>3, OtherFrames DEF pilot, pilotFiles, Draws
  <2> QED
    BY <1>9, <2>2, <2>3 DEF Draw
<1>10. CASE UNCHANGED preparationVars
  BY <1>10 DEF preparationVars, pilot, pilotFiles, drawn, Draws
<1> QED
  BY <1>1, <1>2, <1>3, <1>4, <1>5, <1>6, <1>7, <1>8, <1>9, <1>10 DEF PreparationNext

LEMMA PreparationInvariance == PreparationSpec => []PreparationInv
<1>1. PreparationInv /\ [PreparationNext]_preparationVars => PreparationInv'
  BY NextType, NextReading, NextCanonical, NextConflicts, NextDrawn DEF PreparationInv
<1> QED
  BY <1>1, InitPreparation, PTL DEF PreparationSpec

------------------------------------------------------------------------------

\* Whatever is edited, published and drawn, in any order, has its type; above all,
\* no rejected row becomes an episode, and nothing names a file that is not there.
THEOREM PreparationTypeCorrect == PreparationSpec => []PreparationTypeOK
<1>1. PreparationInv => PreparationTypeOK
  BY DEF PreparationInv
<1> QED
  BY <1>1, PreparationInvariance, PTL

\* The checks around a pilot suffice: for files of any length, edited any number
\* of times between any two reads, what is published is the registered version,
\* and once the report is out all of it.
THEOREM PublishedIsSnapshot == PreparationSpec => []CanonicalIsSnapshot
<1>1. PreparationInv => CanonicalIsSnapshot
  BY DEF PreparationInv
<1> QED
  BY <1>1, PreparationInvariance, PTL

\* build_review_tasks may drop candidates with an identity it has seen, since it
\* refuses audits that disagree: each audit's conflicts are in the worklist as
\* that audit has them.
THEOREM ConflictsReachReviewers == PreparationSpec => []ReviewersSeeConflicts
<1>1. ConflictsListed => ReviewersSeeConflicts
  <2> SUFFICES ASSUME ConflictsListed, NEW w \in worklists, NEW audit \in w.audits,
                      NEW e \in Conflicted(audit)
               PROVE  \E c \in w.conflicts : c.context = Context[e.row] /\ e \in c.members
    BY DEF ReviewersSeeConflicts
  <2>1. PICK c \in Candidates(audit) : e \in c.members
    BY DEF Conflicted
  <2>2. c.context = Context[e.row]
    BY <2>1 DEF Candidates, Candidate
  <2> QED
    BY <2>1, <2>2 DEF ConflictsListed
<1>2. PreparationInv => ReviewersSeeConflicts
  BY <1>1 DEF PreparationInv
<1> QED
  BY <1>2, PreparationInvariance, PTL

\* Two episodes an audit covers that present the same context are a conflict of
\* this audit, or one is an alias of the other.
LEMMA SameContextExcluded ==
  ASSUME NEW audit, NEW e \in audit, NEW f \in audit,
         e.id \in EpisodeIds, f.id \in EpisodeIds, e.id # f.id,
         Context[e.row] = Context[f.row]
  PROVE  e \in Conflicted(audit) \cup Aliases(audit) \/ f \in Aliases(audit)
<1>1. CASE Behaviour[e.row] # Behaviour[f.row]
  <2> DEFINE p == <<e, f>>
             c == Candidate(audit, Context[e.row], {Behaviour[e.row], Behaviour[f.row]})
  <2>1. p \in {q \in audit \X audit : /\ Context[q[1].row] = Context[q[2].row]
                                      /\ Behaviour[q[1].row] # Behaviour[q[2].row]}
    BY <1>1
  <2>2. c = Candidate(audit, Context[p[1].row], {Behaviour[p[1].row], Behaviour[p[2].row]})
    OBVIOUS
  <2>3. c \in Candidates(audit)
    BY <2>1, <2>2, Zenon DEF Candidates
  <2>4. e \in c.members
    BY DEF Candidate
  <2> QED
    BY <2>3, <2>4 DEF Conflicted
<1>2. CASE Behaviour[e.row] = Behaviour[f.row]
  <2>1. Order["id"][e.id] < Order["id"][f.id] \/ Order["id"][f.id] < Order["id"][e.id]
    BY PreparationAssumption
  <2> QED
    BY <1>2, <2>1 DEF Aliases
<1> QED
  BY <1>1, <1>2

LEMMA DrawnListing ==
  ASSUME PreparationTypeOK, CanonicalIsSnapshot, Drawn, NEW d \in batches \cup canaries
  PROVE  Listing(d.members, d.files, d.audits)
<1>1. d.files \in SUBSET canonical
  BY DEF PreparationTypeOK, Draws
<1>2. CASE d \in batches
  <2>1. BatchDrawn(d)
    BY <1>2 DEF Drawn
  <2> QED
    BY <1>1, <2>1, StreamListing, SliceListing DEF BatchDrawn
<1>3. CASE d \in canaries
  <2>1. CanaryDrawn(d)
    BY <1>3 DEF Drawn
  <2> QED
    BY <1>1, <2>1, SelectionListing DEF CanaryDrawn
<1> QED
  BY <1>2, <1>3

\* Both halves rest on the order of the stream being total for any hash order, and
\* on the exclusions being those of every audit that is named.
THEOREM CandidatesStayApart == PreparationSpec => []CandidatesApart
<1> SUFFICES PreparationInv => CandidatesApart
  BY PreparationInvariance, PTL
<1> SUFFICES ASSUME PreparationInv PROVE CandidatesApart
  OBVIOUS
<1> USE DEF PreparationInv
<1>1. ASSUME NEW b \in batches, NEW c \in batches,
             b.files = c.files, b.audits = c.audits, b.cap = c.cap,
             b.offset + b.count <= c.offset,
             NEW i \in DOMAIN b.members, NEW j \in DOMAIN c.members
      PROVE  b.members[i] # c.members[j]
  <2> DEFINE stream == Stratified(Eligible(Window(b.files, b.cap), b.audits))
  <2>1. Listing(stream, b.files, b.audits)
    BY StreamListing DEF PreparationTypeOK, Draws
  <2>2. /\ b.offset \in Nat /\ b.count \in Nat /\ b.offset + b.count <= Len(stream)
        /\ b.members = Slice(stream, b.offset, b.count)
    BY DEF Drawn, BatchDrawn
  <2>3. /\ c.offset \in Nat /\ c.count \in Nat /\ c.offset + c.count <= Len(stream)
        /\ c.members = Slice(stream, c.offset, c.count)
    BY <1>1 DEF Drawn, BatchDrawn
  <2> HIDE DEF stream
  <2>4. i \in 1..b.count
    BY <2>1, <2>2, SliceListing
  <2>5. j \in 1..c.count
    <3>1. DOMAIN Slice(stream, c.offset, c.count) = 1..c.count
      BY <2>1, <2>3, SliceListing
    <3> QED
      BY <2>3, <3>1
  <2>6. Slice(stream, b.offset, b.count)[i] # Slice(stream, c.offset, c.count)[j]
    BY <1>1, <2>1, <2>2, <2>3, <2>4, <2>5, SlicesApart
  <2> QED
    BY <2>2, <2>3, <2>6
<1>2. ASSUME NEW d \in batches \cup canaries, NEW audit \in d.audits,
             EpisodesOf(d.files) \subseteq audit,
             NEW i \in DOMAIN d.members, NEW j \in DOMAIN d.members,
             Context[d.members[i].row] = Context[d.members[j].row]
      PROVE  i = j
  <2> DEFINE e == d.members[i]
             f == d.members[j]
  <2>1. Listing(d.members, d.files, d.audits)
    BY DrawnListing
  <2>2. e \in EpisodesOf(d.files) \ Excluded(d.audits)
        /\ f \in EpisodesOf(d.files) \ Excluded(d.audits)
    BY <2>1 DEF Listing
  <2>3. Identified(EpisodesOf(d.files))
    BY PublishedIdentified DEF PreparationTypeOK, Draws
  <2> HIDE DEF e, f
  <2>4. e \notin Conflicted(audit) \cup Aliases(audit) /\ f \notin Aliases(audit)
    BY <2>2 DEF Excluded
  <2>5. e.id = f.id
    BY <1>2, <2>2, <2>3, <2>4, SameContextExcluded DEF Identified, e, f
  <2>6. e = f
    BY <2>2, <2>3, <2>5 DEF Identified
  <2> QED
    BY <2>1, <2>6 DEF Listing, e, f
<1> QED
  BY <1>1, <1>2 DEF CandidatesApart

==============================================================================
