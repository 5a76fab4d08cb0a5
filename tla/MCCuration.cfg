CONSTANTS
  Sources = {1, 2}
  Text <- MCText
  Rejected = {"bad"}
  Context <- MCContext
  Behaviour <- MCBehaviour
  Segments <- MCSegments
  Order <- MCOrder
  Caps = {1, 3}
  Offsets = {0, 1}
  Counts = {1, 2}
  Budgets = {2}
  MaxAudits = 2
  MaxDrawn = 2
  Reviewers = {w1, w2}
  Conflicts = {c1, c2}
  Decisions = {d1}
  NoDecision = NoDecision
  MaxSubmitted = 4
  FileCount = 2
  Contents <- MCContents
  Verdicts = {"va", "va2", "vb"}
  EpisodeOf <- MCEpisodeOf
  EpisodeRank <- MCEpisodeRank
  MemberLists <- MCMemberLists
SPECIFICATION CurationSpec
CONSTRAINT Bounded
INVARIANTS TypeOK CanonicalIsSnapshot ReviewersSeeConflicts CandidatesApart DecisionsStand DescribedTogether ReleasedIsAccepted
CHECK_DEADLOCK FALSE
