CONSTANTS
  EpisodeCount = 2
  LeafCount <- OneAndNone
  Workers = 2
  Variants = {v1, v2}
  LocalFailures = {"credential_unavailable"}
  RemoteFailures = {"http_transient", "network_delivery_unknown"}
  Absent = Absent
  MaxFaults = 1
  MaxEdits = 1
SPECIFICATION FairSpec
INVARIANTS VariantsMatch
PROPERTIES RunEnds Settles
