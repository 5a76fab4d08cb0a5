CONSTANTS
  EpisodeCount = 2
  LeafCount <- TwoAndOne
  Workers = 2
  Variants = {v1}
  LocalFailures = {"credential_unavailable"}
  RemoteFailures = {"http_transient", "network_delivery_unknown"}
  Absent = Absent
  MaxFaults = 1
  MaxEdits = 0
SPECIFICATION Spec
INVARIANTS TypeOK SendOnce UncertainNeverResent OneOpenLeaf TranslatedIsComplete ReRunsAgree
PROPERTIES ImplementsStage
