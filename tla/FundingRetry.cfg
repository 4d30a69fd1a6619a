SPECIFICATION Spec
CONSTANTS
  e1 = e1
  e2 = e2
  btc = btc
  Malformed = Malformed
  Events = {e1, e2}
  Assets = {btc}
  AssetOf <- MCAssetOf
  MetricOf <- MCMetricOf
  Workers = {w1}
  NumMsgs = 1
  EventOf <- MCEventOfOne
  Outcomes <- MCOutcomesFunding
  Undeliverable = {}
  MaxFaults = 1
  BatchSize = 1
  PelClaimBatchSize = 1
  MinIdle = 1
  Cooldown = 2
  MinChange = 1
  DeliveryCap = 2
INVARIANT
  SentWasDelivered
