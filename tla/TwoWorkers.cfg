SPECIFICATION Spec
CONSTANTS
  e1 = e1
  e2 = e2
  btc = btc
  Malformed = Malformed
  Events = {e1, e2}
  Assets = {btc}
  AssetOf <- MCAssetOf
  MetricOf <- MCMetricOf
  Workers = {w1, w2}
  NumMsgs = 2
  EventOf <- MCEventOfTwin
  Outcomes <- MCOutcomesPrice
  Undeliverable = {}
  MaxFaults = 1
  BatchSize = 1
  PelClaimBatchSize = 1
  MinIdle = 1
  Cooldown = 2
  MinChange = 1
  DeliveryCap = 2
INVARIANT
  AckedWasNotified
