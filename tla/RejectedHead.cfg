SPECIFICATION QuietSpec
CONSTANTS
  e1 = e1
  e2 = e2
  btc = btc
  Malformed = Malformed
  Events = {e1, e2}
  Assets = {btc}
  AssetOf <- MCAssetOf
  MetricOf <- MCMetricOf
  Workers = {w1}
  NumMsgs = 2
  EventOf <- MCEventOfPair
  Outcomes <- MCOutcomesPrice
  Undeliverable <- MCUndeliverable
  MaxFaults = 0
  BatchSize = 2
  PelClaimBatchSize = 2
  MinIdle = 1
  Cooldown = 2
  MinChange = 1
  DeliveryCap = 2
PROPERTY
  OthersAreAcked
