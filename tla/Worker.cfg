SPECIFICATION FairSpec
CONSTANTS
  e1 = e1
  e2 = e2
  btc = btc
  Malformed = Malformed
  Events = {e1, e2}
  Assets = {btc}
  AssetOf <- MCAssetOf
  MetricOf <- MCMetricOf
  Workers = {w1}
  NumMsgs = 4
  EventOf <- MCEventOf
  Outcomes <- MCOutcomes
  Undeliverable = {}
  MaxFaults = 2
  BatchSize = 2
  PelClaimBatchSize = 2
  MinIdle = 1
  Cooldown = 2
  MinChange = 1
  DeliveryCap = 2
INVARIANTS
  TypeOK
  AckedIsSettled
  OwedIsRetried
  DeliveredIsStored
  SentPriceWasDelivered
PROPERTIES
  SentIsFinal
  PublishedIsAcked
  OwedIsSent
  ImplementsOutbox
