SPECIFICATION Spec
CONSTANTS
    Alerts <- MCAlerts
    Assets = {"BTC", "ETH"}
    Topics = {"funding-spread", "futures-futures-spread", "spot-futures-spread"}
    MaxRetries = 2
    BaseDelay = 1
    MaxDelay = 4
    RetryAfters = {0, 3, 60}
    Cooldown = 6
    MinChange = 2
    NoAlert = NoAlert
    MaxCalls = 2
    MaxCrashes = 1
INVARIANTS
    TypeOK
    WaitBounded
    TopicOfItsModule
PROPERTIES
    KeepsItsPromise
CHECK_DEADLOCK FALSE
