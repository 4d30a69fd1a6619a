SPECIFICATION FairSpec
CONSTANTS
    Events = {"probe", "one", "two", "three", "other"}
    BatchSize = 2
    MaxStream = 4
    MaxFaults = 1
    Probe = "probe"
    Duplicate = "probe"
    Stages <- MCStages
    LatencyEvents <- MCLatencyEvents
    Ambient = {"other"}
    LatencyRuns = 2
    Warmup = 1
    MaxPolls = 2
    MaxBacklog = 0
INVARIANTS
    ProbeSeenByNewProcess
    SustainableIsComplete
    FirstRunTimesItsCommits
PROPERTIES
    StopEndsLoop
