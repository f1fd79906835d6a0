SPECIFICATION FairSpec
CONSTANTS
    None = None
    NoProof = NoProof
    NoReclaim = NoReclaim
    MAX_BRANCH_ATTEMPTS = 16
    MAX_LOOP_ITERATIONS = 64
    MAX_NODE_VISITS = 1024
    MAX_GRAPH_EVENTS = 4096
    MAX_GRAPH_NODES = 64
    MAX_AUTHENTICATED_QUEUE_RECORDS = 512
    ItemOrder <- MCTwo
    Worker = w
    Ttl = 3
    Back = 2
    MaxTime = 6
    MaxHeartbeats = 1
    MaxFaults = 2
    Faults = {"Crash", "Clock", "Refuse", "Unreadable", "Foreign", "Resume"}
INVARIANTS
  VerdictIsEarned
    StoryAgrees
    NoOvertaking
    LaunchIsFenced
PROPERTY
    Resolved
CHECK_DEADLOCK FALSE
