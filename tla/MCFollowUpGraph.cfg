SPECIFICATION FairGraphSpec
CONSTANTS
    None = None
    MAX_BRANCH_ATTEMPTS = 16
    MAX_LOOP_ITERATIONS = 64
    MAX_NODE_VISITS = 1024
    MAX_GRAPH_EVENTS = 4096
    MAX_GRAPH_NODES = 64
    Batches <- MCBatches
    Definitions <- MCDefinitions
    Stranding <- MCStranding
INVARIANTS
    AdmittedGraphsFit
    EndsTruthfully
PROPERTY
    EventuallyTerminated
CHECK_DEADLOCK FALSE
