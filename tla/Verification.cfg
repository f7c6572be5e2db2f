CONSTANTS
    Clients = {"first", "second"}
    Accounts = {1, 2}
    Slots = {"s1", "s2"}
    Rank <- MCRank
    Forks = {"a", "b"}
    Last = 2
    Chain <- MCChain
    StateOf <- MCStateOf
    Options <- MCOptions
    SinkStart = 1
    Defects <- MCDefects
    Limit = 1
    MaxSwitches = 2
    MaxReplays = 1
    None = None
SPECIFICATION Spec
CHECK_DEADLOCK FALSE
INVARIANTS BundleSound SuccessIsOnDisk VerdictTrue ReportTrue
