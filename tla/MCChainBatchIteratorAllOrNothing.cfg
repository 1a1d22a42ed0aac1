CONSTANTS
    NoBlock = NoBlock
    Configs = {c1}
    NoConfig = NoConfig
    SetHeadDeletes = FALSE
    StartBlock = 1
    MaxHead = 5
    BatchLimit = 2
    MaxRewinds = 1
    MaxRestarts = 1

SPECIFICATION Spec

PROPERTY BatchAllOrNothing
