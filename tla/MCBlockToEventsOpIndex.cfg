CONSTANTS
    e1 = e1
    NoKey = NoKey
    Keys <- MCKeys
    Payloads <- MCPayloads
    MaxTxs = 2
    MaxLogs = 1
    MaxOps = 1

SPECIFICATION Spec

INVARIANT OpIndexUnique
