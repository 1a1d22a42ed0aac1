CONSTANTS
    k1 = k1
    k2 = k2
    a1 = a1
    a2 = a2
    NullKey = NullKey
    ZeroAddress = ZeroAddress
    Keys <- MCKeys
    Addresses <- MCAddresses
    Width = 4
    MissingMetaDataIsError = TRUE
    MaxBlock = 6
    BTLs = {1, 2, 3}
    Extensions = {1}
    ExtendBound = 9
    MaxBlockTxs = 2

SPECIFICATION PSpec

INVARIANT ReplicaAgrees
