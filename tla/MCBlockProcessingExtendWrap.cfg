CONSTANTS
    k1 = k1
    k2 = k2
    k3 = k3
    a1 = a1
    a2 = a2
    NullKey = NullKey
    ZeroAddress = ZeroAddress
    Keys <- MCKeys
    Addresses <- MCAddresses
    Width = 3
    MissingMetaDataIsError = TRUE
    MaxBlock = 5
    BTLs = {1, 2}
    Extensions = {7}
    ExtendBound = 6

SPECIFICATION Spec

INVARIANT NoOverdueEntity
