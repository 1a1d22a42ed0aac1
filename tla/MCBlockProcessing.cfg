CONSTANTS
    k1 = k1
    k2 = k2
    k3 = k3
    a1 = a1
    a2 = a2
    NullKey = NullKey
    ZeroAddress = ZeroAddress
    Keys <- MCKeys
    Addresses <- MCAddresses
    Width = 4
    MissingMetaDataIsError = TRUE
    MaxBlock = 7
    BTLs = {1, 2, 3}
    Extensions = {1, 2}
    ExtendBound = 9

SPECIFICATION Spec

INVARIANT TypeOK
INVARIANT ExpirationIndexConsistent
INVARIANT NoOverdueEntity
INVARIANT NoResurrection
PROPERTY ExpireExactlyDue
