CONSTANTS
    NoAtBlock = NoAtBlock
    MaxHead = 3
    MaxRewinds = 1
    Gaps = {1, 2}
    Width = 4

SPECIFICATION Spec

INVARIANT TypeOK
PROPERTY TimingIsParentGap
