CONSTANTS
    a = a
    b = b
    r1 = r1
    r2 = r2
    None = None
    Names <- MCNames
    Reqs <- MCReqsSeq
    Sizes <- MCSizes
    Total <- MCTotal
    Reserved <- MCReserved
SPECIFICATION CrashSpec
SYMMETRY Symmetry
CONSTRAINT LedgerBound
INVARIANT LedgerMatchesRegistry
