CONSTANTS
    a = a
    b = b
    r1 = r1
    r2 = r2
    q1 = q1
    None = None
    Names <- MCNames
    Reqs <- MCReqsSeq
    Qs <- MCQs
    Sizes <- MCSizes
    Total <- MCTotal
    Reserved <- MCReserved
SPECIFICATION QSpec
SYMMETRY Symmetry
INVARIANT QTypeOK
INVARIANT LedgerMatchesRegistry
INVARIANT NoOvercommit
INVARIANT RecordHasDomain
INVARIANT DiskBacksRecord
PROPERTY AbsSpecRefined
