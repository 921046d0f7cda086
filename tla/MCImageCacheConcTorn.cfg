CONSTANTS
    t1 = t1
    t2 = t2
    c1 = c1
    c2 = c2
    None = None
    Templates <- MCTemplates
    Callers <- MCCallersConc
    MaxOverlays = 1
SPECIFICATION Spec
SYMMETRY CallerSymmetry
INVARIANT ImageStableWhileUsed
