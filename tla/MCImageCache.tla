--------------------------- MODULE MCImageCache ---------------------------
(* TLC instance of ImageCache: two templates, one or two GetImage callers. *)
EXTENDS ImageCache, TLC

CONSTANTS t1, t2, c1, c2

MCTemplates == {t1, t2}
MCCallersSeq == {c1}
MCCallersConc == {c1, c2}

\* Callers are interchangeable goroutines.
CallerSymmetry == Permutations(MCCallersConc)
=============================================================================
