------------------------------ MODULE MCEngine ------------------------------
(* Small instances of the engine for TLC. *)
EXTENDS EngineLedger, TLC

CONSTANTS a, b, r1, r2

MCNames == {a, b}

\* One client at a time, or two concurrent gRPC calls.
MCReqsSeq == {r1}
MCReqsConc == {r1, r2}

\* Free capacity (3 vcpu, 8 GiB, 100 GiB) fits one large and one small VM,
\* or two small ones, but not two large ones.
MCTotal == [k \in Res |-> CASE k = "cpu" -> 4 [] k = "ram" -> 8 [] k = "disk" -> 100]
MCReserved == [k \in Res |-> IF k = "cpu" THEN 1 ELSE 0]
Large == [k \in Res |-> CASE k = "cpu" -> 2 [] k = "ram" -> 4 [] k = "disk" -> 50]
Small == [k \in Res |-> CASE k = "cpu" -> 1 [] k = "ram" -> 2 [] k = "disk" -> 20]
MCSizes == {Large, Small}

Symmetry == Permutations(MCNames) \cup Permutations(MCReqsConc)

\* Keeps runs whose ledger drifts (lost updates) finite.
LedgerBound == \A k \in Res : avail[k] \in -200..200

=============================================================================
