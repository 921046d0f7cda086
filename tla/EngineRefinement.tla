-------------------------- MODULE EngineRefinement --------------------------
(***************************************************************************)
(* The engine, driven by one client at a time, implements the atomic      *)
(* ledger of AbsLedger.  The abstract registry is the in-memory registry; *)
(* the abstract free capacity is the ledger, corrected by the one charge  *)
(* or credit a handler has still to write: a Create that has listed its   *)
(* VM (c_alloc) has not yet charged it, and a Delete that has removed the *)
(* record (d_read, d_update) has not yet credited it.                      *)
(***************************************************************************)
EXTENDS Engine

\* What handler r has still to write to the ledger for resource k.
Pending(r, k) ==
    CASE pc[r] = "c_alloc"                -> 0 - rsize[r][k]
      [] pc[r] \in {"d_read", "d_update"} -> rsize[r][k]
      [] OTHER                            -> 0

\* The single handler of a sequential run.
TheReq == CHOOSE r \in Reqs : TRUE

FreeView == [k \in Res |-> avail[k] + Pending(TheReq, k)]

Abs == INSTANCE AbsLedger WITH vms <- regMem, free <- FreeView, Capacity <- Free

(* The engine implements the atomic ledger: every step of a Create or a
   Delete is a stutter of the abstract ledger except CreateSave, which is
   an admission, and DeleteRecord, which is a removal. *)
AbsSpecRefined == Abs!Spec

(* Spec I6 through the refinement: the ledger, counting the charge or credit
   a handler has still to write, never holds a negative amount of any
   resource; CreateCheckResources admits only what fits. *)
AbsNeverOvercommitted == Abs!NeverOvercommitted

=============================================================================
