------------------------------ MODULE AbsLedger ------------------------------
(***************************************************************************)
(* What the lifecycle engine promises of its resource ledger (spec 4.1,   *)
(* I5 and I6): a VM is admitted and charged in one indivisible step that  *)
(* checks it fits, and a deleted VM's footprint is credited in one step   *)
(* with the removal of its record.  The detailed engine is shown to       *)
(* implement this specification in EngineRefinement.                     *)
(***************************************************************************)
EXTENDS Integers

CONSTANTS
    Names,     \* VM names
    Sizes,     \* footprints a request may ask for
    Capacity,  \* free capacity per resource kind after reservations
    None

\* The resource kinds the ledger counts.
Res == DOMAIN Capacity

VARIABLES
    vms,   \* the listed VMs: name -> footprint, or None
    free   \* the capacity not held by listed VMs

absVars == <<vms, free>>

Init ==
    /\ vms = [n \in Names |-> None]
    /\ free = Capacity

\* A Create that fits is listed and charged at once.
Admit(n, s) ==
    /\ vms[n] = None
    /\ \A k \in Res : free[k] >= s[k]
    /\ vms' = [vms EXCEPT ![n] = s]
    /\ free' = [k \in Res |-> free[k] - s[k]]

\* A Delete unlists the VM and credits its footprint at once.
Remove(n) ==
    /\ vms[n] # None
    /\ vms' = [vms EXCEPT ![n] = None]
    /\ free' = [k \in Res |-> free[k] + vms[n][k]]

Next ==
    \/ \E n \in Names, s \in Sizes : Admit(n, s)
    \/ \E n \in Names : Remove(n)

Spec == Init /\ [][Next]_absVars

(* Admission never hands out capacity the host does not have: on a host
   whose reservations leave capacity free, no kind of resource is ever
   overcommitted. *)
NeverOvercommitted ==
    \A k \in Res : Capacity[k] >= 0 => free[k] >= 0

=============================================================================
