---------------------------- MODULE EngineLedger ----------------------------
(***************************************************************************)
(* The resource-accounting properties of the engine.  They sum footprints *)
(* over the registry, so they live apart from Engine, whose proofs must   *)
(* not reach the recursive folds of FiniteSetsExt.                        *)
(***************************************************************************)
EXTENDS Engine, FiniteSetsExt

\* The VMs the in-memory registry lists.
Registered == {n \in Names : regMem[n] # None}

\* The amount of resource k the listed VMs hold.
Footprint(k) == MapThenSumSet(LAMBDA n : regMem[n][k], Registered)

(* Spec I5: whenever no call is in progress, the ledger's available amount
   of every resource is the free capacity minus what the listed VMs hold.
   Create charges the ledger in step 9 from a copy read in step 3 and
   Delete credits it from a copy read after removing the record. *)
LedgerMatchesRegistry ==
    Quiescent => \A k \in Res : avail[k] = Free[k] - Footprint(k)

(* Spec I6 and admission control: the VMs the registry lists never hold
   more of any resource than the host has free after reservations. *)
NoOvercommit ==
    Registered # {} => \A k \in Res : Footprint(k) <= Free[k]

=============================================================================
