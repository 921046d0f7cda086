---------------------------- MODULE AgentLedger ----------------------------
(***************************************************************************)
(* The heartbeat's resource report compared with its inventory.  It sums  *)
(* footprints with the folds of FiniteSetsExt, so it lives apart from     *)
(* Agent, whose proofs must not reach them.                               *)
(***************************************************************************)
EXTENDS Agent, EngineLedger

\* The amount of resource k the VMs of an inventory hold.
FootprintOf(view, k) ==
    MapThenSumSet(LAMBDA n : view[n][k], {n \in Names : view[n] # None})

(* Spec 5 (ordering): a heartbeat carries a consistent snapshot of the
   ledger and the registry: the resources it reports free are the free
   capacity minus what the VMs it reports hold.  StartHeartbeat reads the
   two with separate calls, and Create lists a VM before charging it. *)
HeartbeatConsistent ==
    coreVMs # None =>
        \A k \in Res : coreRes[k] = Free[k] - FootprintOf(coreVMs, k)

=============================================================================
