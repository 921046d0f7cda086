----------------------- MODULE EngineRefinementProofs -----------------------
(***************************************************************************)
(* Proofs that the engine serving one request at a time implements the   *)
(* atomic ledger AbsLedger, and never overcommits a host whose            *)
(* reservations leave capacity free.                                      *)
(***************************************************************************)
EXTENDS EngineRefinement, EngineProofs

\* The abstract free capacity, with the one handler r0 written out.
FV(r0) == [k \in Res |-> avail[k] + Pending(r0, k)]

\* The steps of a Create after a successful admission check.
CreateAdmitted == {"c_image", "c_disk", "c_hyp", "c_cleanup", "c_save", "c_alloc"}

\* The steps of a Delete before the record is removed.
DeleteBeforeRecord == {"d_hyp", "d_disk", "d_reg"}

(* The inductive invariant behind the refinement: a Create has seen its
   name unlisted and, once admitted, holds a copy equal to the ledger on
   which its footprint fits; a Delete holds the listed footprint until it
   removes the record and a copy equal to the ledger when it writes it
   back; and the corrected ledger is never negative in a resource the
   reservations leave free. *)
RInv(r0) ==
    /\ TypeOK
    /\ pc[r0] \in CreateBeforeSave => regMem[rname[r0]] = None
    /\ pc[r0] \in CreateAdmitted => snap[r0] = avail /\ CanAllocate(avail, rsize[r0])
    /\ pc[r0] \in DeleteBeforeRecord => regMem[rname[r0]] = rsize[r0]
    /\ pc[r0] = "d_update" => snap[r0] = avail
    /\ \A k \in Res : Free[k] >= 0 => FV(r0)[k] >= 0

\* A step of the detailed engine that leaves the abstract ledger alone.
Stutter(r0) == regMem' = regMem /\ FV(r0)' = FV(r0)

LEMMA TheReqIs ==
    ASSUME NEW r0, Reqs = {r0}
    PROVE  TheReq = r0
BY DEF TheReq

LEMMA FreeViewIs ==
    ASSUME NEW r0, Reqs = {r0}
    PROVE  FreeView = FV(r0) /\ FreeView' = FV(r0)'
BY TheReqIs DEF FreeView, FV

\* The handler is at a step that owes the ledger nothing.
LEMMA NoPending ==
    ASSUME NEW r0, avail \in [Res -> Int], pc[r0] \notin {"c_alloc", "d_read", "d_update"}
    PROVE  FV(r0) = avail
BY DEF FV, Pending

LEMMA NoPendingNext ==
    ASSUME NEW r0, avail' \in [Res -> Int], pc'[r0] \notin {"c_alloc", "d_read", "d_update"}
    PROVE  FV(r0)' = avail'
BY DEF FV, Pending

LEMMA InitRInv ==
    ASSUME NEW r0, Reqs = {r0}
    PROVE  Init => RInv(r0)
<1> SUFFICES ASSUME Init PROVE RInv(r0)
    OBVIOUS
<1>1. TypeOK BY InitTypeOK
<1>2. pc[r0] = "idle" BY DEF Init
<1>3. FV(r0) = Free BY <1>1, <1>2, NoPending DEF Init, TypeOK
<1>4. QED BY <1>1, <1>2, <1>3 DEF RInv, CreateBeforeSave, CreateAdmitted, DeleteBeforeRecord

LEMMA InitRefines ==
    ASSUME NEW r0, Reqs = {r0}
    PROVE  Init => Abs!Init
<1> SUFFICES ASSUME Init PROVE Abs!Init
    OBVIOUS
<1>1. pc[r0] = "idle" BY DEF Init
<1>2. FreeView = Free BY <1>1, InitTypeOK, NoPending, FreeViewIs DEF Init, TypeOK
<1>3. QED BY <1>2 DEF Abs!Init, Init

\* What one step of the engine does to the invariant and the abstract ledger.
RStep(r0) == RInv(r0)' /\ (Stutter(r0) \/ Abs!Next)

LEMMA NextRefines ==
    ASSUME NEW r0, Reqs = {r0}
    PROVE  RInv(r0) /\ [Next]_vars => RStep(r0)
<1> SUFFICES ASSUME RInv(r0), [Next]_vars PROVE RStep(r0)
    OBVIOUS
<1>0. TypeOK /\ TypeOK' BY NextTypeOK DEF RInv
<1> USE <1>0 DEF TypeOK, RInv, RStep, Stutter, FV, Pending,
               CreateBeforeSave, CreateAdmitted, DeleteBeforeRecord
<1>1. ASSUME NEW n \in Names, NEW s \in Sizes, CreateCheckExists(r0, n, s) PROVE RStep(r0)
    BY <1>1 DEF CreateCheckExists, Goto
<1>2. CASE CreateCheckResources(r0)
    BY <1>2 DEF CreateCheckResources, Goto, Return
<1>3. CASE CreateGetImage(r0)
    BY <1>3 DEF CreateGetImage, Goto, Return
<1>4. CASE CreateDisk(r0)
    BY <1>4 DEF CreateDisk, Goto, Return
<1>5. CASE CreateDefineStart(r0)
    BY <1>5 DEF CreateDefineStart, Goto
<1>6. CASE CreateCleanup(r0)
    BY <1>6 DEF CreateCleanup, Return
<1>7. CASE CreateSave(r0)
    <2> DEFINE n == rname[r0]
               s == rsize[r0]
    <2>1. /\ pc[r0] = "c_save" /\ n \in Names /\ s \in Sizes
          /\ regMem[n] = None /\ snap[r0] = avail /\ CanAllocate(avail, s)
        BY <1>7 DEF CreateSave
    <2>2. FV(r0) = avail
        BY <2>1, NoPending
    <2>3. FV(r0)' = [k \in Res |-> avail[k] - s[k]]
        BY <1>7, <2>1, ConstantsAssumption DEF CreateSave, Goto
    <2>4. RInv(r0)'
        BY <1>7, <2>1, <2>3, ConstantsAssumption DEF CreateSave, Goto, CanAllocate
    <2>5. Abs!Admit(n, s)
        BY <1>7, <2>1, <2>2, <2>3, FreeViewIs, ConstantsAssumption DEF CreateSave, Abs!Admit, Abs!Res, Free, CanAllocate
    <2>6. QED BY <2>1, <2>4, <2>5 DEF Abs!Next
<1>8. CASE CreateAllocate(r0)
    <2>1. /\ pc[r0] = "c_alloc" /\ snap[r0] = avail /\ rsize[r0] \in Sizes
        BY <1>8 DEF CreateAllocate
    <2>2. avail' = [k \in Res |-> avail[k] - rsize[r0][k]]
        BY <1>8, <2>1 DEF CreateAllocate, Allocate
    <2>3. pc'[r0] = "idle"
        BY <1>8 DEF CreateAllocate, Return
    <2>4. FV(r0)' = FV(r0)
        BY <2>1, <2>2, <2>3, NoPendingNext, ConstantsAssumption
    <2>5. QED BY <1>8, <2>3, <2>4 DEF CreateAllocate, Return
<1>9. ASSUME NEW n \in Names, DeleteFind(r0, n) PROVE RStep(r0)
    BY <1>9 DEF DeleteFind, Goto
<1>10. CASE DeleteUndefine(r0)
    BY <1>10 DEF DeleteUndefine, Goto, Return
<1>11. CASE DeleteDisk(r0)
    BY <1>11 DEF DeleteDisk, Goto
<1>12. CASE DeleteRecord(r0)
    <2> DEFINE n == rname[r0]
    <2>1. /\ pc[r0] = "d_reg" /\ n \in Names /\ rsize[r0] \in Sizes
          /\ regMem[n] = rsize[r0]
        BY <1>12 DEF DeleteRecord
    <2>2. FV(r0) = avail
        BY <2>1, NoPending
    <2>3. FV(r0)' = [k \in Res |-> avail[k] + rsize[r0][k]]
        BY <1>12, <2>1, ConstantsAssumption DEF DeleteRecord, Goto
    <2>4. RInv(r0)'
        BY <1>12, <2>1, <2>2, <2>3, ConstantsAssumption DEF DeleteRecord, Goto
    <2>5. Abs!Remove(n)
        BY <1>12, <2>1, <2>2, <2>3, FreeViewIs, ConstantsAssumption DEF DeleteRecord, Abs!Remove, Abs!Res, Free
    <2>6. QED BY <2>1, <2>4, <2>5 DEF Abs!Next
<1>13. CASE DeleteReadResources(r0)
    BY <1>13 DEF DeleteReadResources, Goto
<1>14. CASE DeleteRelease(r0)
    BY <1>14 DEF DeleteRelease, Return, Release
<1>15. ASSUME NEW n \in Names, StartVM(r0, n) \/ StopVM(r0, n) \/ GuestPowerOff(n) PROVE RStep(r0)
    BY <1>15 DEF StartVM, StopVM, GuestPowerOff
<1>16. CASE UNCHANGED vars
    BY <1>16 DEF vars
<1>17. QED
    BY <1>1, <1>2, <1>3, <1>4, <1>5, <1>6, <1>7, <1>8, <1>9, <1>10,
       <1>11, <1>12, <1>13, <1>14, <1>15, <1>16, HandlerCases DEF Next

(* The engine serving one request at a time implements the atomic ledger:
   CreateSave admits and charges a VM that fits, DeleteRecord removes and
   credits one, and every other step of Create, Delete, Start and Stop
   leaves the registry and the corrected ledger alone.  This holds for any
   names, footprints, totals and reservations. *)
THEOREM Refinement ==
    ASSUME NEW r0, Reqs = {r0}
    PROVE  Spec => AbsSpecRefined
<1>1. Init => RInv(r0)
    BY InitRInv
<1>2. RInv(r0) /\ [Next]_vars => RInv(r0)' /\ [Abs!Next]_Abs!absVars
    <2> SUFFICES ASSUME RInv(r0), [Next]_vars
                 PROVE  RInv(r0)' /\ [Abs!Next]_Abs!absVars
        OBVIOUS
    <2>1. RStep(r0) BY NextRefines
    <2>2. Stutter(r0) => UNCHANGED Abs!absVars
        BY FreeViewIs DEF Stutter, Abs!absVars
    <2>3. QED BY <2>1, <2>2 DEF RStep
<1>3. Init => Abs!Init
    BY InitRefines
<1>4. QED BY <1>1, <1>2, <1>3, PTL DEF Spec, AbsSpecRefined, Abs!Spec

(* AbsNeverOvercommitted: with one request at a time, the ledger, counting
   the charge or credit the handler has still to write, never holds a
   negative amount of a resource the reservations leave free: Create
   charges only what CreateCheckResources found to fit in a copy that no
   other call can change meanwhile. *)
THEOREM NeverOvercommittedSequential ==
    ASSUME NEW r0, Reqs = {r0}
    PROVE  Spec => []AbsNeverOvercommitted
<1>1. Init => RInv(r0)
    BY InitRInv
<1>2. RInv(r0) /\ [Next]_vars => RInv(r0)'
    BY NextRefines DEF RStep
<1>3. RInv(r0) => AbsNeverOvercommitted
    BY FreeViewIs DEF RInv, AbsNeverOvercommitted, Abs!NeverOvercommitted, Abs!Res, Free
<1>4. QED BY <1>1, <1>2, <1>3, PTL DEF Spec

=============================================================================
