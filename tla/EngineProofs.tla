---------------------------- MODULE EngineProofs ----------------------------
(***************************************************************************)
(* Proofs about the lifecycle engine of module Engine.                    *)
(***************************************************************************)
EXTENDS Engine, TLAPS

USE ConstantsAssumption

\* The action of handler r, one disjunct of Handler(r) at a time.
LEMMA HandlerCases ==
    ASSUME NEW r \in Reqs, Handler(r)
    PROVE  \/ \E n \in Names, s \in Sizes : CreateCheckExists(r, n, s)
           \/ CreateCheckResources(r) \/ CreateGetImage(r) \/ CreateDisk(r)
           \/ CreateDefineStart(r) \/ CreateCleanup(r) \/ CreateSave(r)
           \/ CreateAllocate(r)
           \/ \E n \in Names : DeleteFind(r, n)
           \/ DeleteUndefine(r) \/ DeleteDisk(r) \/ DeleteRecord(r)
           \/ DeleteReadResources(r) \/ DeleteRelease(r)
           \/ \E n \in Names : StartVM(r, n) \/ StopVM(r, n)
BY DEF Handler

-----------------------------------------------------------------------------
(* Type correctness, for every value of the constants. *)

LEMMA InitTypeOK == Init => TypeOK
<1> SUFFICES ASSUME Init PROVE TypeOK
    OBVIOUS
<1>1. avail \in [Res -> Int]
    BY DEF Init, Free
<1>2. /\ regMem \in [Names -> Sizes \cup {None}]
      /\ regDisk \in [Names -> Sizes \cup {None}]
      /\ dom \in [Names -> DomState]
      /\ disks \subseteq Names
    BY DEF Init, DomState
<1>3. /\ pc \in [Reqs -> PCs]
      /\ rname \in [Reqs -> Names \cup {None}]
      /\ rsize \in [Reqs -> Sizes \cup {None}]
      /\ snap \in [Reqs -> [Res -> Int] \cup {None}]
    BY DEF Init, PCs
<1>4. \A r \in Reqs : pc[r] = "idle" /\ ~(pc[r] \in HoldsCopy)
    BY DEF Init, HoldsCopy
<1>5. QED BY <1>1, <1>2, <1>3, <1>4 DEF TypeOK

\* TypeOK, split into the shared state, the handlers' locals and the
\* locals a handler holds inside a call sequence.
TypeVars ==
    /\ avail \in [Res -> Int]
    /\ regMem \in [Names -> Sizes \cup {None}]
    /\ regDisk \in [Names -> Sizes \cup {None}]
    /\ dom \in [Names -> DomState]
    /\ disks \subseteq Names

TypeLocals ==
    /\ pc \in [Reqs -> PCs]
    /\ rname \in [Reqs -> Names \cup {None}]
    /\ rsize \in [Reqs -> Sizes \cup {None}]
    /\ snap \in [Reqs -> [Res -> Int] \cup {None}]

HandlerOK(q) ==
    /\ pc[q] # "idle" => rname[q] \in Names /\ rsize[q] \in Sizes
    /\ pc[q] \in HoldsCopy => snap[q] \in [Res -> Int]

LEMMA TypeSplit == TypeOK <=> TypeVars /\ TypeLocals /\ \A q \in Reqs : HandlerOK(q)
BY DEF TypeOK, TypeVars, TypeLocals, HandlerOK

LEMMA TypeSplitNext == TypeOK' <=> TypeVars' /\ TypeLocals' /\ \A q \in Reqs : HandlerOK(q)'
BY DEF TypeOK, TypeVars, TypeLocals, HandlerOK

\* Return leaves a handler idle with no locals.
LEMMA ReturnTypeOK ==
    ASSUME TypeOK, NEW r \in Reqs, Return(r)
    PROVE  TypeLocals' /\ \A q \in Reqs : HandlerOK(q)'
<1>1. TypeLocals'
    BY DEF TypeOK, TypeLocals, Return, PCs
<1>2. HandlerOK(r)'
    <2>1. pc'[r] = "idle" BY DEF TypeOK, Return
    <2>2. QED BY <2>1 DEF HandlerOK, HoldsCopy
<1>3. ASSUME NEW q \in Reqs \ {r} PROVE HandlerOK(q)'
    BY <1>3 DEF TypeOK, Return, HandlerOK
<1>4. QED BY <1>1, <1>2, <1>3

\* A handler that moves on to label l with (possibly new) locals nm, sz, cp.
LEMMA GotoTypeOK ==
    ASSUME TypeOK, NEW r \in Reqs, NEW l \in PCs \ {"idle"},
           NEW nm \in Names, NEW sz \in Sizes, NEW cp \in [Res -> Int] \cup {None},
           l \in HoldsCopy => cp \in [Res -> Int],
           Goto(r, l),
           rname' = [rname EXCEPT ![r] = nm],
           rsize' = [rsize EXCEPT ![r] = sz],
           snap' = [snap EXCEPT ![r] = cp]
    PROVE  TypeLocals' /\ \A q \in Reqs : HandlerOK(q)'
<1>1. TypeLocals'
    BY DEF TypeOK, TypeLocals, Goto
<1>2. HandlerOK(r)'
    BY DEF TypeOK, Goto, HandlerOK
<1>3. ASSUME NEW q \in Reqs \ {r} PROVE HandlerOK(q)'
    BY <1>3 DEF TypeOK, Goto, HandlerOK
<1>4. QED BY <1>1, <1>2, <1>3

\* A handler inside a call sequence keeps its locals when it moves on.
LEMMA GotoSameTypeOK ==
    ASSUME TypeOK, NEW r \in Reqs, pc[r] \in HoldsCopy \/ pc[r] \in {"c_res", "d_hyp", "d_disk", "d_reg"},
           NEW l \in PCs \ {"idle"},
           pc[r] \notin HoldsCopy => l \notin HoldsCopy,
           Goto(r, l), UNCHANGED <<rname, rsize, snap>>
    PROVE  TypeLocals' /\ \A q \in Reqs : HandlerOK(q)'
<1>1. /\ rname[r] \in Names /\ rsize[r] \in Sizes
      /\ snap[r] \in [Res -> Int] \cup {None}
      /\ l \in HoldsCopy => snap[r] \in [Res -> Int]
    BY DEF TypeOK, HoldsCopy
<1>2. /\ rname' = [rname EXCEPT ![r] = rname[r]]
      /\ rsize' = [rsize EXCEPT ![r] = rsize[r]]
      /\ snap' = [snap EXCEPT ![r] = snap[r]]
    BY DEF TypeOK
<1>3. QED BY <1>1, <1>2, GotoTypeOK

LEMMA NextTypeOK == TypeOK /\ [Next]_vars => TypeOK'
<1> SUFFICES ASSUME TypeOK, [Next]_vars PROVE TypeOK'
    OBVIOUS
<1>1. ASSUME NEW r \in Reqs, NEW n \in Names, NEW s \in Sizes,
             CreateCheckExists(r, n, s)
      PROVE  TypeOK'
    <2>1. TypeVars' BY <1>1 DEF CreateCheckExists, TypeOK, TypeVars
    <2>2. CASE regMem[n] # None
        BY <1>1, <2>1, <2>2, TypeSplitNext DEF CreateCheckExists, TypeOK, TypeLocals, HandlerOK
    <2>3. CASE regMem[n] = None
        <3>1. snap[r] \in [Res -> Int] \cup {None} BY DEF TypeOK
        <3>2. snap' = [snap EXCEPT ![r] = snap[r]] BY <1>1 DEF CreateCheckExists, TypeOK
        <3>3. "c_res" \in PCs \ {"idle"} /\ "c_res" \notin HoldsCopy BY DEF PCs, HoldsCopy
        <3>4. QED BY <1>1, <2>1, <2>3, <3>1, <3>2, <3>3, GotoTypeOK, TypeSplitNext DEF CreateCheckExists
    <2>4. QED BY <2>2, <2>3, TypeSplitNext
<1>2. ASSUME NEW r \in Reqs, CreateCheckResources(r) PROVE TypeOK'
    <2>1. TypeVars' BY <1>2 DEF CreateCheckResources, TypeOK, TypeVars
    <2>2. CASE CanAllocate(avail, rsize[r])
        <3>1. /\ rname[r] \in Names /\ rsize[r] \in Sizes /\ avail \in [Res -> Int]
              /\ rname' = [rname EXCEPT ![r] = rname[r]]
              /\ rsize' = [rsize EXCEPT ![r] = rsize[r]]
            BY <1>2, <2>2 DEF CreateCheckResources, TypeOK, PCs
        <3>2. "c_image" \in PCs \ {"idle"} BY DEF PCs
        <3>3. QED BY <1>2, <2>1, <2>2, <3>1, <3>2, GotoTypeOK, TypeSplitNext DEF CreateCheckResources
    <2>3. CASE ~CanAllocate(avail, rsize[r])
        BY <1>2, <2>1, <2>3, ReturnTypeOK, TypeSplitNext DEF CreateCheckResources
    <2>4. QED BY <2>2, <2>3, TypeSplitNext
<1>3. ASSUME NEW r \in Reqs, CreateGetImage(r) PROVE TypeOK'
    <2>1. TypeVars' BY <1>3 DEF CreateGetImage, TypeOK, TypeVars
    <2>2. "c_disk" \in PCs \ {"idle"} /\ "c_image" \in HoldsCopy BY DEF PCs, HoldsCopy
    <2>3. QED BY <1>3, <2>1, <2>2, ReturnTypeOK, GotoSameTypeOK, TypeSplitNext DEF CreateGetImage
<1>4. ASSUME NEW r \in Reqs, CreateDisk(r) PROVE TypeOK'
    <2>1. TypeVars' BY <1>4 DEF CreateDisk, TypeOK, TypeVars
    <2>2. "c_hyp" \in PCs \ {"idle"} /\ "c_disk" \in HoldsCopy BY DEF PCs, HoldsCopy
    <2>3. QED BY <1>4, <2>1, <2>2, ReturnTypeOK, GotoSameTypeOK, TypeSplitNext DEF CreateDisk
<1>5. ASSUME NEW r \in Reqs, CreateDefineStart(r) PROVE TypeOK'
    <2>1. TypeVars' BY <1>5 DEF CreateDefineStart, TypeOK, TypeVars, DomState
    <2>2. /\ {"c_cleanup", "c_save"} \subseteq PCs \ {"idle"}
          /\ "c_hyp" \in HoldsCopy
        BY DEF PCs, HoldsCopy
    <2>3. QED BY <1>5, <2>1, <2>2, GotoSameTypeOK, TypeSplitNext DEF CreateDefineStart
<1>6. ASSUME NEW r \in Reqs, CreateCleanup(r) PROVE TypeOK'
    <2>1. TypeVars' BY <1>6 DEF CreateCleanup, TypeOK, TypeVars
    <2>2. QED BY <1>6, <2>1, ReturnTypeOK, TypeSplitNext DEF CreateCleanup
<1>7. ASSUME NEW r \in Reqs, CreateSave(r) PROVE TypeOK'
    <2>1. TypeVars' BY <1>7 DEF CreateSave, Persist, TypeOK, TypeVars, PCs
    <2>2. "c_alloc" \in PCs \ {"idle"} /\ "c_save" \in HoldsCopy BY DEF PCs, HoldsCopy
    <2>3. QED BY <1>7, <2>1, <2>2, GotoSameTypeOK, TypeSplitNext DEF CreateSave
<1>8. ASSUME NEW r \in Reqs, CreateAllocate(r) PROVE TypeOK'
    <2>1. TypeVars' BY <1>8 DEF CreateAllocate, Allocate, TypeOK, TypeVars, PCs, HoldsCopy
    <2>2. QED BY <1>8, <2>1, ReturnTypeOK, TypeSplitNext DEF CreateAllocate
<1>9. ASSUME NEW r \in Reqs, NEW n \in Names, DeleteFind(r, n) PROVE TypeOK'
    <2>1. TypeVars' BY <1>9 DEF DeleteFind, TypeOK, TypeVars
    <2>2. CASE regMem[n] = None
        BY <1>9, <2>1, <2>2, TypeSplitNext DEF DeleteFind, TypeOK, TypeLocals, HandlerOK
    <2>3. CASE regMem[n] # None
        <3>1. regMem[n] \in Sizes /\ snap[r] \in [Res -> Int] \cup {None} BY <2>3 DEF TypeOK
        <3>2. snap' = [snap EXCEPT ![r] = snap[r]] BY <1>9 DEF DeleteFind, TypeOK
        <3>3. "d_hyp" \in PCs \ {"idle"} /\ "d_hyp" \notin HoldsCopy BY DEF PCs, HoldsCopy
        <3>4. QED BY <1>9, <2>1, <2>3, <3>1, <3>2, <3>3, GotoTypeOK, TypeSplitNext DEF DeleteFind
    <2>4. QED BY <2>2, <2>3, TypeSplitNext
<1>10. ASSUME NEW r \in Reqs, DeleteUndefine(r) PROVE TypeOK'
    <2>1. TypeVars' BY <1>10 DEF DeleteUndefine, TypeOK, TypeVars, DomState, PCs
    <2>2. "d_disk" \in PCs \ {"idle"} /\ "d_disk" \notin HoldsCopy BY DEF PCs, HoldsCopy
    <2>3. QED BY <1>10, <2>1, <2>2, ReturnTypeOK, GotoSameTypeOK, TypeSplitNext DEF DeleteUndefine
<1>11. ASSUME NEW r \in Reqs, DeleteDisk(r) PROVE TypeOK'
    <2>1. TypeVars' BY <1>11 DEF DeleteDisk, TypeOK, TypeVars
    <2>2. "d_reg" \in PCs \ {"idle"} /\ "d_reg" \notin HoldsCopy BY DEF PCs, HoldsCopy
    <2>3. QED BY <1>11, <2>1, <2>2, GotoSameTypeOK, TypeSplitNext DEF DeleteDisk
<1>12. ASSUME NEW r \in Reqs, DeleteRecord(r) PROVE TypeOK'
    <2>1. TypeVars' BY <1>12 DEF DeleteRecord, Persist, TypeOK, TypeVars, PCs
    <2>2. "d_read" \in PCs \ {"idle"} /\ "d_read" \notin HoldsCopy BY DEF PCs, HoldsCopy
    <2>3. QED BY <1>12, <2>1, <2>2, GotoSameTypeOK, TypeSplitNext DEF DeleteRecord
<1>13. ASSUME NEW r \in Reqs, DeleteReadResources(r) PROVE TypeOK'
    <2>1. TypeVars' BY <1>13 DEF DeleteReadResources, TypeOK, TypeVars
    <2>2. /\ rname[r] \in Names /\ rsize[r] \in Sizes
          /\ rname' = [rname EXCEPT ![r] = rname[r]]
          /\ rsize' = [rsize EXCEPT ![r] = rsize[r]]
        BY <1>13 DEF DeleteReadResources, TypeOK
    <2>3. "d_update" \in PCs \ {"idle"} BY DEF PCs
    <2>4. QED BY <1>13, <2>1, <2>2, <2>3, GotoTypeOK, TypeSplitNext DEF DeleteReadResources, TypeOK, TypeVars
<1>14. ASSUME NEW r \in Reqs, DeleteRelease(r) PROVE TypeOK'
    <2>1. TypeVars' BY <1>14 DEF DeleteRelease, Release, TypeOK, TypeVars, PCs, HoldsCopy
    <2>2. QED BY <1>14, <2>1, ReturnTypeOK, TypeSplitNext DEF DeleteRelease
<1>15. ASSUME NEW r \in Reqs, NEW n \in Names, StartVM(r, n) \/ StopVM(r, n)
       PROVE  TypeOK'
    BY <1>15 DEF StartVM, StopVM, TypeOK, DomState
<1>16. ASSUME NEW n \in Names, GuestPowerOff(n) PROVE TypeOK'
    BY <1>16 DEF GuestPowerOff, TypeOK, DomState
<1>17. CASE UNCHANGED vars
    BY <1>17 DEF vars, TypeOK
<1>18. QED
    BY <1>1, <1>2, <1>3, <1>4, <1>5, <1>6, <1>7, <1>8, <1>9, <1>10,
       <1>11, <1>12, <1>13, <1>14, <1>15, <1>16, <1>17, HandlerCases DEF Next

(* TypeOK: every reachable state is well typed, and a handler inside a
   Create or Delete holds its VM, a footprint and, after GetAvailable, a
   ledger copy, for any names, handlers, footprints, totals and reservations. *)
THEOREM TypeCorrect == Spec => []TypeOK
BY InitTypeOK, NextTypeOK, PTL DEF Spec

-----------------------------------------------------------------------------
(* Every listed VM has a domain, for the agent serving one request at a time. *)

\* A Create that has started its domain still has it when it saves the record.
SaveHasDomain ==
    \A r \in Reqs : pc[r] = "c_save" => dom[rname[r]] # "undefined"

\* The inductive invariant behind RecordHasDomain.
IInv == TypeOK /\ RecordHasDomain /\ SaveHasDomain

\* RecordHasDomain with the one handler r0 written out.
RecordHasDomainOf(r0) ==
    \A n \in Names :
        regMem[n] # None =>
            dom[n] # "undefined" \/ (rname[r0] = n /\ pc[r0] \in {"d_disk", "d_reg"})

LEMMA OneHandler ==
    ASSUME NEW r0, Reqs = {r0}
    PROVE  /\ RecordHasDomain <=> RecordHasDomainOf(r0)
           /\ RecordHasDomain' <=> RecordHasDomainOf(r0)'
           /\ SaveHasDomain <=> (pc[r0] = "c_save" => dom[rname[r0]] # "undefined")
           /\ SaveHasDomain' <=> (pc[r0] = "c_save" => dom[rname[r0]] # "undefined")'
BY DEF RecordHasDomain, RecordHasDomainOf, Deleting, SaveHasDomain

LEMMA InitIInv == Init => IInv
BY InitTypeOK DEF Init, IInv, RecordHasDomain, SaveHasDomain

LEMMA NextIInv ==
    ASSUME NEW r0, Reqs = {r0}
    PROVE  IInv /\ [Next]_vars => IInv'
<1> SUFFICES ASSUME IInv, [Next]_vars
             PROVE  RecordHasDomainOf(r0)' /\ (pc[r0] = "c_save" => dom[rname[r0]] # "undefined")'
    BY OneHandler, NextTypeOK DEF IInv
<1>0. /\ TypeOK /\ RecordHasDomainOf(r0)
      /\ pc[r0] = "c_save" => dom[rname[r0]] # "undefined"
    BY OneHandler DEF IInv
<1> USE <1>0 DEF TypeOK, RecordHasDomainOf
<1>1. ASSUME NEW n \in Names, NEW s \in Sizes, CreateCheckExists(r0, n, s) PROVE RecordHasDomainOf(r0)' /\ (pc[r0] = "c_save" => dom[rname[r0]] # "undefined")'
    BY <1>1 DEF CreateCheckExists, Goto
<1>2. CASE CreateCheckResources(r0)
    BY <1>2 DEF CreateCheckResources, Goto, Return
<1>3. CASE CreateGetImage(r0)
    BY <1>3 DEF CreateGetImage, Goto, Return
<1>4. CASE CreateDisk(r0)
    BY <1>4 DEF CreateDisk, Goto, Return
<1>5. CASE CreateDefineStart(r0)
    BY <1>5 DEF CreateDefineStart, Goto
<1>6. CASE CreateCleanup(r0)
    BY <1>6 DEF CreateCleanup, Return
<1>7. CASE CreateSave(r0)
    BY <1>7 DEF CreateSave, Goto, Persist
<1>8. CASE CreateAllocate(r0)
    BY <1>8 DEF CreateAllocate, Return
<1>9. ASSUME NEW n \in Names, DeleteFind(r0, n) PROVE RecordHasDomainOf(r0)' /\ (pc[r0] = "c_save" => dom[rname[r0]] # "undefined")'
    BY <1>9 DEF DeleteFind, Goto
<1>10. CASE DeleteUndefine(r0)
    BY <1>10 DEF DeleteUndefine, Goto, Return
<1>11. CASE DeleteDisk(r0)
    BY <1>11 DEF DeleteDisk, Goto
<1>12. CASE DeleteRecord(r0)
    BY <1>12 DEF DeleteRecord, Goto, Persist
<1>13. CASE DeleteReadResources(r0)
    BY <1>13 DEF DeleteReadResources, Goto
<1>14. CASE DeleteRelease(r0)
    BY <1>14 DEF DeleteRelease, Return
<1>15. ASSUME NEW n \in Names, StartVM(r0, n) \/ StopVM(r0, n) \/ GuestPowerOff(n) PROVE RecordHasDomainOf(r0)' /\ (pc[r0] = "c_save" => dom[rname[r0]] # "undefined")'
    BY <1>15 DEF StartVM, StopVM, GuestPowerOff
<1>16. CASE UNCHANGED vars
    BY <1>16 DEF vars
<1>17. QED
    BY <1>1, <1>2, <1>3, <1>4, <1>5, <1>6, <1>7, <1>8, <1>9, <1>10,
       <1>11, <1>12, <1>13, <1>14, <1>15, <1>16, HandlerCases DEF Next

(* RecordHasDomain holds in every state the agent reaches while it serves
   one request at a time, for any names, footprints and totals: Delete
   removes the record after undefining the domain, and Create saves the
   record only after starting its domain. *)
THEOREM RecordHasDomainSequential ==
    ASSUME NEW r0, Reqs = {r0}
    PROVE  Spec => []RecordHasDomain
<1>1. Init => IInv
    BY InitIInv
<1>2. IInv /\ [Next]_vars => IInv'
    BY NextIInv
<1>3. IInv => RecordHasDomain
    BY DEF IInv
<1>4. QED BY <1>1, <1>2, <1>3, PTL DEF Spec

-----------------------------------------------------------------------------
(* Every listed VM has its overlay, for the agent serving one request at a
   time. *)

\* The steps of a Create before the record is saved.
CreateBeforeSave == {"c_res", "c_image", "c_disk", "c_hyp", "c_cleanup", "c_save"}

\* DiskBacksRecord with the one handler r0 written out.
DiskBacksRecordOf(r0) ==
    \A n \in Names :
        regMem[n] # None => n \in disks \/ (rname[r0] = n /\ pc[r0] = "d_reg")

(* The inductive invariant behind DiskBacksRecord: a Create past qemu-img
   holds its overlay until it saves the record, and a Create before it
   saves works on a name the registry does not list, so its cleanup by
   name removes no listed VM's overlay. *)
DInv(r0) ==
    /\ TypeOK
    /\ DiskBacksRecordOf(r0)
    /\ pc[r0] \in {"c_hyp", "c_save"} => rname[r0] \in disks
    /\ pc[r0] \in CreateBeforeSave => regMem[rname[r0]] = None

LEMMA OneHandlerDisk ==
    ASSUME NEW r0, Reqs = {r0}
    PROVE  /\ DiskBacksRecord <=> DiskBacksRecordOf(r0)
           /\ DiskBacksRecord' <=> DiskBacksRecordOf(r0)'
BY DEF DiskBacksRecord, DiskBacksRecordOf, Deleting

LEMMA InitDInv ==
    ASSUME NEW r0, Reqs = {r0}
    PROVE  Init => DInv(r0)
BY InitTypeOK DEF Init, DInv, DiskBacksRecordOf, CreateBeforeSave

\* The part of DInv a step has to re-establish.
DStep(r0) ==
    /\ DiskBacksRecordOf(r0)'
    /\ (pc[r0] \in {"c_hyp", "c_save"} => rname[r0] \in disks)'
    /\ (pc[r0] \in CreateBeforeSave => regMem[rname[r0]] = None)'

LEMMA NextDInv ==
    ASSUME NEW r0, Reqs = {r0}
    PROVE  DInv(r0) /\ [Next]_vars => DInv(r0)'
<1> SUFFICES ASSUME DInv(r0), [Next]_vars PROVE DStep(r0)
    BY NextTypeOK DEF DInv, DStep
<1> USE DEF DInv, DStep, TypeOK, DiskBacksRecordOf, CreateBeforeSave
<1>1. ASSUME NEW n \in Names, NEW s \in Sizes, CreateCheckExists(r0, n, s) PROVE DStep(r0)
    BY <1>1 DEF CreateCheckExists, Goto
<1>2. CASE CreateCheckResources(r0)
    BY <1>2 DEF CreateCheckResources, Goto, Return
<1>3. CASE CreateGetImage(r0)
    BY <1>3 DEF CreateGetImage, Goto, Return
<1>4. CASE CreateDisk(r0)
    BY <1>4 DEF CreateDisk, Goto, Return
<1>5. CASE CreateDefineStart(r0)
    BY <1>5 DEF CreateDefineStart, Goto
<1>6. CASE CreateCleanup(r0)
    BY <1>6 DEF CreateCleanup, Return
<1>7. CASE CreateSave(r0)
    BY <1>7 DEF CreateSave, Goto, Persist
<1>8. CASE CreateAllocate(r0)
    BY <1>8 DEF CreateAllocate, Return
<1>9. ASSUME NEW n \in Names, DeleteFind(r0, n) PROVE DStep(r0)
    BY <1>9 DEF DeleteFind, Goto
<1>10. CASE DeleteUndefine(r0)
    BY <1>10 DEF DeleteUndefine, Goto, Return
<1>11. CASE DeleteDisk(r0)
    BY <1>11 DEF DeleteDisk, Goto
<1>12. CASE DeleteRecord(r0)
    BY <1>12 DEF DeleteRecord, Goto, Persist
<1>13. CASE DeleteReadResources(r0)
    BY <1>13 DEF DeleteReadResources, Goto
<1>14. CASE DeleteRelease(r0)
    BY <1>14 DEF DeleteRelease, Return
<1>15. ASSUME NEW n \in Names, StartVM(r0, n) \/ StopVM(r0, n) \/ GuestPowerOff(n) PROVE DStep(r0)
    BY <1>15 DEF StartVM, StopVM, GuestPowerOff
<1>16. CASE UNCHANGED vars
    BY <1>16 DEF vars
<1>17. QED
    BY <1>1, <1>2, <1>3, <1>4, <1>5, <1>6, <1>7, <1>8, <1>9, <1>10,
       <1>11, <1>12, <1>13, <1>14, <1>15, <1>16, HandlerCases DEF Next

(* Spec I2, DiskBacksRecord: while the agent serves one request at a time,
   every VM the registry lists has its overlay file, except inside the
   Delete that removes it, for any names, footprints and totals.  Create
   saves the record only after qemu-img wrote the overlay, its cleanup
   deletes an overlay by a name nobody lists, and Delete removes the record
   right after the disk. *)
THEOREM DiskBacksRecordSequential ==
    ASSUME NEW r0, Reqs = {r0}
    PROVE  Spec => []DiskBacksRecord
<1>1. Init => DInv(r0)
    BY InitDInv
<1>2. DInv(r0) /\ [Next]_vars => DInv(r0)'
    BY NextDInv
<1>3. DInv(r0) => DiskBacksRecord
    BY OneHandlerDisk DEF DInv
<1>4. QED BY <1>1, <1>2, <1>3, PTL DEF Spec

=============================================================================
