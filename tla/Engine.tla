------------------------------- MODULE Engine -------------------------------
(***************************************************************************)
(* The VM lifecycle engine of the agent: the Create, Delete, Start and     *)
(* Stop use cases (internal/application/usecase) over the shared state     *)
(* they touch, namely the in-memory resource ledger                        *)
(* (storage/resource_repository.go), the VM registry held in memory and    *)
(* persisted to vms.json (storage/persistent_vm_repository.go), the        *)
(* libvirt domains (libvirt/adapter.go) and the overlay disk files         *)
(* (storage/adapter.go).                                                   *)
(*                                                                         *)
(* Every gRPC call runs in its own goroutine; a request handler r \in Reqs *)
(* is one such goroutine.  Each repository or adapter call takes its own   *)
(* lock, so one call is one atomic step and the handler's program counter  *)
(* pc[r] marks the call it makes next.  Reqs = {r} is the agent driven by  *)
(* one client at a time; larger Reqs let calls interleave.                 *)
(***************************************************************************)
EXTENDS Integers, FiniteSets

CONSTANTS
    Names,      \* VM names; a name is also the VM ID and the domain name
    Reqs,       \* concurrent gRPC request handlers
    Sizes,      \* the (vcpu, ram, disk) footprints a valid request may ask
    Total,      \* host totals per resource (NumCPU, 32 GiB, 500 GiB)
    Reserved,   \* owner reservations from the config file
    None        \* marks "no value": no record, no argument

\* The three resource kinds the ledger (entity.Resource) counts.
Res == {"cpu", "ram", "disk"}

\* config.go validates reservations with min=0 only; the request validator
\* (dto.CreateVMRequest) makes every footprint at least 1 vcpu, 1 GiB, 10 GiB.
ASSUME ConstantsAssumption ==
    /\ Total \in [Res -> Nat]
    /\ Reserved \in [Res -> Nat]
    /\ Sizes \subseteq [Res -> Nat \ {0}]
    /\ None \notin Sizes \cup Names

\* The available counters NewInMemoryResourceRepository starts from.
Free == [k \in Res |-> Total[k] - Reserved[k]]

\* libvirt domain states the code creates or observes; "undefined" is no domain.
DomState == {"undefined", "running", "shutoff"}

PCs == {"idle",
        "c_res", "c_image", "c_disk", "c_hyp", "c_cleanup", "c_save", "c_alloc",
        "d_hyp", "d_disk", "d_reg", "d_read", "d_update"}

\* The steps at which a handler holds a ledger copy from GetAvailable.
HoldsCopy == {"c_image", "c_disk", "c_hyp", "c_cleanup", "c_save", "c_alloc", "d_update"}

VARIABLES
    avail,    \* the ledger's Available{CPU,RAMGB,DiskGB}
    regMem,   \* PersistentVMRepository.vms: name -> footprint, or None
    regDisk,  \* the content of vms.json on disk
    dom,      \* libvirt: name -> domain state
    disks,    \* names whose overlay <cache>/disks/<name>.qcow2 exists
    pc,       \* the next call of each request handler
    rname,    \* the VM the handler works on
    rsize,    \* Create: the requested footprint; Delete: the record's
    snap      \* the ledger copy returned by GetAvailable

vars == <<avail, regMem, regDisk, dom, disks, pc, rname, rsize, snap>>

TypeOK ==
    /\ avail \in [Res -> Int]
    /\ regMem \in [Names -> Sizes \cup {None}]
    /\ regDisk \in [Names -> Sizes \cup {None}]
    /\ dom \in [Names -> DomState]
    /\ disks \subseteq Names
    /\ pc \in [Reqs -> PCs]
    /\ rname \in [Reqs -> Names \cup {None}]
    /\ rsize \in [Reqs -> Sizes \cup {None}]
    /\ snap \in [Reqs -> [Res -> Int] \cup {None}]
    \* a handler inside a call sequence holds its VM and a footprint, and
    \* after a GetAvailable its ledger copy
    /\ \A r \in Reqs :
         /\ pc[r] # "idle" => rname[r] \in Names /\ rsize[r] \in Sizes
         /\ pc[r] \in HoldsCopy => snap[r] \in [Res -> Int]

-----------------------------------------------------------------------------
(* entity.Resource *)

CanAllocate(res, s) == \A k \in Res : res[k] >= s[k]

Allocate(res, s) == [k \in Res |-> res[k] - s[k]]

Release(res, s) == [k \in Res |-> res[k] + s[k]]

(* persist(): vms.json is replaced by the whole map through a temp file and
   a rename, so it either becomes the new map or keeps its old content. *)
Persist(mem) == regDisk' \in {mem, regDisk}

(* A handler's call sequence continues at the given label. *)
Goto(r, l) == pc' = [pc EXCEPT ![r] = l]

(* The handler returns to gRPC, with an error or a response. *)
Return(r) ==
    /\ pc' = [pc EXCEPT ![r] = "idle"]
    /\ rname' = [rname EXCEPT ![r] = None]
    /\ rsize' = [rsize EXCEPT ![r] = None]
    /\ snap' = [snap EXCEPT ![r] = None]

Init ==
    /\ avail = Free
    /\ regMem = [n \in Names |-> None]
    /\ regDisk = [n \in Names |-> None]
    /\ dom = [n \in Names |-> "undefined"]
    /\ disks = {}
    /\ pc = [r \in Reqs |-> "idle"]
    /\ rname = [r \in Reqs |-> None]
    /\ rsize = [r \in Reqs |-> None]
    /\ snap = [r \in Reqs |-> None]

-----------------------------------------------------------------------------
(* CreateVMUseCase.Execute *)

\* Steps 1-2: a valid request for name n; VMRepository.Exists(n) -> Conflict.
CreateCheckExists(r, n, s) ==
    /\ pc[r] = "idle"
    /\ IF regMem[n] # None
         THEN UNCHANGED <<pc, rname, rsize>>
         ELSE /\ Goto(r, "c_res")
              /\ rname' = [rname EXCEPT ![r] = n]
              /\ rsize' = [rsize EXCEPT ![r] = s]
    /\ UNCHANGED <<avail, regMem, regDisk, dom, disks, snap>>

\* Mutant: the CanAllocate check is dropped.
CreateCheckResourcesNoCheck(r) ==
    /\ pc[r] = "c_res"
    /\ Goto(r, "c_image")
    /\ snap' = [snap EXCEPT ![r] = avail]
    /\ UNCHANGED <<avail, regMem, regDisk, dom, disks, rname, rsize>>

\* Step 3: GetAvailable returns a copy of the ledger; not CanAllocate -> error.
CreateCheckResources(r) ==
    /\ pc[r] = "c_res"
    /\ IF CanAllocate(avail, rsize[r])
         THEN /\ Goto(r, "c_image")
              /\ snap' = [snap EXCEPT ![r] = avail]
              /\ UNCHANGED <<rname, rsize>>
         ELSE Return(r)
    /\ UNCHANGED <<avail, regMem, regDisk, dom, disks>>

\* Step 4: StorageService.GetImage (download or cache hit) succeeds or fails.
CreateGetImage(r) ==
    /\ pc[r] = "c_image"
    /\ \/ Goto(r, "c_disk") /\ UNCHANGED <<rname, rsize, snap>>
       \/ Return(r)
    /\ UNCHANGED <<avail, regMem, regDisk, dom, disks>>

\* Mutant: the qemu-img error is not checked.
CreateDiskIgnoreError(r) ==
    /\ pc[r] = "c_disk"
    /\ disks' \in {disks \cup {rname[r]}, disks}
    /\ Goto(r, "c_hyp")
    /\ UNCHANGED <<avail, regMem, regDisk, dom, rname, rsize, snap>>

\* Step 5: qemu-img create writes the overlay (over any file already there),
\* or fails and the handler returns a Storage error.
CreateDisk(r) ==
    /\ pc[r] = "c_disk"
    /\ \/ /\ disks' = disks \cup {rname[r]}
          /\ Goto(r, "c_hyp")
          /\ UNCHANGED <<rname, rsize, snap>>
       \/ /\ UNCHANGED disks
          /\ Return(r)
    /\ UNCHANGED <<avail, regMem, regDisk, dom>>

\* Mutant: a DomainDefineXML error is logged and creation goes on.
CreateDefineStartIgnoreError(r) ==
    LET n == rname[r] IN
    /\ pc[r] = "c_hyp"
    /\ \/ /\ UNCHANGED dom
          /\ Goto(r, "c_save")
       \/ /\ dom[n] = "undefined"
          /\ dom' = [dom EXCEPT ![n] = "shutoff"]
          /\ Goto(r, "c_cleanup")
       \/ /\ dom[n] = "undefined"
          /\ dom' = [dom EXCEPT ![n] = "running"]
          /\ Goto(r, "c_save")
    /\ UNCHANGED <<avail, regMem, regDisk, disks, rname, rsize, snap>>

\* Step 6: Adapter.CreateVM through the circuit breaker: DomainDefineXML
\* (refused when the name is defined, or by the breaker), then domain.Create.
\* A start failure returns the error and leaves the defined domain behind.
CreateDefineStart(r) ==
    LET n == rname[r] IN
    /\ pc[r] = "c_hyp"
    /\ \/ /\ UNCHANGED dom
          /\ Goto(r, "c_cleanup")
       \/ /\ dom[n] = "undefined"
          /\ dom' = [dom EXCEPT ![n] = "shutoff"]
          /\ Goto(r, "c_cleanup")
       \/ /\ dom[n] = "undefined"
          /\ dom' = [dom EXCEPT ![n] = "running"]
          /\ Goto(r, "c_save")
    /\ UNCHANGED <<avail, regMem, regDisk, disks, rname, rsize, snap>>

\* Step 6 failure branch: storage.DeleteDisk(name), its error ignored.
CreateCleanup(r) ==
    /\ pc[r] = "c_cleanup"
    /\ disks' \in {disks \ {rname[r]}, disks}
    /\ Return(r)
    /\ UNCHANGED <<avail, regMem, regDisk, dom>>

\* Steps 7-8: GetVMIP (no state change), then VMRepository.Save: the map is
\* updated in memory first; a persist error is logged and ignored.
CreateSave(r) ==
    LET newMem == [regMem EXCEPT ![rname[r]] = rsize[r]] IN
    /\ pc[r] = "c_save"
    /\ regMem' = newMem
    /\ Persist(newMem)
    /\ Goto(r, "c_alloc")
    /\ UNCHANGED <<avail, dom, disks, rname, rsize, snap>>

\* Step 9: Allocate on the copy taken at step 3, then Update stores the copy.
CreateAllocate(r) ==
    /\ pc[r] = "c_alloc"
    /\ avail' = Allocate(snap[r], rsize[r])
    /\ Return(r)
    /\ UNCHANGED <<regMem, regDisk, dom, disks>>

-----------------------------------------------------------------------------
(* DeleteVMUseCase.Execute *)

\* Step 2: FindByID(n); a miss returns NotFound.
DeleteFind(r, n) ==
    /\ pc[r] = "idle"
    /\ IF regMem[n] = None
         THEN UNCHANGED <<pc, rname, rsize>>
         ELSE /\ Goto(r, "d_hyp")
              /\ rname' = [rname EXCEPT ![r] = n]
              /\ rsize' = [rsize EXCEPT ![r] = regMem[n]]
    /\ UNCHANGED <<avail, regMem, regDisk, dom, disks, snap>>

\* Step 3: Adapter.DeleteVM: LookupDomainByName fails on an undefined name;
\* a running domain is destroyed, then undefined.  Any failure (lookup,
\* GetState, Destroy, Undefine, open breaker) returns a Hypervisor error,
\* after a Destroy that succeeded leaving the domain shut off.
DeleteUndefine(r) ==
    LET n == rname[r] IN
    /\ pc[r] = "d_hyp"
    /\ \/ /\ dom[n] # "undefined"
          /\ dom' = [dom EXCEPT ![n] = "undefined"]
          /\ Goto(r, "d_disk")
          /\ UNCHANGED <<rname, rsize, snap>>
       \/ /\ dom' \in {dom, [dom EXCEPT ![n] = IF @ = "running" THEN "shutoff" ELSE @]}
          /\ Return(r)
    /\ UNCHANGED <<avail, regMem, regDisk, disks>>

\* Step 4: storage.DeleteDisk; an error is logged and the handler continues.
DeleteDisk(r) ==
    /\ pc[r] = "d_disk"
    /\ disks' \in {disks \ {rname[r]}, disks}
    /\ Goto(r, "d_reg")
    /\ UNCHANGED <<avail, regMem, regDisk, dom, rname, rsize, snap>>

\* Step 5: VMRepository.Delete: removed from memory, then persisted; a
\* persist error is logged and ignored.
DeleteRecord(r) ==
    LET newMem == [regMem EXCEPT ![rname[r]] = None] IN
    /\ pc[r] = "d_reg"
    /\ regMem' = newMem
    /\ Persist(newMem)
    /\ Goto(r, "d_read")
    /\ UNCHANGED <<avail, dom, disks, rname, rsize, snap>>

\* Step 6, first call: GetAvailable returns a copy of the ledger.
DeleteReadResources(r) ==
    /\ pc[r] = "d_read"
    /\ snap' = [snap EXCEPT ![r] = avail]
    /\ Goto(r, "d_update")
    /\ UNCHANGED <<avail, regMem, regDisk, dom, disks, rname, rsize>>

\* Mutant: the copy is stored back without the Release.
DeleteReleaseForgotten(r) ==
    /\ pc[r] = "d_update"
    /\ avail' = snap[r]
    /\ Return(r)
    /\ UNCHANGED <<regMem, regDisk, dom, disks>>

\* Step 6, second call: Release the record's footprint on the copy; Update.
DeleteRelease(r) ==
    /\ pc[r] = "d_update"
    /\ avail' = Release(snap[r], rsize[r])
    /\ Return(r)
    /\ UNCHANGED <<regMem, regDisk, dom, disks>>

-----------------------------------------------------------------------------
(* StartVMUseCase, StopVMUseCase and the guest *)

\* Adapter.StartVM: domain.Create boots a shut-off domain.  On an undefined or
\* running domain, or on a libvirt error, it returns an error and changes nothing.
StartVM(r, n) ==
    /\ pc[r] = "idle"
    /\ dom[n] = "shutoff"
    /\ dom' = [dom EXCEPT ![n] = "running"]
    /\ UNCHANGED <<avail, regMem, regDisk, disks, pc, rname, rsize, snap>>

\* Adapter.StopVM with force: domain.Destroy powers a running domain off.
\* Without force, domain.Shutdown only asks the guest (see GuestPowerOff).
StopVM(r, n) ==
    /\ pc[r] = "idle"
    /\ dom[n] = "running"
    /\ dom' = [dom EXCEPT ![n] = "shutoff"]
    /\ UNCHANGED <<avail, regMem, regDisk, disks, pc, rname, rsize, snap>>

\* The guest powers itself off, or completes a requested ACPI shutdown.
GuestPowerOff(n) ==
    /\ dom[n] = "running"
    /\ dom' = [dom EXCEPT ![n] = "shutoff"]
    /\ UNCHANGED <<avail, regMem, regDisk, disks, pc, rname, rsize, snap>>

-----------------------------------------------------------------------------
(* Process restart: main builds a fresh ledger from the totals and reloads
   the registry from vms.json; domains and disk files survive. *)
Restart ==
    /\ avail' = Free
    /\ regMem' = regDisk
    /\ pc' = [r \in Reqs |-> "idle"]
    /\ rname' = [r \in Reqs |-> None]
    /\ rsize' = [r \in Reqs |-> None]
    /\ snap' = [r \in Reqs |-> None]
    /\ UNCHANGED <<regDisk, dom, disks>>

Handler(r) ==
    \/ \E n \in Names, s \in Sizes : CreateCheckExists(r, n, s)
    \/ CreateCheckResources(r)
    \/ CreateGetImage(r)
    \/ CreateDisk(r)
    \/ CreateDefineStart(r)
    \/ CreateCleanup(r)
    \/ CreateSave(r)
    \/ CreateAllocate(r)
    \/ \E n \in Names : DeleteFind(r, n)
    \/ DeleteUndefine(r)
    \/ DeleteDisk(r)
    \/ DeleteRecord(r)
    \/ DeleteReadResources(r)
    \/ DeleteRelease(r)
    \/ \E n \in Names : StartVM(r, n) \/ StopVM(r, n)

Next ==
    \/ \E r \in Reqs : Handler(r)
    \/ \E n \in Names : GuestPowerOff(n)

Spec == Init /\ [][Next]_vars

\* The same agent, which may also be killed and restarted at any point.
CrashSpec == Init /\ [][Next \/ Restart]_vars

\* No request handler is in the middle of a call sequence.
Quiescent == \A r \in Reqs : pc[r] = "idle"

-----------------------------------------------------------------------------
(* Properties *)

\* Some handler is deleting VM n and has passed the given step.
Deleting(n, steps) == \E r \in Reqs : rname[r] = n /\ pc[r] \in steps

\* Some handler is creating VM n and has passed the hypervisor call.
Creating(n) == \E r \in Reqs : rname[r] = n /\ pc[r] \in {"c_cleanup", "c_save", "c_alloc"}

(* Every VM the registry lists has a libvirt domain, except while a Delete
   of it runs between undefining the domain and removing the record.  This
   is what lets Delete, Start and Stop of a listed VM reach the hypervisor;
   Delete of a record without a domain fails forever at the lookup. *)
RecordHasDomain ==
    \A n \in Names :
        regMem[n] # None =>
            dom[n] # "undefined" \/ Deleting(n, {"d_disk", "d_reg"})

(* Spec I2: every VM the registry lists has its overlay disk file, except
   while a Delete of it runs between deleting the disk and the record. *)
DiskBacksRecord ==
    \A n \in Names :
        regMem[n] # None => n \in disks \/ Deleting(n, {"d_reg"})

(* Spec 4.4: a domain whose start fails is undefined before CreateVM
   returns, so every libvirt domain belongs to a listed VM or to a Create
   still running past its hypervisor call. *)
NoOrphanDomain ==
    \A n \in Names :
        dom[n] # "undefined" => regMem[n] # None \/ Creating(n)

=============================================================================
