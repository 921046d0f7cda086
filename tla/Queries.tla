------------------------------ MODULE Queries ------------------------------
(***************************************************************************)
(* The read-only calls of the gRPC facade, GetVMStatus and ListVMs, served *)
(* by their own goroutines q \in Qs while the engine's handlers run:       *)
(* GetVMStatusUseCase reads the registry and then asks the hypervisor      *)
(* adapter, ListVMsUseCase asks only the adapter.  The facade turns a use  *)
(* case's error into a gRPC status with toGRPCError.  IPs are left out:    *)
(* GetVMIP changes nothing and its failure falls back to the record.      *)
(***************************************************************************)
EXTENDS Engine

CONSTANT Qs   \* concurrent query goroutines

ASSUME QueriesAssumption == Qs \cap Reqs = {}

\* entity.VMStatus values the adapter reports.
VMStatuses == {"running", "stopped", "paused", "error"}

\* errors.ErrorCode values the use cases raise.
ErrorCodes == {"VALIDATION_ERROR", "RESOURCE_LIMIT_EXCEEDED", "HYPERVISOR_ERROR",
               "NETWORK_ERROR", "STORAGE_ERROR", "NOT_FOUND", "CONFLICT",
               "INTERNAL_ERROR"}

\* Adapter.mapLibvirtState, on the domain states the model has.
MapState(d) ==
    CASE d = "running" -> "running"
      [] d = "shutoff" -> "stopped"
      [] OTHER         -> "error"

\* toGRPCError: the gRPC code of an AppError.
ToGRPCCode(code) ==
    CASE code = "VALIDATION_ERROR"        -> "InvalidArgument"
      [] code = "NOT_FOUND"               -> "NotFound"
      [] code = "CONFLICT"                -> "AlreadyExists"
      [] code = "RESOURCE_LIMIT_EXCEEDED" -> "ResourceExhausted"
      [] OTHER                            -> "Internal"

\* The answers a query goroutine returns.
Answers ==
    [kind : {"status"}, name : Names, size : Sizes, state : VMStatuses]
    \cup [kind : {"code"}, code : {ToGRPCCode(c) : c \in ErrorCodes}]
    \cup [kind : {"list"}, vms : UNION {[S -> VMStatuses] : S \in SUBSET Names}]

VARIABLES
    qpc,    \* "idle", or "q_hyp" between FindByID and the adapter call
    qname,  \* the VM a GetVMStatus asks for
    qrec,   \* the footprint of the record FindByID returned
    qans    \* the last answer of each query goroutine

qvars == <<qpc, qname, qrec, qans>>

allQVars == <<vars, qvars>>

QTypeOK ==
    /\ TypeOK
    /\ qpc \in [Qs -> {"idle", "q_hyp"}]
    /\ qname \in [Qs -> Names \cup {None}]
    /\ qrec \in [Qs -> Sizes \cup {None}]
    /\ qans \in [Qs -> Answers \cup {None}]
    /\ \A q \in Qs : qpc[q] = "q_hyp" => qname[q] \in Names /\ qrec[q] \in Sizes

QInit ==
    /\ Init
    /\ qpc = [q \in Qs |-> "idle"]
    /\ qname = [q \in Qs |-> None]
    /\ qrec = [q \in Qs |-> None]
    /\ qans = [q \in Qs |-> None]

\* A query goroutine returns an answer and forgets the request.
Answer(q, a) ==
    /\ qans' = [qans EXCEPT ![q] = a]
    /\ qpc' = [qpc EXCEPT ![q] = "idle"]
    /\ qname' = [qname EXCEPT ![q] = None]
    /\ qrec' = [qrec EXCEPT ![q] = None]

\* Mutant: the FindByID miss is not checked.
StatusFindNoCheck(q, n) ==
    /\ qpc[q] = "idle"
    /\ qpc' = [qpc EXCEPT ![q] = "q_hyp"]
    /\ qname' = [qname EXCEPT ![q] = n]
    /\ qrec' = [qrec EXCEPT ![q] = regMem[n]]
    /\ UNCHANGED <<vars, qans>>

\* Step 1: the validator rejects a request with an empty VM id.
StatusInvalid(q) ==
    /\ qpc[q] = "idle"
    /\ Answer(q, [kind |-> "code", code |-> ToGRPCCode("VALIDATION_ERROR")])
    /\ UNCHANGED vars

\* GetVMStatusUseCase.Execute steps 1-2: FindByID; a miss is NotFound.
StatusFind(q, n) ==
    /\ qpc[q] = "idle"
    /\ IF regMem[n] = None
         THEN Answer(q, [kind |-> "code", code |-> ToGRPCCode("NOT_FOUND")])
         ELSE /\ qpc' = [qpc EXCEPT ![q] = "q_hyp"]
              /\ qname' = [qname EXCEPT ![q] = n]
              /\ qrec' = [qrec EXCEPT ![q] = regMem[n]]
              /\ UNCHANGED qans
    /\ UNCHANGED vars

(* Adapter.GetVMStatus under the adapter's read lock: the outcomes of a
   status request for n.  The lookup of an undefined name fails with
   NOT_FOUND; GetState may fail with a plain error; otherwise the mapped
   state. *)
HypStatus(n) ==
    IF dom[n] = "undefined"
      THEN {[ok |-> FALSE, code |-> "NOT_FOUND"]}
      ELSE {[ok |-> FALSE, code |-> "INTERNAL_ERROR"], [ok |-> TRUE, state |-> MapState(dom[n])]}

(* Step 3 of GetVMStatusUseCase.Execute and the response: a failed adapter
   call is wrapped in a HYPERVISOR_ERROR, which toGRPCError (errors.As finds
   the outer AppError) turns into Internal; otherwise the answer joins the
   record found in step 2 with the domain's state now. *)
StatusHyp(q) ==
    LET n == qname[q] IN
    /\ qpc[q] = "q_hyp"
    /\ \E h \in HypStatus(n) :
         IF h.ok
           THEN Answer(q, [kind |-> "status", name |-> n, size |-> qrec[q], state |-> h.state])
           ELSE Answer(q, [kind |-> "code", code |-> ToGRPCCode("HYPERVISOR_ERROR")])
    /\ UNCHANGED vars

(* Adapter.ListVMs under the read lock: ListAllDomains fails, or every
   defined domain, active or inactive, with its mapped state (a GetState
   error is ignored and leaves the zero state, which maps to error). *)
HypList ==
    {[ok |-> FALSE]}
    \cup {[ok |-> TRUE, vms |-> st] :
           st \in {f \in [{m \in Names : dom[m] # "undefined"} -> VMStatuses] :
                      \A n \in DOMAIN f : f[n] \in {MapState(dom[n]), "error"}}}

\* ListVMsUseCase.Execute: the adapter's list, or a HYPERVISOR_ERROR.
List(q) ==
    /\ qpc[q] = "idle"
    /\ \E h \in HypList :
         IF h.ok
           THEN Answer(q, [kind |-> "list", vms |-> h.vms])
           ELSE Answer(q, [kind |-> "code", code |-> ToGRPCCode("HYPERVISOR_ERROR")])
    /\ UNCHANGED vars

Query(q) ==
    \/ StatusInvalid(q)
    \/ \E n \in Names : StatusFind(q, n)
    \/ StatusHyp(q)
    \/ List(q)

QNext ==
    \/ Next /\ UNCHANGED qvars
    \/ \E q \in Qs : Query(q)

QSpec == QInit /\ [][QNext]_allQVars

-----------------------------------------------------------------------------
(* Properties *)

(* Spec, List() and "Reconciliation": List reports the union of the
   domains and the registry's records; a record with no domain is reported
   with state error.  ListVMsUseCase asks only the hypervisor.  The answer is compared with the registry at the
   moment the adapter lists the domains. *)
ListCoversRegistry ==
    [][\A q \in Qs :
         (qans'[q] # None /\ qans'[q] # qans[q] /\ qans'[q].kind = "list")
            => \A n \in Names : regMem[n] # None => n \in DOMAIN qans'[q].vms]_allQVars

=============================================================================
