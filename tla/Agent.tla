------------------------------- MODULE Agent -------------------------------
(***************************************************************************)
(* The agent process around the engine: main's startup registration with *)
(* the orchestrator (cmd/ghost-agent/main.go), the heartbeat goroutine and *)
(* its retries (apiclient/client.go), the shutdown sequence, and what the  *)
(* orchestrator last learnt of this node.  The engine's handlers serve    *)
(* gRPC calls from the moment the server starts until GracefulStop has    *)
(* drained them.                                                           *)
(*                                                                         *)
(* One heartbeat attempt (sendHeartbeatInternal) is one step: the request *)
(* is processed by the orchestrator or lost, and the response arrives or  *)
(* not.  A request still on the wire when the heartbeat context is        *)
(* cancelled may reach the orchestrator later (late).  Backoff delays and *)
(* the ticker period are time, which the model leaves out: a tick is a    *)
(* step that can happen whenever the goroutine waits in its select.       *)
(***************************************************************************)
EXTENDS Engine

CONSTANT MaxAttempts   \* retry.Attempts(3) in SendHeartbeat

ASSUME AgentAssumption == MaxAttempts \in Nat \ {0}

VARIABLES
    main,     \* main goroutine: "register", "serve", "unregister", "drain", "exit"
    client,   \* apiClient # nil: NewClient succeeded
    hb,       \* heartbeat goroutine: "off" (never started), "wait", "read", "send", "stopped"
    hbRes,    \* the ledger snapshot of the current heartbeat (getResources)
    hbVMs,    \* the registry snapshot of the current heartbeat (getVMs)
    tries,    \* attempts retry.Do has made for the current heartbeat
    late,     \* a cancelled heartbeat request still on the wire, or None
    core,     \* the orchestrator's record of this agent: "none", "registered", "unregistered"
    coreRes,  \* the ledger the orchestrator last received, or None
    coreVMs   \* the inventory the orchestrator last received, or None

agentVars == <<main, client, hb, hbRes, hbVMs, tries, late, core, coreRes, coreVMs>>

allVars == <<vars, agentVars>>

Ledgers == [Res -> Int]

Views == [Names -> Sizes \cup {None}]

\* A heartbeat request: the two snapshots it carries.
Msg == [res : Ledgers, vms : Views]

AgentTypeOK ==
    /\ TypeOK
    /\ main \in {"register", "serve", "unregister", "drain", "exit"}
    /\ client \in BOOLEAN
    /\ hb \in {"off", "wait", "read", "send", "stopped"}
    /\ hbRes \in Ledgers \cup {None}
    /\ hbVMs \in Views \cup {None}
    /\ tries \in 0..MaxAttempts
    /\ late \in Msg \cup {None}
    /\ core \in {"none", "registered", "unregistered"}
    /\ coreRes \in Ledgers \cup {None}
    /\ coreVMs \in Views \cup {None}

\* main lines 122-125: no client, no heartbeat; the engine is ready.
AgentInit ==
    /\ Init
    /\ main = "register"
    /\ client = FALSE
    /\ hb = "off"
    /\ hbRes = None
    /\ hbVMs = None
    /\ tries = 0
    /\ late = None
    /\ core = "none"
    /\ coreRes = None
    /\ coreVMs = None

-----------------------------------------------------------------------------
(* Startup *)

(* RegisterAgent: the orchestrator records the agent and answers with its
   id; or the call fails or is rejected; or the orchestrator records it and
   the answer is lost, which the client sees as an error. *)
RegisterAgent(res) ==
    \/ /\ core' = "registered" /\ coreRes' = res
       /\ hb' = "wait"
    \/ UNCHANGED <<core, coreRes, hb>>
    \/ /\ core' = "registered" /\ coreRes' = res
       /\ UNCHANGED hb

(* main lines 126-161: NewClient may fail (the client stays nil); with a
   client, RegisterAgent is sent the ledger; the heartbeat goroutine starts
   only if it succeeds, and nothing retries a failed registration. *)
Register ==
    /\ main = "register"
    /\ \/ /\ client' = FALSE
          /\ UNCHANGED <<core, coreRes, hb>>
       \/ /\ client' = TRUE
          /\ RegisterAgent(avail)
    /\ main' = "serve"
    /\ UNCHANGED <<vars, hbRes, hbVMs, tries, late, coreVMs>>

-----------------------------------------------------------------------------
(* The heartbeat goroutine (StartHeartbeat) *)

\* Lines 260-266: a tick; getResources reads the ledger.
Tick ==
    /\ hb = "wait"
    /\ hbRes' = avail
    /\ hb' = "read"
    /\ UNCHANGED <<vars, main, client, hbVMs, tries, late, core, coreRes, coreVMs>>

\* Line 267: getVMs reads the registry, in a separate call.
ReadVMs ==
    /\ hb = "read"
    /\ hbVMs' = regMem
    /\ tries' = 0
    /\ hb' = "send"
    /\ UNCHANGED <<vars, main, client, hbRes, late, core, coreRes, coreVMs>>

\* sendHeartbeatInternal succeeds: the orchestrator took the snapshots.
AttemptOk ==
    /\ hb = "send"
    /\ coreRes' = hbRes
    /\ coreVMs' = hbVMs
    /\ hb' = "wait"
    /\ UNCHANGED <<vars, main, client, hbRes, hbVMs, tries, late, core>>

\* Mutant: the retry loop has no attempt limit.
AttemptFailNoLimit ==
    /\ hb = "send"
    /\ \/ UNCHANGED <<coreRes, coreVMs>>
       \/ coreRes' = hbRes /\ coreVMs' = hbVMs
    /\ tries' = tries + 1
    /\ UNCHANGED <<vars, main, client, hb, hbRes, hbVMs, late, core>>

\* Mutant: the goroutine returns after a heartbeat has exhausted its retries.
AttemptFailStop ==
    /\ hb = "send"
    /\ \/ UNCHANGED <<coreRes, coreVMs>>
       \/ coreRes' = hbRes /\ coreVMs' = hbVMs
    /\ tries' = tries + 1
    /\ hb' = IF tries + 1 = MaxAttempts THEN "stopped" ELSE "send"
    /\ UNCHANGED <<vars, main, client, hbRes, hbVMs, late, core>>

(* An attempt fails: the request is lost or rejected, or the orchestrator
   took it and the answer is lost.  retry.Do tries again with the same
   snapshots, and after MaxAttempts failures StartHeartbeat logs the error
   and waits for the next tick. *)
AttemptFail ==
    /\ hb = "send"
    /\ \/ UNCHANGED <<coreRes, coreVMs>>
       \/ coreRes' = hbRes /\ coreVMs' = hbVMs
    /\ tries' = tries + 1
    /\ hb' = IF tries + 1 = MaxAttempts THEN "wait" ELSE "send"
    /\ UNCHANGED <<vars, main, client, hbRes, hbVMs, late, core>>

-----------------------------------------------------------------------------
(* Shutdown *)

\* Mutant: the heartbeat is not cancelled on the signal.
ShutdownNoCancel ==
    /\ main = "serve"
    /\ late' = None
    /\ main' = "unregister"
    /\ UNCHANGED <<vars, client, hb, hbRes, hbVMs, tries, core, coreRes, coreVMs>>

(* main lines 211-225: on the signal, heartbeatCancel.  The goroutine sends
   nothing more, but a request it has on the wire may still be processed. *)
Shutdown ==
    /\ main = "serve"
    /\ hb' = IF hb = "off" THEN "off" ELSE "stopped"
    /\ late' \in IF hb = "send" THEN {None, [res |-> hbRes, vms |-> hbVMs]}
                                ELSE {None}
    /\ main' = "unregister"
    /\ UNCHANGED <<vars, client, hbRes, hbVMs, tries, core, coreRes, coreVMs>>

\* UnregisterAgent: the orchestrator drops an agent it knows, or the call fails.
UnregisterAgent ==
    \/ core = "registered" /\ core' = "unregistered"
    \/ UNCHANGED core

\* main lines 227-233: unregister if there is a client; errors are logged.
Unregister ==
    /\ main = "unregister"
    /\ IF client THEN UnregisterAgent ELSE UNCHANGED core
    /\ main' = "drain"
    /\ UNCHANGED <<vars, client, hb, hbRes, hbVMs, tries, late, coreRes, coreVMs>>

\* main lines 235-250: GracefulStop returns once no call is in progress.
Drain ==
    /\ main = "drain"
    /\ Quiescent
    /\ main' = "exit"
    /\ UNCHANGED <<vars, client, hb, hbRes, hbVMs, tries, late, core, coreRes, coreVMs>>

\* The orchestrator processes a cancelled request that was on the wire.
DeliverLate ==
    /\ late # None
    /\ coreRes' = late.res
    /\ coreVMs' = late.vms
    /\ late' = None
    /\ UNCHANGED <<vars, main, client, hb, hbRes, hbVMs, tries, core>>

(* main lines 163-184: the gRPC server runs the engine's handlers from
   after registration until GracefulStop, which lets calls in progress
   finish but accepts no new one. *)
Serve ==
    /\ main \in {"serve", "unregister", "drain"}
    /\ \E r \in Reqs : /\ pc[r] = "idle" => main # "drain"
                       /\ Handler(r)
    /\ UNCHANGED agentVars

\* The guests are independent of the agent process.
Guest ==
    /\ \E n \in Names : GuestPowerOff(n)
    /\ UNCHANGED agentVars

AgentNext ==
    \/ Register \/ Serve \/ Guest
    \/ Tick \/ ReadVMs \/ AttemptOk \/ AttemptFail
    \/ Shutdown \/ Unregister \/ Drain \/ DeliverLate

(* The goroutines of the agent are weakly fair.  The network is not, except
   that it does not fail every attempt forever: a heartbeat that is retried
   again and again eventually gets through (strong fairness of AttemptOk).
   The shutdown signal and the guests are the environment: no fairness. *)
Fairness ==
    /\ WF_allVars(Register)
    /\ WF_allVars(Tick)
    /\ WF_allVars(ReadVMs)
    /\ WF_allVars(AttemptOk \/ AttemptFail)
    /\ SF_allVars(AttemptOk)
    /\ WF_allVars(Unregister)
    /\ WF_allVars(Drain)

AgentSpec == AgentInit /\ [][AgentNext]_allVars /\ Fairness

-----------------------------------------------------------------------------
(* Properties *)

(* Spec 4.8 and glossary "Reconciliation": once the agent has registered
   and its registry stops changing while it serves, the orchestrator's view
   of the inventory converges to the registry, whatever heartbeats failed
   or were retried on the way. *)
Converges ==
    \A v \in Views :
        <>[](main = "serve" /\ hb # "off" /\ regMem = v) => <>[](coreVMs = v)

(* Spec 4.8: after startup the agent reports its inventory to the
   orchestrator; as long as it serves with a client to Ghost Core, a
   heartbeat eventually arrives.  main calls RegisterAgent once and starts
   the heartbeat only on its success; a failed call, or one the
   orchestrator processed whose answer was lost, is logged and never
   retried. *)
ReportsWhileServing ==
    (main = "serve" /\ client) ~> (coreVMs # None \/ main # "serve")

(* Spec 4.8, shutdown: once the orchestrator has dropped the agent on
   UnregisterAgent, nothing the agent does changes the orchestrator's view
   of its resources and inventory, except the one heartbeat request that
   was already on the wire when main cancelled the heartbeat goroutine
   (heartbeatCancel does not wait for it before UnregisterAgent). *)
OnlyLateAfterUnregister ==
    [][core = "unregistered" /\ <<coreRes, coreVMs>>' # <<coreRes, coreVMs>>
          => late # None /\ <<coreRes', coreVMs'>> = <<late.res, late.vms>>]_allVars

=============================================================================
