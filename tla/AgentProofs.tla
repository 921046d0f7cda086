---------------------------- MODULE AgentProofs ----------------------------
(***************************************************************************)
(* Type correctness of the agent process around the engine: registration, *)
(* the heartbeat goroutine with its retries, shutdown and the late        *)
(* heartbeat, for any names, footprints, capacities, number of handlers   *)
(* and retry limit.                                                       *)
(***************************************************************************)
EXTENDS Agent, EngineProofs

USE AgentAssumption

(* AgentTypeOK with what the heartbeat goroutine holds between its steps:
   after getResources a ledger snapshot, after getVMs an inventory
   snapshot, and while retry.Do runs fewer failed attempts than its limit,
   so the next failure still counts within 0..MaxAttempts. *)
AgentInv ==
    /\ AgentTypeOK
    /\ hb \in {"read", "send"} => hbRes \in Ledgers
    /\ hb = "send" => hbVMs \in Views /\ tries < MaxAttempts

(* The agent's own variables of AgentInv, which the engine's steps leave
   alone; the Boolean client flag apart from the rest, which has arithmetic
   on the retry counter. *)
AgentDataOK ==
    /\ main \in {"register", "serve", "unregister", "drain", "exit"}
    /\ hb \in {"off", "wait", "read", "send", "stopped"}
    /\ hbRes \in Ledgers \cup {None}
    /\ hbVMs \in Views \cup {None}
    /\ tries \in 0..MaxAttempts
    /\ late \in Msg \cup {None}
    /\ core \in {"none", "registered", "unregistered"}
    /\ coreRes \in Ledgers \cup {None}
    /\ coreVMs \in Views \cup {None}
    /\ hb \in {"read", "send"} => hbRes \in Ledgers
    /\ hb = "send" => hbVMs \in Views /\ tries < MaxAttempts

AgentLocalsOK == client \in BOOLEAN /\ AgentDataOK

LEMMA AgentInvSplit == AgentInv <=> TypeOK /\ AgentLocalsOK
BY DEF AgentInv, AgentTypeOK, AgentLocalsOK, AgentDataOK

LEMMA AgentInitInv == AgentInit => AgentInv
<1> SUFFICES ASSUME AgentInit PROVE TypeOK /\ AgentLocalsOK
    BY AgentInvSplit
<1>1. TypeOK
    BY InitTypeOK DEF AgentInit
<1>2. client \in BOOLEAN
    BY DEF AgentInit
<1>3. AgentDataOK
    BY DEF AgentInit, AgentDataOK
<1>4. QED BY <1>1, <1>2, <1>3 DEF AgentLocalsOK

\* A step of the agent's own goroutines leaves the engine's state alone.
LEMMA UnchangedTypeOK ==
    ASSUME TypeOK, UNCHANGED vars
    PROVE  TypeOK'
BY DEF TypeOK, vars

\* A step of the engine or of the guests is a step of Engine's Next.
LEMMA EngineStep ==
    ASSUME TypeOK, Serve \/ Guest
    PROVE  TypeOK' /\ UNCHANGED agentVars
BY NextTypeOK DEF Serve, Guest, Next

\* The agent's steps, each of which leaves the engine's variables alone.
AgentOwnStep ==
    \/ Register \/ Tick \/ ReadVMs \/ AttemptOk \/ AttemptFail
    \/ Shutdown \/ Unregister \/ Drain \/ DeliverLate

\* Only the startup step sets the client flag.
LEMMA OwnStepClient ==
    ASSUME client \in BOOLEAN, AgentOwnStep
    PROVE  client' \in BOOLEAN
BY Zenon DEF AgentOwnStep, Register, Tick, ReadVMs, AttemptOk, AttemptFail,
             Shutdown, Unregister, Drain, DeliverLate

\* Register with the client flag, which only it sets, left aside.
LEMMA RegisterData ==
    ASSUME Register
    PROVE  /\ main = "register" /\ main' = "serve"
           /\ \/ UNCHANGED <<core, coreRes, hb>>
              \/ RegisterAgent(avail)
           /\ UNCHANGED <<vars, hbRes, hbVMs, tries, late, coreVMs>>
BY Zenon DEF Register

LEMMA OwnStepData ==
    ASSUME TypeOK, AgentDataOK, AgentOwnStep
    PROVE  AgentDataOK' /\ UNCHANGED vars
<1> USE DEF AgentDataOK
<1>1. CASE Register
    BY <1>1, RegisterData DEF RegisterAgent, Ledgers, TypeOK
<1>2. CASE Tick
    BY <1>2 DEF Tick, Ledgers, TypeOK
<1>3. CASE ReadVMs
    BY <1>3 DEF ReadVMs, Views, TypeOK
<1>4. CASE AttemptOk
    BY <1>4 DEF AttemptOk
<1>5. CASE AttemptFail
    BY <1>5 DEF AttemptFail
<1>6. CASE Shutdown
    BY <1>6 DEF Shutdown, Msg
<1>7. CASE Unregister
    BY <1>7 DEF Unregister, UnregisterAgent
<1>8. CASE Drain
    BY <1>8 DEF Drain
<1>9. CASE DeliverLate
    BY <1>9 DEF DeliverLate, Msg
<1>10. QED
    BY <1>1, <1>2, <1>3, <1>4, <1>5, <1>6, <1>7, <1>8, <1>9 DEF AgentOwnStep

LEMMA AgentNextInv == AgentInv /\ [AgentNext]_allVars => AgentInv'
<1> SUFFICES ASSUME TypeOK, AgentLocalsOK, [AgentNext]_allVars
             PROVE  TypeOK' /\ AgentLocalsOK'
    BY Zenon DEF AgentInv, AgentTypeOK, AgentLocalsOK, AgentDataOK
<1>1. CASE Serve \/ Guest
    BY <1>1, EngineStep DEF AgentLocalsOK, AgentDataOK, agentVars
<1>2. CASE AgentOwnStep
    BY <1>2, OwnStepClient, OwnStepData, UnchangedTypeOK DEF AgentLocalsOK
<1>3. CASE UNCHANGED allVars
    <2>1. UNCHANGED vars /\ UNCHANGED agentVars
        BY <1>3 DEF allVars
    <2>2. QED BY <2>1, UnchangedTypeOK DEF AgentLocalsOK, AgentDataOK, agentVars
<1>4. QED
    BY <1>1, <1>2, <1>3 DEF AgentNext, AgentOwnStep

(* Type correctness of the agent process, AgentTypeOK: whatever the
   engine's handlers, the guests, the network and the shutdown signal do,
   the agent's state keeps its types; in particular the heartbeat retry
   loop never counts past retry.Attempts(MaxAttempts), and a heartbeat
   sent, retried or delivered late always carries a ledger and an
   inventory snapshot. *)
THEOREM AgentTypeCorrect == AgentSpec => []AgentTypeOK
<1>1. AgentInit => AgentInv
    BY AgentInitInv
<1>2. AgentInv /\ [AgentNext]_allVars => AgentInv'
    BY AgentNextInv
<1>3. AgentInv => AgentTypeOK
    BY DEF AgentInv
<1>4. QED BY <1>1, <1>2, <1>3, PTL DEF AgentSpec
-----------------------------------------------------------------------------
(* What the orchestrator can still learn after the unregistration. *)

(* After the shutdown signal the heartbeat goroutine is cancelled (or was
   never started), and the orchestrator drops the agent only in main's
   UnregisterAgent, which follows the cancellation. *)
ShutdownOrder ==
    /\ main \in {"unregister", "drain", "exit"} => hb \in {"off", "stopped"}
    /\ core = "unregistered" => main \in {"drain", "exit"}


\* The inductive invariant behind OnlyLateAfterUnregister.
UInv == AgentInv /\ ShutdownOrder

LEMMA ShutdownOrderNext ==
    ASSUME AgentInv, ShutdownOrder, [AgentNext]_allVars
    PROVE  ShutdownOrder'
<1> USE DEF ShutdownOrder
<1>1. CASE Serve \/ Guest
    BY <1>1 DEF Serve, Guest, agentVars
<1>2. CASE Register
    BY <1>2, RegisterData DEF RegisterAgent
<1>3. CASE Tick \/ ReadVMs \/ AttemptOk \/ AttemptFail
    BY <1>3 DEF Tick, ReadVMs, AttemptOk, AttemptFail
<1>4. CASE Shutdown
    BY <1>4 DEF Shutdown
<1>5. CASE Unregister
    BY <1>5 DEF Unregister, UnregisterAgent
<1>6. CASE Drain \/ DeliverLate
    BY <1>6 DEF Drain, DeliverLate
<1>7. CASE UNCHANGED allVars
    BY <1>7 DEF allVars, agentVars
<1>8. QED BY <1>1, <1>2, <1>3, <1>4, <1>5, <1>6, <1>7 DEF AgentNext

LEMMA UInvNext == UInv /\ [AgentNext]_allVars => UInv'
BY AgentNextInv, ShutdownOrderNext DEF UInv

\* A step from a state where the agent is unregistered.
LEMMA AfterUnregisterStep ==
    ASSUME UInv, [AgentNext]_allVars, core = "unregistered",
           <<coreRes, coreVMs>>' # <<coreRes, coreVMs>>
    PROVE  late # None /\ <<coreRes', coreVMs'>> = <<late.res, late.vms>>
<1>1. main \in {"drain", "exit"} /\ hb \in {"off", "stopped"}
    BY DEF UInv, ShutdownOrder
<1>2. ~Register /\ ~AttemptOk /\ ~AttemptFail
    BY <1>1 DEF Register, AttemptOk, AttemptFail
<1>3. ~(Serve \/ Guest \/ Tick \/ ReadVMs \/ Shutdown \/ Unregister \/ Drain)
    BY DEF Serve, Guest, Tick, ReadVMs, Shutdown, Unregister, Drain, agentVars
<1>4. ~UNCHANGED allVars
    BY DEF allVars, agentVars
<1>5. DeliverLate
    BY <1>2, <1>3, <1>4 DEF AgentNext
<1>6. QED BY <1>5 DEF DeliverLate

(* Spec 4.8, OnlyLateAfterUnregister: for any names, footprints,
   capacities, handlers and retry limit, once UnregisterAgent has dropped
   the agent the orchestrator's view of it changes only by the heartbeat
   request that was on the wire when main cancelled the heartbeat: main
   cancels the goroutine before it unregisters, and a cancelled goroutine
   sends nothing new. *)
THEOREM OnlyLateAfterUnregisterHolds == AgentSpec => OnlyLateAfterUnregister
<1>1. AgentInit => UInv
    BY AgentInitInv DEF UInv, ShutdownOrder, AgentInit
<1>2. UInv /\ [AgentNext]_allVars => UInv'
    BY UInvNext
<1>3. UInv /\ [AgentNext]_allVars =>
        [core = "unregistered" /\ <<coreRes, coreVMs>>' # <<coreRes, coreVMs>>
           => late # None /\ <<coreRes', coreVMs'>> = <<late.res, late.vms>>]_allVars
    BY AfterUnregisterStep
<1>4. QED BY <1>1, <1>2, <1>3, PTL DEF AgentSpec, OnlyLateAfterUnregister

=============================================================================
