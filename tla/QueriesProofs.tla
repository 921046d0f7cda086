--------------------------- MODULE QueriesProofs ---------------------------
(***************************************************************************)
(* Type correctness of the read-only gRPC calls running beside the        *)
(* engine's handlers: the engine's steps are covered by NextTypeOK of     *)
(* EngineProofs, the query goroutines' steps change only their own        *)
(* variables.                                                             *)
(***************************************************************************)
EXTENDS Queries, EngineProofs

USE QueriesAssumption

LEMMA QInitTypeOK == QInit => QTypeOK
BY InitTypeOK DEF QInit, QTypeOK, Answers

\* Every gRPC code toGRPCError produces for the use cases' errors.
LEMMA CodeAnswer ==
    ASSUME NEW e \in ErrorCodes
    PROVE  [kind |-> "code", code |-> ToGRPCCode(e)] \in Answers
BY DEF Answers

\* Answer leaves the goroutine idle with a well-typed answer.
LEMMA AnswerTypeOK ==
    ASSUME QTypeOK, NEW q \in Qs, NEW a \in Answers, Answer(q, a)
    PROVE  /\ qpc' \in [Qs -> {"idle", "q_hyp"}]
           /\ qname' \in [Qs -> Names \cup {None}]
           /\ qrec' \in [Qs -> Sizes \cup {None}]
           /\ qans' \in [Qs -> Answers \cup {None}]
           /\ \A p \in Qs : qpc'[p] = "q_hyp" => qname'[p] \in Names /\ qrec'[p] \in Sizes
BY DEF Answer, QTypeOK

\* The query-side conjuncts of QTypeOK.
QLocalsOK ==
    /\ qpc \in [Qs -> {"idle", "q_hyp"}]
    /\ qname \in [Qs -> Names \cup {None}]
    /\ qrec \in [Qs -> Sizes \cup {None}]
    /\ qans \in [Qs -> Answers \cup {None}]
    /\ \A q \in Qs : qpc[q] = "q_hyp" => qname[q] \in Names /\ qrec[q] \in Sizes

LEMMA QueryTypeOK ==
    ASSUME QTypeOK, NEW q \in Qs, Query(q)
    PROVE  QLocalsOK'
<1> USE DEF QLocalsOK
<1>1. CASE StatusInvalid(q)
    BY <1>1, CodeAnswer, AnswerTypeOK DEF StatusInvalid, ErrorCodes
<1>2. ASSUME NEW n \in Names, StatusFind(q, n) PROVE QLocalsOK'
    <2>1. CASE regMem[n] = None
        BY <1>2, <2>1, CodeAnswer, AnswerTypeOK DEF StatusFind, ErrorCodes
    <2>2. CASE regMem[n] # None
        BY <1>2, <2>2 DEF StatusFind, QTypeOK, TypeOK
    <2>3. QED BY <2>1, <2>2
<1>3. CASE StatusHyp(q)
    <2>1. PICK h \in HypStatus(qname[q]) :
              IF h.ok
                THEN Answer(q, [kind |-> "status", name |-> qname[q],
                                size |-> qrec[q], state |-> h.state])
                ELSE Answer(q, [kind |-> "code", code |-> ToGRPCCode("HYPERVISOR_ERROR")])
        BY <1>3 DEF StatusHyp
    <2>2. CASE h.ok
        <3>1. qname[q] \in Names /\ qrec[q] \in Sizes
            BY <1>3 DEF StatusHyp, QTypeOK
        <3>2. h.state \in VMStatuses
            BY <2>2 DEF HypStatus, MapState, VMStatuses
        <3>3. [kind |-> "status", name |-> qname[q], size |-> qrec[q],
               state |-> h.state] \in Answers
            BY <3>1, <3>2 DEF Answers
        <3>4. QED BY <2>1, <2>2, <3>3, AnswerTypeOK
    <2>3. CASE ~h.ok
        BY <2>1, <2>3, CodeAnswer, AnswerTypeOK DEF ErrorCodes
    <2>4. QED BY <2>2, <2>3
<1>4. CASE List(q)
    <2>1. PICK h \in HypList :
              IF h.ok
                THEN Answer(q, [kind |-> "list", vms |-> h.vms])
                ELSE Answer(q, [kind |-> "code", code |-> ToGRPCCode("HYPERVISOR_ERROR")])
        BY <1>4 DEF List
    <2>2. CASE h.ok
        <3>1. PICK st \in [{m \in Names : dom[m] # "undefined"} -> VMStatuses] :
                  h = [ok |-> TRUE, vms |-> st]
            BY <2>2 DEF HypList
        <3>2. [kind |-> "list", vms |-> h.vms] \in Answers
            BY <3>1 DEF Answers
        <3>3. QED BY <2>1, <2>2, <3>2, AnswerTypeOK
    <2>3. CASE ~h.ok
        BY <2>1, <2>3, CodeAnswer, AnswerTypeOK DEF ErrorCodes
    <2>4. QED BY <2>2, <2>3
<1>5. QED BY <1>1, <1>2, <1>3, <1>4 DEF Query

LEMMA QNextTypeOK == QTypeOK /\ [QNext]_allQVars => QTypeOK'
<1> SUFFICES ASSUME QTypeOK, [QNext]_allQVars PROVE QTypeOK'
    OBVIOUS
<1>1. CASE Next /\ UNCHANGED qvars
    <2>1. TypeOK'
        BY <1>1, NextTypeOK DEF QTypeOK
    <2>2. QED BY <1>1, <2>1 DEF QTypeOK, qvars
<1>2. ASSUME NEW q \in Qs, Query(q) PROVE QTypeOK'
    <2>1. UNCHANGED vars
        BY <1>2 DEF Query, StatusInvalid, StatusFind, StatusHyp, List
    <2>2. TypeOK'
        BY <2>1, NextTypeOK DEF QTypeOK
    <2>3. QED BY <1>2, <2>2, QueryTypeOK DEF QTypeOK, QLocalsOK
<1>3. CASE UNCHANGED allQVars
    <2>1. TypeOK'
        BY <1>3, NextTypeOK DEF QTypeOK, allQVars
    <2>2. QED BY <1>3, <2>1 DEF QTypeOK, allQVars, qvars
<1>4. QED BY <1>1, <1>2, <1>3 DEF QNext

(* Type correctness of the engine with its query goroutines, QTypeOK: for
   any names, footprints, totals and numbers of handlers and query
   goroutines, every state types, and a GetVMStatus between FindByID and
   the adapter call holds a listed name and a real footprint, so the
   status it returns is well formed. *)
THEOREM QueriesTypeCorrect == QSpec => []QTypeOK
<1>1. QInit => QTypeOK
    BY QInitTypeOK
<1>2. QTypeOK /\ [QNext]_allQVars => QTypeOK'
    BY QNextTypeOK
<1>3. QED BY <1>1, <1>2, PTL DEF QSpec
=============================================================================
