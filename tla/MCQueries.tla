------------------------------ MODULE MCQueries ------------------------------
(* The engine with one handler, a query goroutine beside it and the
   refinement mapping to the atomic ledger, on the instance of MCEngine. *)
EXTENDS Queries, EngineRefinement, MCEngine

CONSTANT q1

MCQs == {q1}

=============================================================================
