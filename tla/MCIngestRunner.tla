---------------------------- MODULE MCIngestRunner ----------------------------
(***************************************************************************)
(* The answers of run_ingest_job, for model-checking IngestRunner.         *)
(***************************************************************************)
EXTENDS IngestRunner, TLC

CONSTANTS c1, c2, p1, p2

RouteAnswers ==
    {[http |-> 200, job |-> "success"], [http |-> 200, job |-> "partial_success"],
     [http |-> 422, job |-> "none"]}

RefusingAnswers == {[http |-> 401, job |-> "none"]}

Alike == Permutations(Client) \cup Permutations(Payload)
===============================================================================
