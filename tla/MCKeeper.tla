------------------------------- MODULE MCKeeper -------------------------------
(* Two overlapping pipelines of the keeper: one with up to two liquidations *)
(* and one with a single liquidation.                                      *)
EXTENDS Keeper

MCMaxBatch == [p \in Callers |-> IF p = Startup THEN 2 ELSE 1]

MCRequests == UNION {{p} \X (1 .. MCMaxBatch[p]) : p \in Callers}
=============================================================================
