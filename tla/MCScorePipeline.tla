----------------------------- MODULE MCScorePipeline -----------------------------
(***************************************************************************)
(* Small instances of ScorePipeline: a single worker with two requests, a  *)
(* pair with two, three workers with one, and start-ups that are refused.  *)
(***************************************************************************)
EXTENDS ScorePipeline

Start(world, tp, pp, kvHeads, reduction, batch) ==
    [world |-> world, tp |-> tp, pp |-> pp, kvHeads |-> kvHeads,
     reduction |-> reduction, batch |-> batch]

MCDeployments == {
    Start(1, 1, 1, 2, "max", 2), Start(2, 2, 1, 2, "mean", 2),
    Start(3, 3, 1, 3, "max", 1), Start(3, 3, 1, 1, "mean", 1),
    Start(2, 2, 1, 1, "max", 2), Start(2, 1, 2, 2, "mean", 2), Start(2, 1, 1, 2, "mean", 2) }

MCRelevances == {
    [k \in Keys |-> None], [k \in Keys |-> [num |-> 0, den |-> 1]],
    [k \in Keys |-> IF k = 2 THEN None ELSE [num |-> 6, den |-> 1]] }
=================================================================================
