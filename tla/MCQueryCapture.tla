----------------------------- MODULE MCQueryCapture -----------------------------
(***************************************************************************)
(* Small instances of QueryCapture: two engines for one model runner, with *)
(* a handle each; the second can install once the first has closed.  What  *)
(* a handle does to a runner that is not its own is left to the proofs,    *)
(* which hold for any runners and configs.                                 *)
(***************************************************************************)
EXTENDS QueryCapture, TLC

CONSTANTS ha, hb, ra

MCConfig == (ha :> "A") @@ (hb :> "A") @@ (ra :> "A")
=================================================================================
