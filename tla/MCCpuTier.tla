-------------------------------- MODULE MCCpuTier --------------------------------
(***************************************************************************)
(* Small instances of CpuTier: two requests whose chains fork after their  *)
(* first key, a tier of one block less than the keys, and one policy of    *)
(* each kind.                                                              *)
(***************************************************************************)
EXTENDS CpuTier

CONSTANTS a, b, c, d, r1, r2

MCChain == [r \in {r1, r2} |-> IF r = r1 THEN <<a, b, c>> ELSE <<a, d>>]

Policy(mode, window, chain, session, halfLife, scoring) ==
    [mode |-> mode, graceWindow |-> window, chainAware |-> chain,
     sessionAware |-> session, halfLife |-> halfLife, scoring |-> scoring]

MCConfigs == {
    Policy("unscored_last", 0, FALSE, FALSE, 0, TRUE),
    Policy("blend", 1, FALSE, FALSE, 0, TRUE),
    Policy("blend", 0, TRUE, FALSE, 0, FALSE),
    Policy("blend", 0, FALSE, TRUE, 1, FALSE) }
=================================================================================
