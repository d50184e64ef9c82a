------------------------- MODULE MCSemanticConnector -------------------------
(***************************************************************************)
(* Small instances of SemanticConnector for TLC: requests with chains of   *)
(* two or three keys (two chains share their first key, a common prefix),  *)
(* and the symmetry of GPU blocks and of workers.                          *)
(***************************************************************************)
EXTENDS SemanticConnector, TLC

CONSTANTS r1, r2, k1, k2, k3

MCTwoChains == (r1 :> <<k1, k2>>) @@ (r2 :> <<k1, k3>>)
MCOneChain  == r1 :> <<k1, k2>>
\* A prompt shorter than a chunk has no offloadable key.
MCShortPrompt == (r1 :> <<k1, k2>>) @@ (r2 :> <<>>)
MCLongChain == r1 :> <<k1, k2, k3>>

MCNoLocalPrefix   == {0}
MCSomeLocalPrefix == {0, 1}

MCSymmetry == Permutations(Blocks) \cup Permutations(Workers)
==============================================================================
