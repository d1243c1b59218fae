------------------------ MODULE MCConsensusValidator ------------------------
(***************************************************************************)
(* Instances of ConsensusValidator for TLC.                                *)
(***************************************************************************)
EXTENDS ConsensusValidatorFair

CONSTANTS a, b, c, x

\* Two finalized histories, forked at the second or at the first leaf.
ShortFork == {<<a, b>>, <<a, x>>}
EarlyFork == {<<a, b>>, <<x, b>>}
LongFork == {<<a, b, c>>, <<a, x, c>>}
Straight == {<<a, b, c>>}

EndpointSymmetry == Permutations(Endpoint)
=============================================================================
