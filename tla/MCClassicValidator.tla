------------------------- MODULE MCClassicValidator -------------------------
(***************************************************************************)
(* Instances of ClassicValidator for TLC.                                  *)
(***************************************************************************)
EXTENDS ClassicValidator

CONSTANTS a, b, x

\* Finalized histories, forked at the first leaf.
EarlyFork == {<<a, b>>, <<x, b>>}
=============================================================================
