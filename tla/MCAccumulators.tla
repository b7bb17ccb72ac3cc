--------------------------- MODULE MCAccumulators ---------------------------
(***************************************************************************)
(* An instance of Accumulators.                                            *)
(***************************************************************************)
EXTENDS Accumulators

MCValues == {-1, 2}
MCFactors == {-1, 3}
=============================================================================
