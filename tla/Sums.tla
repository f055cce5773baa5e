-------------------------------- MODULE Sums --------------------------------
(***************************************************************************)
(* Sums over finite sets.  The fold is named in full, with the choice of   *)
(* the next member, so that SumProofs can say what it computes.            *)
(***************************************************************************)
EXTENDS Integers, FiniteSets, Folds

\* The sum of f[x] over the members x of S.
SumOver(f, S) ==
    MapThenFoldSet(LAMBDA a, b : a + b, 0, LAMBDA x : f[x], LAMBDA s : CHOOSE x \in s : TRUE, S)
=============================================================================
