------------------------------ MODULE MCTrial ------------------------------
(* Instances of Trial for TLC.                                             *)
EXTENDS Trial

\* A draw that nearly anything beats, one that only a good action beats, a hopeless one.
MCDraws == {<<9000, 9000, 9000>>, <<9000, 1800, 9000>>, <<9000, 4000, 9000>>,
            <<5000, 9000, 100>>}
DrawTuples == {[n \in 0..MAX_DECISIONS - 1 |-> d[n + 1]] : d \in MCDraws}
=============================================================================
