----------------------------- MODULE MCExtraction -----------------------------
(***************************************************************************)
(* Small instances of Extraction for TLC.                                  *)
(***************************************************************************)
EXTENDS Extraction, TLC

CONSTANTS s1, s2

OneState  == {s1}
TwoStates == {s1, s2}

NoMoves   == {}
Growth    == {"grow"}
AnyMove   == {"grow", "shrink"}

\* States are interchangeable in safety runs.
Symmetric == Permutations(TwoStates)

=============================================================================
