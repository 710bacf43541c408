----------------------------- MODULE MCIngestion ------------------------------
(***************************************************************************)
(* Small instances of Ingestion for TLC.                                   *)
(***************************************************************************)
EXTENDS Ingestion, TLC

CONSTANTS l1, l2

Batch(s, o, n) == [state |-> s, offset |-> o, count |-> n]

\* With files of three rows the second batch joins the first in a file, and the third fits
\* into none.
Growing == << {Batch(1, 0, 2)}, {Batch(1, 2, 1)}, {Batch(2, 0, 4)} >>
Single  == << {Batch(1, 0, 2)} >>

TwoLoaders == {l1, l2}
OneLoader  == {l1}

=============================================================================
