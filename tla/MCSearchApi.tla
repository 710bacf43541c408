------------------------------ MODULE MCSearchApi ------------------------------
(***************************************************************************)
(* Small instances of SearchApi for TLC.                                   *)
(***************************************************************************)
EXTENDS SearchApi, TLC

CONSTANTS r1, r2

TwoRequests == {r1, r2}

\* search, a summary of several queries, and the two queries of an enterprise's page.  (A
\* lookup list is a summary of one query.)
Search  == [cached |-> 1, plain |-> 1]
Summary == [cached |-> 2, plain |-> 0]
Detail  == [cached |-> 0, plain |-> 2]

AllEndpoints == {Search, Summary, Detail}

\* A result that just fills a page of two, and one that has a row more.
TwoVersions == <<2, 3>>

=============================================================================
