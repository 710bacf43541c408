----------------------------- MODULE MCSearchPage ------------------------------
EXTENDS SearchPage, TLC

CONSTANTS s1, s2

OneState  == {s1}
TwoStates == {s1, s2}

=============================================================================
