------------------------- MODULE MCKeyDistribution -------------------------
EXTENDS KeyDistribution, TLC

CONSTANTS o, a, b

=============================================================================
