----------------------------- MODULE MCServerHost -----------------------------
EXTENDS ServerHost, TLC

CONSTANTS x, y

Symmetry == Permutations(Clients)

==============================================================================
