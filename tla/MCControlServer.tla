--------------------------- MODULE MCControlServer ---------------------------
EXTENDS ControlServer, TLC

Symmetry == Permutations(IPs) \cup Permutations(Clients)

=============================================================================
