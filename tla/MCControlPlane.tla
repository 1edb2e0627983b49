---------------------------- MODULE MCControlPlane ----------------------------
EXTENDS ControlPlane

CONSTANTS x, y

\* Both clients are behind the same address.
OneAddress == [c \in Clients |-> CHOOSE ip \in IPs : TRUE]

\* One client comes back and the other logs in once.
TwoAndOne == [c \in Clients |-> IF c = x THEN 2 ELSE 1]

=============================================================================
