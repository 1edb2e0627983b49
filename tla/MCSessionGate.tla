---------------------------- MODULE MCSessionGate ----------------------------
EXTENDS SessionGate, TLC

CONSTANTS w, o, t   \* one profile of each kind

EachKind == w :> "wireguard" @@ o :> "outline" @@ t :> "tor"

SomeOrders == {<<w, w>>, <<o, t>>, <<t, w>>}

==============================================================================
