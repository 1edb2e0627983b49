--------------------------- MODULE MCTunnelHelper ---------------------------
(* Two client processes, one after the other, and the helper's own threads. *)
EXTENDS TunnelHelper

\* What the protocol of the daemon accepts from a client, split_clear left out:
\* every stop clears the split as well.
AllCommands == Starts \cup Stops \cup {"split_apply"}

=============================================================================
