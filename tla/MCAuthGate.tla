----------------------------- MODULE MCAuthGate -----------------------------
(***************************************************************************)
(* Bounds for AuthGate: two addresses, a cooldown after two failures, a    *)
(* lockdown on the fourth failure of a window.  The window is longer than  *)
(* the cooldown, as 24h is than 12h, so that an address can return from a  *)
(* cooldown with its earlier failures still counted.                       *)
(***************************************************************************)
EXTENDS AuthGate, TLC

Symmetry == Permutations(IPs)

=============================================================================
