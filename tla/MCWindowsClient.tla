---------------------------- MODULE MCWindowsClient ----------------------------
(***************************************************************************)
(* One WireGuard server, two lives of the client, and three workers or Tor *)
(* sessions: Outline with the system's tunnel after a worker of another    *)
(* kind, or Tor whose tunnel is made a second time.                        *)
(***************************************************************************)
EXTENDS WindowsClient

CONSTANT e1

MCEndpoints == {e1}
=============================================================================
