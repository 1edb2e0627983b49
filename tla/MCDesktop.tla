----------------------------- MODULE MCDesktop -----------------------------
(* Two Tor sessions; the hosts are the combinations that matter: with the helper
   and without it. *)
EXTENDS Desktop

Plain(helper, splits) ==
    [helper |-> helper, isolation |-> "system", bridges |-> TRUE, splits |-> splits,
     overlaps |-> FALSE, server |-> "wireguard"]

OrderlyHosts ==
    {Plain(TRUE, TRUE), Plain(FALSE, FALSE),
     [Plain(TRUE, FALSE) EXCEPT !.isolation = "apps", !.bridges = FALSE]}

OneHost == {Plain(TRUE, TRUE)}

\* A server's session, which is polled, over a Tor session and the other way round.
SomeCommands == {"ConnectTor", "Connect", "Disconnect"}

=============================================================================
