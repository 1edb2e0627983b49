---------------------------- MODULE MCSplitTunnel ----------------------------
EXTENDS SplitTunnel, TLC

CONSTANTS p, q, low, high

\* The interface sends one request after the other; when its process dies,
\* the watchdog stops the tunnel while the last of them may still run.
Interface == {"apply", "clear", "connect", "disconnect"}

WithWatchdog == [helper |-> Interface, watchdog |-> {"disconnect"}]

Alone == [helper |-> Interface]

OneSelection == {{}, {p}}

=============================================================================
