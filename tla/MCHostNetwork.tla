--------------------------- MODULE MCHostNetwork ---------------------------
(* Instances of HostNetwork for TLC. *)
EXTENDS HostNetwork

\* Names of three kinds.  In addresses of two bytes of two bits, 1.x stands for 127.x, and x.0
\* and x.3 for x.0 and x.255.
Classes == [i \in {"lo", "eth0", "wlan0"} |-> IF i = "lo" THEN "loopback" ELSE "none"]
=============================================================================
