----------------------------- MODULE MCUdpFlows -----------------------------
(* Instances of UdpFlows for TLC: one client on each listen port.          *)
EXTENDS UdpFlows

MCPort == [k \in Keys |-> k]

=============================================================================
