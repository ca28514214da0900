---------------------------- MODULE MCDwSockets ----------------------------
(* Constant values for the TLC runs of DwSockets. *)
EXTENDS DwSockets

MCHandles   == {1, 2}
MCAddressOf == [s \in Servers |-> [loopback |-> s]]

=============================================================================
