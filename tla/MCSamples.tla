----------------------------- MODULE MCSamples ------------------------------
(***************************************************************************)
(* Samples on small instances, with fair threads and a network that        *)
(* delivers; the timers, the table and the packets are checked on larger   *)
(* ones by MCProtocol.                                                     *)
(***************************************************************************)
EXTENDS Samples

(* The version the program asks for, and two that a server refuses.        *)
VersionsDef == {<<1, 0>>, <<1, 1>>, <<2, 0>>}
(* Two packets, of 3 and of 4 units.                                       *)
TrafficDef == {[l \in Conns |-> <<3, 4>>]}
=============================================================================
