----------------------------- MODULE MCUdpLink ------------------------------
(* UdpLink on small instances; the .cfg files give the sizes.  No symmetry *)
(* as every run here checks a liveness property.                           *)
EXTENDS UdpLink
=============================================================================
