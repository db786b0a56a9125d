----------------------------- MODULE MCSendBuff -----------------------------
(* SendBuff on small instances; the .cfg files give the sizes.  No         *)
(* symmetry: every run here checks a liveness property, for which it would *)
(* be unsound.                                                             *)
EXTENDS SendBuff
=============================================================================
