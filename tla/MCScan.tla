------------------------------- MODULE MCScan -------------------------------
(* Instances of Scan for TLC: the .cfg files give the constants. *)
EXTENDS Scan
=============================================================================
