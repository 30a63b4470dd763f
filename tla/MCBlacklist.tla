----------------------------- MODULE MCBlacklist -----------------------------
(***************************************************************************)
(* Instances of Blacklist for TLC: networks that contain, meet and miss    *)
(* each other, and a host name with two addresses.                         *)
(*                                                                         *)
(* In the phase "tree" the constraint is on its own: any prefixes are set  *)
(* in any order, and indices looked up for any value in between.  These    *)
(* states are finite without a bound.                                      *)
(*                                                                         *)
(* What is left of a painting after a prefix is set is not looked at again *)
(* before the next one overwrites it: states that differ in it only are    *)
(* one.                                                                    *)
(***************************************************************************)
EXTENDS Blacklist

MCNetworks == {<<0, 0>>, <<1, 0>>, <<1, 1>>, <<2, 1>>, <<3, 0>>}
MCHosts    == {{<<3, 3>>, <<3, 6>>}}

TreeInit ==
  /\ ConstraintInit
  /\ phase = "tree" /\ sources = {} /\ ignore_invalid_hosts = FALSE
  /\ lines = 0 /\ whitelisted_cidrs = {} /\ blacklisted_cidrs = {}

TreeNext == phase = "tree" /\ ConstraintNext /\ UNCHANGED <<given, phase, lines, cidrs>>

MCView == <<tree, painted, IF painted THEN paint ELSE <<>>, given, phase, lines, cidrs>>

MCSpec == (Init \/ TreeInit) /\ [][Next \/ TreeNext]_vars
=============================================================================
