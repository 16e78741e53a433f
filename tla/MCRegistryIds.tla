---------------------------- MODULE MCRegistryIds ----------------------------
(* Instances of RegistryIds for TLC.                                       *)
EXTENDS RegistryIds
=============================================================================
