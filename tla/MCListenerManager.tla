-------------------------- MODULE MCListenerManager --------------------------
(* Instances of ListenerManager for TLC.                                   *)
EXTENDS ListenerManager, TLC

CONSTANTS c1, c2, hosted, proxy

(* Callers are interchangeable, for safety properties.                     *)
AnyCaller == Permutations(Caller)
=============================================================================
