---------------------------- MODULE MCFileStorage ----------------------------
(* Instances of FileStorage for TLC.                                       *)
EXTENDS FileStorage

CONSTANTS p1, p2

Finalise == {<<1, 2>>}   \* a finished upload becomes a blob
=============================================================================
