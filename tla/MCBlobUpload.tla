---------------------------- MODULE MCBlobUpload ----------------------------
(* Instances of BlobUpload for TLC.                                        *)
EXTENDS BlobUpload, TLC

CONSTANTS s1, s2, s3, layer, base, q1, q2, q3   \* s3 uploads base, the others layer

Uploads   == [s \in Session |-> IF s = s3 THEN base ELSE layer]
TwoChunks == [d \in Digest |-> 2]

(* Requests are interchangeable, for safety properties.                    *)
AnyRequest == Permutations(Request)
=============================================================================
