--------------------------- MODULE MCAccessControl ---------------------------
(* Instances of AccessControl for TLC.                                     *)
EXTENDS AccessControl

CONSTANTS ann, bob, cid,   \* account ids
          n1, r1           \* resource ids

OneAdmin   == [u \in User |-> IF u = ann THEN "admin" ELSE IF u = bob THEN "bob" ELSE "cid"]
Names      == {"admin", "bob", "cid"}
Admin      == "admin"
InN1       == [r \in Repository |-> n1]

(* Bounds: one account may be deleted; public resources have no access     *)
(* rows, which visibility has nothing to do with.                          *)
OneDeletable == \A u \in User : account[u] = "deleted" => u = cid
FewPublic    == (\E x \in Resource : resource[x].public)
                  => \A x \in Resource, u \in User : access[x][u] = "none"
=============================================================================
