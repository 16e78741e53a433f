--------------------------- MODULE MCUserAccounts ---------------------------
(* Instances of UserAccounts for TLC.                                      *)
EXTENDS UserAccounts

CONSTANTS ann, bob, rob,   \* account ids
          p1, p2           \* requests

Names     == {"admin", "bob"}
Admin     == "admin"
Namesakes == [u \in User |-> IF u = ann THEN "admin" ELSE "bob"]   \* bob and rob share a name

(* Bounds: the administrator stays, has no request of its own, knows its   *)
(* password and is the only one to log in; failed logins of bob meet one   *)
(* request at a time.                                                      *)
SteadyAdmin == /\ row[ann].account # "deleted" /\ row[ann].invitation = "none"
               /\ row[ann].failed = 0 /\ row[rob].failed = 0
               /\ session \subseteq {ann}
               /\ \A p \in Request : req[p].user # ann
               /\ \A u \in User : role[u] \in {"none", "Admin"}
FailuresApart == row[bob].failed > 0 => req[p2] = Idle /\ row[rob].account = "absent"
=============================================================================
