------------------------------ MODULE Accounts ------------------------------
(***************************************************************************)
(* What the rest of the registry may rely on about user accounts, however  *)
(* a request is cut into SQL statements: an id is created once, a name is  *)
(* held by one present account at a time, a role once assigned is only     *)
(* replaced, the Admin role is final, and a deleted account stays deleted. *)
(* UserAccounts implements this specification; AccessControl is built of   *)
(* its actions.                                                            *)
(***************************************************************************)
CONSTANTS User,       \* account ids (random hex strings: never reused)
          Name,       \* usernames
          NameOf,     \* the username each id is created with
          AdminName   \* the username of the configured administrator

VARIABLES account,    \* USER_ACCOUNT: no row, a row, a row with DELETED = 1
          role        \* USER_ROLE_ASSIGNMENT, "none" when there is no row

vars == <<account, role>>

Role == {"Admin", "Maintainer", "Developer", "Guest"}

TypeOK == /\ account \in [User -> {"absent", "present", "deleted"}]
          /\ role \in [User -> Role \cup {"none"}]

NameTaken(name) == \E v \in User : account[v] = "present" /\ NameOf[v] = name

Init == /\ account = [u \in User |-> "absent"]
        /\ role = [u \in User |-> "none"]

CreateAccount(u) ==
  /\ account[u] = "absent"
  /\ ~NameTaken(NameOf[u])
  /\ account' = [account EXCEPT ![u] = "present"]
  /\ UNCHANGED role

(* The administrator made at startup gets account and role in one commit,  *)
(* or the account alone when the startup fails half way.                   *)
InitializeAdmin(u) ==
  /\ NameOf[u] = AdminName
  /\ account[u] = "absent"
  /\ ~NameTaken(AdminName)
  /\ account' = [account EXCEPT ![u] = "present"]
  /\ \/ role' = [role EXCEPT ![u] = "Admin"]
     \/ UNCHANGED role

AssignRole(u, r) ==
  /\ account[u] # "absent"
  /\ role[u] = "none"
  /\ role' = [role EXCEPT ![u] = r]
  /\ UNCHANGED account

ChangeRole(u, r) ==
  /\ account[u] # "absent"
  /\ role[u] \notin {"Admin", r}
  /\ role' = [role EXCEPT ![u] = r]
  /\ UNCHANGED account

DeleteAccount(u) ==
  /\ account[u] = "present"
  /\ account' = [account EXCEPT ![u] = "deleted"]
  /\ UNCHANGED role

Next == \E u \in User : \/ CreateAccount(u)
                        \/ InitializeAdmin(u)
                        \/ DeleteAccount(u)
                        \/ \E r \in Role : AssignRole(u, r) \/ ChangeRole(u, r)

Spec == Init /\ [][Next]_vars
=============================================================================
