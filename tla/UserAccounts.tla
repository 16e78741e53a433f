---------------------------- MODULE UserAccounts ----------------------------
(***************************************************************************)
(* The life of user accounts: user/service.go, auth/service.go, the        *)
(* authentication middleware, the account tables and the administrator     *)
(* made at startup by cmd/main.go.                                         *)
(*                                                                         *)
(* Creating, locking, unlocking and setting up an account issue several    *)
(* SQL statements outside of any transaction, each committed on its own;   *)
(* every statement is an action here and requests interleave between them. *)
(* Some statements address a row by id and some by username, and a deleted *)
(* account gives its username back.  Deleting an account and updating it   *)
(* are single statements; logging in, changing a password and changing a   *)
(* role run in a transaction.  E-mail addresses and display names are left *)
(* out; a request refused because of them is one not made.                 *)
(***************************************************************************)
EXTENDS Naturals

CONSTANTS User, Name, NameOf, AdminName,
          Request,                  \* requests under way at the same time
          MaxFailedLoginAttempts,   \* 5 in the code
          FailedBound,              \* bound: failed attempts counted per account
          PrefixBound               \* bound: deletions of one id

ASSUME NameOfType == NameOf \in [User -> Name] /\ AdminName \in Name

ASSUME BoundsType == /\ MaxFailedLoginAttempts \in Nat
                     /\ FailedBound \in Nat \ {0} /\ PrefixBound \in Nat

VARIABLES row,       \* USER_ACCOUNT and USER_ACCOUNT_RECOVERY
          role,      \* USER_ROLE_ASSIGNMENT
          req,       \* the statement each request comes to next
          session,   \* accounts holding a token neither expired nor revoked
          up         \* the server serves requests

vars == <<row, role, req, session, up>>

Role == {"Admin", "Maintainer", "Developer", "Guest"}
Step == {"idle", "lockNew", "assignRole", "invite", "lock", "unlock", "setupUnlock", "setupClear"}

(* Reasons an account is locked for.                                       *)
Default      == 0
NewAccount   == 1
FailedLogins == 2
AdminLocked  == 3

Idle == [step |-> "idle", user |-> "none"]

TypeOK ==
  /\ row \in [User -> [account    : {"absent", "present", "deleted"},
                       prefixes   : 0..PrefixBound,    \* "[DELETED]" before its username
                       locked     : BOOLEAN,
                       reason     : {Default, NewAccount, FailedLogins, AdminLocked},
                       failed     : 0..FailedBound,
                       password   : {"unset", "set", "deleted"},
                       invitation : {"none", "open", "used"}]]
  /\ role \in [User -> Role \cup {"none"}]
  /\ req \in [Request -> {Idle} \cup [step : Step \ {"idle"}, user : User]]
  /\ session \subseteq User
  /\ up \in BOOLEAN

Acc == INSTANCE Accounts WITH account <- [u \in User |-> row[u].account]

Present(u)   == row[u].account = "present"
NameTaken(n) == \E u \in User : Present(u) /\ NameOf[u] = n

(* A token names its holder: any present account of that name will do.     *)
Authenticated == \E u \in session : NameTaken(NameOf[u])

NewRow(locked, password) ==
  [account |-> "present", prefixes |-> 0, locked |-> locked, reason |-> Default,
   failed |-> 0, password |-> password, invitation |-> "none"]

NoRow == [NewRow(FALSE, "unset") EXCEPT !.account = "absent"]

Init == /\ row = [u \in User |-> NoRow]
        /\ role = [u \in User |-> "none"]
        /\ req = [p \in Request |-> Idle]
        /\ session = {}
        /\ up = FALSE

-----------------------------------------------------------------------------
(* Statements *)

(* LockAccount and UnlockAccount find the row by username.                 *)
SetLock(name, locked, reason) ==
  row' = [u \in User |->
            IF Present(u) /\ NameOf[u] = name
            THEN [row[u] EXCEPT !.locked = locked, !.reason = reason]
            ELSE row[u]]

Begin(p, u, step) == /\ up
                     /\ req[p] = Idle
                     /\ req' = [req EXCEPT ![p] = [step |-> step, user |-> u]]

Continue(p, from, to) == /\ req[p].step = from
                         /\ req' = [req EXCEPT ![p].step = to]

Finish(p, from) == /\ req[p].step = from
                   /\ req' = [req EXCEPT ![p] = Idle]

-----------------------------------------------------------------------------
(* createUserAccount *)

CreateRow_Unchecked(p, u) ==   \* mutant: USERNAME is not UNIQUE
  /\ Authenticated
  /\ row[u].account = "absent"
  /\ Begin(p, u, "lockNew")
  /\ row' = [row EXCEPT ![u] = NewRow(TRUE, "unset")]
  /\ UNCHANGED <<role, session, up>>

CreateRow(p, u) ==
  /\ Authenticated
  /\ row[u].account = "absent" /\ ~NameTaken(NameOf[u])
  /\ Begin(p, u, "lockNew")
  /\ row' = [row EXCEPT ![u] = NewRow(TRUE, "unset")]
  /\ UNCHANGED <<role, session, up>>

LockNew_NoRole(p) ==   \* mutant: the role is left for later
  /\ Continue(p, "lockNew", "invite")
  /\ SetLock(NameOf[req[p].user], TRUE, NewAccount)
  /\ UNCHANGED <<role, session, up>>

LockNew(p) ==
  /\ Continue(p, "lockNew", "assignRole")
  /\ SetLock(NameOf[req[p].user], TRUE, NewAccount)
  /\ UNCHANGED <<role, session, up>>

(* Fails if a role change came first.                                      *)
AssignRole(p, r) ==
  /\ Continue(p, "assignRole", "invite")
  /\ role[req[p].user] = "none"
  /\ role' = [role EXCEPT ![req[p].user] = r]
  /\ UNCHANGED <<row, session, up>>

(* After the e-mail is sent.                                               *)
Invite(p) ==
  /\ Finish(p, "invite")
  /\ row' = [row EXCEPT ![req[p].user].invitation = "open"]
  /\ UNCHANGED <<role, session, up>>

-----------------------------------------------------------------------------
(* lockUserAccount, unlockUserAccount *)

ReadForLock(p, u) ==
  /\ Authenticated
  /\ Present(u) /\ ~row[u].locked
  /\ Begin(p, u, "lock")
  /\ UNCHANGED <<row, role, session, up>>

Lock(p) ==
  /\ Finish(p, "lock")
  /\ SetLock(NameOf[req[p].user], TRUE, AdminLocked)
  /\ UNCHANGED <<role, session, up>>

ReadForUnlock(p, u) ==
  /\ Authenticated
  /\ Present(u) /\ ~(row[u].locked /\ row[u].reason = NewAccount)
  /\ Begin(p, u, "unlock")
  /\ UNCHANGED <<row, role, session, up>>

Unlock(p) ==
  /\ Finish(p, "unlock")
  /\ SetLock(NameOf[req[p].user], FALSE, Default)
  /\ UNCHANGED <<role, session, up>>

-----------------------------------------------------------------------------
(* completeAccountSetup: open to everybody, and the recovery row is not    *)
(* looked at.  The caller has id and username from the setup page.         *)

SetupPassword_ClearFirst(p, u) ==   \* mutant: the recovery row goes before the password comes
  /\ row[u].account # "absent"
  /\ Begin(p, u, "setupUnlock")
  /\ row' = [row EXCEPT ![u].invitation = IF @ = "open" THEN "used" ELSE @]
  /\ UNCHANGED <<role, session, up>>

SetupPassword(p, u) ==
  /\ row[u].account # "absent"
  /\ Begin(p, u, "setupUnlock")
  /\ row' = [row EXCEPT ![u].password = "set"]
  /\ UNCHANGED <<role, session, up>>

SetupUnlock(p) ==
  /\ Continue(p, "setupUnlock", "setupClear")
  /\ SetLock(NameOf[req[p].user], FALSE, Default)
  /\ UNCHANGED <<role, session, up>>

SetupClear(p) ==
  /\ Finish(p, "setupClear")
  /\ row' = [row EXCEPT ![req[p].user].invitation = IF @ = "open" THEN "used" ELSE @]
  /\ UNCHANGED <<role, session, up>>

-----------------------------------------------------------------------------
(* Requests of one statement or one transaction *)

(* UNIQUE(USERNAME) holds for the prefixed names as well.                  *)
Delete(u) ==
  /\ Authenticated
  /\ row[u].account # "absent"
  /\ \A v \in User : row[v].account # "absent" /\ NameOf[v] = NameOf[u]
                       => row[v].prefixes # row[u].prefixes + 1
  /\ row[u].prefixes < PrefixBound
  /\ row' = [row EXCEPT ![u].account = "deleted", ![u].password = "deleted",
                        ![u].prefixes = @ + 1]
  /\ UNCHANGED <<role, req, session, up>>

(* A demotion never succeeds: its check of access rows fails (see          *)
(* AccessControl).                                                         *)
Rank(r) == CASE r = "none" -> 0 [] r = "Guest" -> 1 [] r = "Developer" -> 2
             [] r = "Maintainer" -> 3 [] r = "Admin" -> 4

ChangeRole(u, r) ==
  /\ Authenticated
  /\ row[u].account # "absent"
  /\ Rank(r) > Rank(role[u])
  /\ role' = [role EXCEPT ![u] = r]
  /\ UNCHANGED <<row, req, session, up>>

ChangePassword(u) ==
  /\ Authenticated
  /\ row[u].invitation = "open" /\ Present(u)
  /\ row[u].password = "set"
  /\ row' = [row EXCEPT ![u].invitation = "used"]
  /\ UNCHANGED <<role, req, session, up>>

(* The lock reason is compared to a number of attempts, so a locked        *)
(* account is always turned away and the counter never goes back.          *)
TurnedAway(u) == row[u].locked /\ row[u].reason # MaxFailedLoginAttempts

Login(u) ==
  /\ Present(u) /\ ~TurnedAway(u)
  /\ row[u].password = "set"
  /\ session' = session \cup {u}
  /\ row' = IF row[u].reason = MaxFailedLoginAttempts
            THEN [row EXCEPT ![u].locked = FALSE, ![u].reason = Default, ![u].failed = 1]
            ELSE row
  /\ UNCHANGED <<role, req, up>>

LoginFails_Open(u) ==   \* mutant: attempts on a locked account count
  /\ Present(u)
  /\ row[u].failed < FailedBound
  /\ row' = [row EXCEPT ![u].failed = @ + 1]
  /\ UNCHANGED <<role, req, session, up>>

LoginFails_Early(u) ==   \* mutant: the limit is compared before counting
  /\ Present(u) /\ ~TurnedAway(u)
  /\ row[u].failed < FailedBound
  /\ row' = [row EXCEPT ![u].failed = @ + 1,
                        ![u].locked = row[u].failed + 1 >= MaxFailedLoginAttempts,
                        ![u].reason = IF row[u].failed + 1 >= MaxFailedLoginAttempts
                                      THEN FailedLogins ELSE @]
  /\ UNCHANGED <<role, req, session, up>>

LoginFails(u) ==
  /\ Present(u) /\ ~TurnedAway(u)
  /\ row[u].failed < FailedBound
  /\ row' = [row EXCEPT ![u].failed = @ + 1,
                        ![u].locked = @ \/ row[u].failed + 1 > MaxFailedLoginAttempts,
                        ![u].reason = IF row[u].failed + 1 > MaxFailedLoginAttempts
                                      THEN FailedLogins ELSE @]
  /\ UNCHANGED <<role, req, session, up>>

Logout(u) ==
  /\ u \in session /\ NameTaken(NameOf[u])
  /\ session' = session \ {u}
  /\ UNCHANGED <<row, role, req, up>>

-----------------------------------------------------------------------------
(* Failures, shutdown and startup *)

(* A statement fails, or the mail cannot be sent: nothing is undone.       *)
Fail(p) ==
  /\ req[p] # Idle
  /\ req' = [req EXCEPT ![p] = Idle]
  /\ UNCHANGED <<row, role, session, up>>

Crash ==
  /\ up
  /\ up' = FALSE
  /\ req' = [p \in Request |-> Idle]
  /\ UNCHANGED <<row, role, session>>

StartWithAdmin_AsIs ==   \* mutant: the administrator stays locked
  /\ NameTaken(AdminName)
  /\ up' = TRUE
  /\ UNCHANGED <<row, role, req, session>>

(* The administrator exists: it is unlocked, whatever it is locked for.    *)
StartWithAdmin ==
  /\ NameTaken(AdminName)
  /\ SetLock(AdminName, FALSE, Default)
  /\ up' = TRUE
  /\ UNCHANGED <<role, req, session>>

StartWithoutAdmin_Username(u) ==   \* mutant: the username given for the role
  /\ NameOf[u] = AdminName
  /\ row[u].account = "absent" /\ ~NameTaken(AdminName)
  /\ row' = [row EXCEPT ![u] = NewRow(FALSE, "set")]
  /\ role' = [role EXCEPT ![u] = NameOf[u]]
  /\ up' = TRUE
  /\ UNCHANGED <<req, session>>

(* It does not: it is made, and what was done of it is committed even if a *)
(* later statement fails and the server does not come up.                  *)
StartWithoutAdmin(u) ==
  /\ NameOf[u] = AdminName
  /\ row[u].account = "absent" /\ ~NameTaken(AdminName)
  /\ \/ /\ row' = [row EXCEPT ![u] = NewRow(FALSE, "set")]
        /\ role' = [role EXCEPT ![u] = "Admin"]
        /\ up' = TRUE
     \/ /\ \E locked \in BOOLEAN : row' = [row EXCEPT ![u] = NewRow(locked, "set")]
        /\ up' = FALSE
        /\ UNCHANGED role
  /\ UNCHANGED <<req, session>>

StartUp == ~up /\ (StartWithAdmin \/ \E u \in User : StartWithoutAdmin(u))

-----------------------------------------------------------------------------
Statement(p) ==
  \/ \E u \in User : CreateRow(p, u) \/ ReadForLock(p, u) \/ ReadForUnlock(p, u)
                       \/ SetupPassword(p, u)
  \/ LockNew(p) \/ Invite(p) \/ Lock(p) \/ Unlock(p) \/ SetupUnlock(p) \/ SetupClear(p)
  \/ \E r \in Role : AssignRole(p, r)
  \/ Fail(p)

Transaction(u) ==
  /\ up
  /\ \/ Delete(u) \/ ChangePassword(u)
     \/ Login(u) \/ LoginFails(u) \/ Logout(u)
     \/ \E r \in Role : ChangeRole(u, r)

Next == \/ \E p \in Request : Statement(p)
        \/ \E u \in User : Transaction(u)
        \/ Crash
        \/ StartUp

Spec == Init /\ [][Next]_vars
-----------------------------------------------------------------------------
(* Properties *)

(* An account whose password was never set keeps its way in: the recovery  *)
(* row created with it is removed only after a password is there, however  *)
(* setups, retries, failures and deletions interleave.                     *)
SetupStillPossible ==
  \A u \in User : row[u].invitation = "used" => row[u].password # "unset"

(* Whoever got a setup link has a role, also if the role was changed while *)
(* the account was being created.                                          *)
InvitedHasRole ==
  \A u \in User : row[u].invitation # "none" => role[u] # "none"

(* An account locked for failed logins did fail more often than allowed,   *)
(* and nothing turns its counter back.                                     *)
FailedLoginsCounted ==
  \A u \in User : row[u].reason = FailedLogins
                    => row[u].locked /\ row[u].failed > MaxFailedLoginAttempts

LockedCounters ==
  \A u \in User : row[u].locked => row'[u].failed = row[u].failed

(* Failed logins on a locked account are not counted, so that an           *)
(* administrator's unlock finds the counter it locked.                     *)
LockedCountersFrozen == [][LockedCounters]_vars

AdminAfterStart ==
  ~up /\ up' => \E u \in User : Present(u)' /\ NameOf[u] = AdminName /\ ~row'[u].locked

(* Whatever happened before a crash, a server that comes up has an         *)
(* unlocked account under the administrator's name.                        *)
StartUnlocksAdmin == [][AdminAfterStart]_vars

(* However requests are cut into statements, accounts and roles behave as  *)
(* Accounts says.                                                          *)
AccountsSpec == Acc!Spec

-----------------------------------------------------------------------------
(* What documentation and comments say and the code does not do *)

Creating(u) == \E p \in Request : req[p].user = u /\ req[p].step \in {"lockNew", "assignRole"}

(* store/sqlite/user.go:449: no user is without a role.  Of the accounts   *)
(* that createUserAccount makes, once it is done with them.                *)
UserHasRole ==
  \A u \in User :
    NameOf[u] # AdminName /\ Present(u) /\ ~Creating(u) => role[u] # "none"
=============================================================================
