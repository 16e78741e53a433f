------------------------- MODULE UserAccountsProofs -------------------------
(***************************************************************************)
(* Proofs about UserAccounts, for any users, names, requests and limits:   *)
(* what the interleaved statements of several requests keep true of the    *)
(* account tables, and that they implement Accounts.                       *)
(***************************************************************************)
EXTENDS UserAccounts, TLAPS

Account == [account    : {"absent", "present", "deleted"},
            prefixes   : 0..PrefixBound,
            locked     : BOOLEAN,
            reason     : {Default, NewAccount, FailedLogins, AdminLocked},
            failed     : 0..FailedBound,
            password   : {"unset", "set", "deleted"},
            invitation : {"none", "open", "used"}]

-----------------------------------------------------------------------------
(* The inductive invariant *)

(* A request works on an account that is there, or was, with what its      *)
(* earlier statements left behind.                                         *)
RequestsPrepared ==
  \A p \in Request : req[p] # Idle =>
    /\ row[req[p].user].account # "absent"
    /\ req[p].step = "invite" => role[req[p].user] # "none"
    /\ req[p].step \in {"setupUnlock", "setupClear"} => row[req[p].user].password # "unset"

(* An account that was never created has left nothing behind.              *)
AbsentRowsEmpty == \A u \in User : row[u].account = "absent" => row[u] = NoRow

(* UNIQUE(USERNAME), the prefixes of deleted accounts counted in, although *)
(* creating an account looks at present ones only.                         *)
UsernamesUnique ==
  /\ \A u \in User : row[u].account = "present" => row[u].prefixes = 0
  /\ \A u \in User : row[u].account = "deleted" => row[u].prefixes > 0
  /\ \A u, v \in User :
       /\ u # v /\ NameOf[u] = NameOf[v]
       /\ row[u].account # "absent" /\ row[v].account # "absent"
       => row[u].prefixes # row[v].prefixes

AInv == /\ TypeOK
        /\ FailedLoginsCounted
        /\ SetupStillPossible
        /\ InvitedHasRole
        /\ RequestsPrepared
        /\ AbsentRowsEmpty
        /\ UsernamesUnique

-----------------------------------------------------------------------------
(* Type correctness *)

(* A request is idle, or has a user and a statement before it.             *)
LEMMA RequestFields ==
  ASSUME TypeOK, NEW p \in Request
  PROVE  /\ req[p] = Idle <=> req[p].step = "idle"
         /\ req[p] # Idle => req[p].user \in User /\ req[p].step \in Step \ {"idle"}
BY DEF TypeOK, Idle, Step

(* What locking and unlocking by username does to the rows.                *)
LEMMA SetLockRows ==
  ASSUME TypeOK, NEW name, NEW locked \in BOOLEAN,
         NEW reason \in {Default, NewAccount, AdminLocked}, SetLock(name, locked, reason)
  PROVE  /\ row' \in [User -> Account]
         /\ \A u \in User :
              /\ row'[u].account = row[u].account /\ row'[u].prefixes = row[u].prefixes
              /\ row'[u].failed = row[u].failed /\ row'[u].password = row[u].password
              /\ row'[u].invitation = row[u].invitation
              /\ row'[u] # row[u] => Present(u)
              /\ \/ row'[u].reason = row[u].reason /\ row'[u].locked = row[u].locked
                 \/ row'[u].reason = reason /\ row'[u].locked = locked
<1>1. row \in [User -> Account]
  BY DEF TypeOK, Account
<1>2. \A u \in User : row'[u] = IF Present(u) /\ NameOf[u] = name
                                  THEN [row[u] EXCEPT !.locked = locked, !.reason = reason]
                                  ELSE row[u]
  BY DEF SetLock
<1>3. \A u \in User : row'[u] \in Account
  BY ZenonT(40), <1>1, <1>2 DEF Account
<1>4. row' \in [User -> Account]
  BY <1>3 DEF SetLock
<1>5. ASSUME NEW u \in User
      PROVE  /\ row'[u].account = row[u].account /\ row'[u].prefixes = row[u].prefixes
             /\ row'[u].failed = row[u].failed /\ row'[u].password = row[u].password
             /\ row'[u].invitation = row[u].invitation
             /\ row'[u] # row[u] => Present(u)
             /\ \/ row'[u].reason = row[u].reason /\ row'[u].locked = row[u].locked
                \/ row'[u].reason = reason /\ row'[u].locked = locked
  <2>1. row[u] \in Account
    BY <1>1
  <2>2. CASE Present(u) /\ NameOf[u] = name
    <3>1. row'[u] = [row[u] EXCEPT !.locked = locked, !.reason = reason]
      BY <1>2, <2>2
    <3> QED
      BY <2>1, <2>2, <3>1 DEF Account
  <2>3. CASE ~(Present(u) /\ NameOf[u] = name)
    BY <1>2, <2>3
  <2> QED
    BY <2>2, <2>3
<1> QED
  BY <1>4, <1>5

(* The initial state is well typed.                                        *)
LEMMA InitType == Init => TypeOK
<1>1. NewRow(FALSE, "unset") \in Account
  BY BoundsType DEF NewRow, Account, Default
<1>2. NoRow \in Account
  BY <1>1 DEF NoRow, Account
<1> QED
  <2>1. Init => row \in [User -> Account]
    BY <1>2 DEF Init
  <2>2. Init => role \in [User -> Role \cup {"none"}] /\ up \in BOOLEAN /\ session \subseteq User
    BY DEF Init
  <2>3. Init => req \in [Request -> {Idle} \cup [step : Step \ {"idle"}, user : User]]
    BY DEF Init
  <2> QED
    BY <2>1, <2>2, <2>3 DEF TypeOK, Account

(* Every step leads from well-typed states to well-typed states.           *)
LEMMA TypeStep == TypeOK /\ [Next]_vars => TypeOK'
<1> SUFFICES ASSUME TypeOK, [Next]_vars PROVE TypeOK'
  OBVIOUS
<1> USE BoundsType
<1> DEFINE Requests == [Request -> {Idle} \cup [step : Step \ {"idle"}, user : User]]
<1>a. ASSUME row' \in [User -> Account], role' \in [User -> Role \cup {"none"}],
             req' \in Requests, session' \subseteq User, up' \in BOOLEAN
      PROVE  TypeOK'
  BY <1>a DEF TypeOK, Account
<1>b. /\ row \in [User -> Account] /\ role \in [User -> Role \cup {"none"}]
      /\ req \in Requests /\ session \subseteq User /\ up \in BOOLEAN
  BY DEF TypeOK, Account
<1>c. \A l \in BOOLEAN, w \in {"unset", "set"} : NewRow(l, w) \in Account
  BY DEF NewRow, Account, Default
<1>d. ASSUME NEW p \in Request, NEW u \in User, NEW step \in Step \ {"idle"}, Begin(p, u, step)
      PROVE  req' \in Requests
  BY <1>b, <1>d DEF Begin
<1>e. ASSUME NEW p \in Request, NEW from \in Step \ {"idle"}, NEW to \in Step \ {"idle"},
             Continue(p, from, to)
      PROVE  req' \in Requests /\ req[p].user \in User
  <2>1. req[p] \in [step : Step \ {"idle"}, user : User]
    BY <1>b, <1>e DEF Continue, Idle
  <2>2. [req[p] EXCEPT !.step = to] \in [step : Step \ {"idle"}, user : User]
    BY <2>1
  <2> QED
    BY <1>b, <1>e, <2>1, <2>2 DEF Continue
<1>f. ASSUME NEW p \in Request, NEW from \in Step \ {"idle"}, Finish(p, from)
      PROVE  req' \in Requests /\ req[p].user \in User
  BY <1>b, <1>f DEF Finish, Idle
<1>g. {"lockNew", "assignRole", "invite", "lock", "unlock", "setupUnlock", "setupClear"}
        = Step \ {"idle"}
  BY DEF Step
<1> HIDE DEF Requests
<1>1. ASSUME NEW p \in Request, NEW u \in User,
             CreateRow(p, u) \/ SetupPassword(p, u)
      PROVE  TypeOK'
  <2>1. row' \in [User -> Account]
    <3>1. NewRow(TRUE, "unset") \in Account
      BY <1>c
    <3>2. CASE CreateRow(p, u)
      BY <1>b, <3>1, <3>2 DEF CreateRow
    <3>3. CASE SetupPassword(p, u)
      BY <1>b, <3>3 DEF SetupPassword, Account
    <3> QED
      BY <1>1, <3>2, <3>3
  <2>2. req' \in Requests
    BY <1>1, <1>d, <1>g DEF CreateRow, SetupPassword
  <2> QED
    BY <1>1, <1>a, <1>b, <2>1, <2>2 DEF CreateRow, SetupPassword
<1>2. ASSUME NEW p \in Request, NEW u \in User, ReadForLock(p, u) \/ ReadForUnlock(p, u)
      PROVE  TypeOK'
  <2>1. req' \in Requests
    BY <1>2, <1>d, <1>g DEF ReadForLock, ReadForUnlock
  <2> QED
    BY <1>2, <1>a, <1>b, <2>1 DEF ReadForLock, ReadForUnlock
<1>3. ASSUME NEW p \in Request, LockNew(p) \/ SetupUnlock(p) \/ Lock(p) \/ Unlock(p)
      PROVE  TypeOK'
  <2>1. req' \in Requests
    BY <1>3, <1>e, <1>f, <1>g DEF LockNew, SetupUnlock, Lock, Unlock
  <2>2. row' \in [User -> Account]
    BY <1>3, SetLockRows DEF LockNew, SetupUnlock, Lock, Unlock
  <2> QED
    BY <1>3, <1>a, <1>b, <2>1, <2>2 DEF LockNew, SetupUnlock, Lock, Unlock
<1>4. ASSUME NEW p \in Request, NEW r \in Role, AssignRole(p, r) PROVE TypeOK'
  <2>1. req' \in Requests /\ req[p].user \in User
    BY <1>4, <1>e, <1>g DEF AssignRole
  <2> QED
    BY <1>4, <1>a, <1>b, <2>1 DEF AssignRole
<1>5. ASSUME NEW p \in Request, Invite(p) \/ SetupClear(p) PROVE TypeOK'
  <2>1. req' \in Requests /\ req[p].user \in User
    BY <1>5, <1>f, <1>g DEF Invite, SetupClear
  <2>2. row' \in [User -> Account]
    BY <1>5, <1>b, <2>1 DEF Invite, SetupClear, Account
  <2> QED
    BY <1>5, <1>a, <1>b, <2>1, <2>2 DEF Invite, SetupClear
<1>6. ASSUME NEW p \in Request, Fail(p) PROVE TypeOK'
  BY <1>6, <1>a, <1>b DEF Fail, Requests
<1>7. ASSUME NEW u \in User,
             Delete(u) \/ ChangePassword(u) \/ Login(u) \/ LoginFails(u) \/ Logout(u)
      PROVE  TypeOK'
  <2>1. CASE Delete(u)
    <3>1. row' \in [User -> Account]
      BY <1>b, <2>1 DEF Delete, Account
    <3> QED
      BY <1>a, <1>b, <2>1, <3>1 DEF Delete
  <2>2. CASE ChangePassword(u)
    <3>1. row' \in [User -> Account]
      BY <1>b, <2>2 DEF ChangePassword, Account
    <3> QED
      BY <1>a, <1>b, <2>2, <3>1 DEF ChangePassword
  <2>3. CASE Login(u)
    <3>1. row' \in [User -> Account]
      <4> DEFINE new == [row[u] EXCEPT !.locked = FALSE, !.reason = Default, !.failed = 1]
      <4>0. 1 \in 0..FailedBound
        BY BoundsType
      <4>1. new \in Account
        BY ZenonT(40), <1>b, <4>0 DEF Account
      <4>2. row' = row \/ row' = [row EXCEPT ![u] = new]
        <5>1. [row EXCEPT ![u].locked = FALSE, ![u].reason = Default, ![u].failed = 1]
                = [row EXCEPT ![u] = new]
          BY <1>b
        <5> QED
          BY <2>3, <5>1 DEF Login
      <4> QED
        BY <1>b, <4>1, <4>2
    <3> QED
      BY <1>a, <1>b, <2>3, <3>1 DEF Login
  <2>4. CASE LoginFails(u)
    <3>1. row' \in [User -> Account]
      <4> DEFINE locked == row[u].locked \/ row[u].failed + 1 > MaxFailedLoginAttempts
                 reason == IF row[u].failed + 1 > MaxFailedLoginAttempts
                           THEN FailedLogins ELSE row[u].reason
                 new == [row[u] EXCEPT !.failed = row[u].failed + 1, !.locked = locked,
                                       !.reason = reason]
      <4>1. row[u].failed + 1 \in 0..FailedBound
        BY <1>b, <2>4 DEF LoginFails, Account
      <4>2. locked \in BOOLEAN
        OBVIOUS
      <4>3. reason \in {Default, NewAccount, FailedLogins, AdminLocked}
        BY <1>b DEF Account
      <4>4. row' = [row EXCEPT ![u] = new]
        BY <1>b, <2>4 DEF LoginFails
      <4> HIDE DEF locked, reason
      <4>5. new \in Account
        BY ZenonT(40), <1>b, <4>1, <4>2, <4>3 DEF Account
      <4> QED
        BY <1>b, <4>4, <4>5
    <3> QED
      BY <1>a, <1>b, <2>4, <3>1 DEF LoginFails
  <2>5. CASE Logout(u)
    BY <1>a, <1>b, <2>5 DEF Logout
  <2> QED
    BY <1>7, <2>1, <2>2, <2>3, <2>4, <2>5
<1>8. ASSUME NEW u \in User, NEW r \in Role, ChangeRole(u, r) PROVE TypeOK'
  BY <1>8, <1>a, <1>b DEF ChangeRole
<1>9. ASSUME Crash PROVE TypeOK'
  BY <1>9, <1>a, <1>b DEF Crash, Requests
<1>10. ASSUME StartWithAdmin PROVE TypeOK'
  BY <1>10, <1>a, <1>b, SetLockRows DEF StartWithAdmin
<1>11. ASSUME NEW u \in User, StartWithoutAdmin(u) PROVE TypeOK'
  BY <1>11, <1>a, <1>b, <1>c DEF StartWithoutAdmin, Role
<1>12. ASSUME UNCHANGED vars PROVE TypeOK'
  BY <1>12, <1>a, <1>b DEF vars
<1> QED
  BY Zenon, <1>1, <1>2, <1>3, <1>4, <1>5, <1>6, <1>7, <1>8, <1>9, <1>10, <1>11, <1>12
     DEF Next, Statement, Transaction, StartUp
-----------------------------------------------------------------------------
(* The invariant *)

(* What a statement may do to an account that is there, and to one that is *)
(* not.                                                                    *)
Updated(u) ==
  /\ row[u].account # "absent" /\ row'[u].account # "absent"
  /\ row[u].password # "unset" => row'[u].password # "unset"
  /\ \/ row'[u].invitation = row[u].invitation
     \/ row'[u].invitation = "open" /\ role[u] # "none"
     \/ /\ row[u].invitation # "none"
        /\ row'[u].invitation = "used" /\ row'[u].password # "unset"
  /\ \/ row'[u].reason # FailedLogins
     \/ row'[u].locked /\ row'[u].failed > MaxFailedLoginAttempts

Created(u) ==
  /\ row[u].account = "absent" /\ row'[u].account = "present"
  /\ row'[u].invitation = "none"
  /\ row'[u].reason # FailedLogins

(* A step that only updates and creates accounts, takes no role away, and  *)
(* moves on requests that are prepared, preserves AInv if it keeps the     *)
(* usernames unique.                                                       *)
LEMMA UpdatesKeepAInv ==
  ASSUME AInv, TypeOK',
         \A u \in User : row'[u] = row[u] \/ Updated(u) \/ Created(u),
         \A u \in User : role[u] # "none" => role'[u] # "none",
         \A p \in Request :
           \/ req'[p] \in {Idle, req[p]}
           \/ /\ row'[req'[p].user].account # "absent"
              /\ req'[p].step = "invite" => role'[req'[p].user] # "none"
              /\ req'[p].step \in {"setupUnlock", "setupClear"}
                   => row'[req'[p].user].password # "unset",
         \/ UsernamesUnique'
         \/ \A u \in User : /\ row'[u].account = row[u].account
                            /\ row'[u].prefixes = row[u].prefixes
  PROVE  AInv'
<1>1. FailedLoginsCounted'
  BY DEF AInv, FailedLoginsCounted, Updated, Created
<1>2. SetupStillPossible'
  BY DEF AInv, SetupStillPossible, Updated, Created
<1>3. InvitedHasRole'
  BY DEF AInv, InvitedHasRole, Updated, Created
<1>4. RequestsPrepared'
  <2> SUFFICES ASSUME NEW p \in Request, req'[p] # Idle, req'[p] = req[p]
               PROVE  /\ row'[req[p].user].account # "absent"
                      /\ req[p].step = "invite" => role'[req[p].user] # "none"
                      /\ req[p].step \in {"setupUnlock", "setupClear"}
                           => row'[req[p].user].password # "unset"
    BY DEF RequestsPrepared
  <2>1. req[p].user \in User
    BY RequestFields DEF AInv
  <2> QED
    BY <2>1 DEF AInv, RequestsPrepared, Updated, Created
<1>5. AbsentRowsEmpty'
  BY DEF AInv, AbsentRowsEmpty, Updated, Created
<1>6. UsernamesUnique'
  BY DEF AInv, UsernamesUnique
<1> QED
  BY <1>1, <1>2, <1>3, <1>4, <1>5, <1>6 DEF AInv

(* Locking by username changes nothing else.                               *)
LEMMA SetLockUpdates ==
  ASSUME AInv, NEW name, NEW locked \in BOOLEAN,
         NEW reason \in {Default, NewAccount, AdminLocked}, SetLock(name, locked, reason)
  PROVE  \A u \in User : /\ row'[u] = row[u] \/ Updated(u)
                         /\ row'[u].account = row[u].account
                         /\ row'[u].prefixes = row[u].prefixes
                         /\ row'[u].password = row[u].password
<1> SUFFICES ASSUME NEW u \in User, row'[u] # row[u] PROVE Updated(u)
  BY SetLockRows DEF AInv
<1>1. /\ row'[u].account = row[u].account /\ row[u].account # "absent"
      /\ row'[u].failed = row[u].failed /\ row'[u].password = row[u].password
      /\ row'[u].invitation = row[u].invitation
  BY SetLockRows DEF AInv, Present
<1>2. \/ row'[u].reason = row[u].reason /\ row'[u].locked = row[u].locked
      \/ row'[u].reason # FailedLogins
  BY SetLockRows DEF AInv, Default, NewAccount, AdminLocked, FailedLogins
<1> QED
  BY <1>1, <1>2 DEF Updated, AInv, FailedLoginsCounted

(* A new account may have its name: nobody present holds it, and the names *)
(* of the deleted have prefixes.                                           *)
LEMMA CreationKeepsNames ==
  ASSUME AInv, NEW u \in User, row[u].account = "absent", ~NameTaken(NameOf[u]),
         row'[u].account = "present", row'[u].prefixes = 0,
         \A v \in User \ {u} : row'[v] = row[v]
  PROVE  UsernamesUnique'
<1>1. \A v \in User : row[v].account \in {"absent", "present", "deleted"}
                        /\ row[v].prefixes \in Nat
  BY BoundsType DEF AInv, TypeOK
<1>2. \A v \in User \ {u} : NameOf[v] = NameOf[u] => row[v].account # "present"
  BY DEF NameTaken, Present
<1>3. \A v \in User \ {u} : NameOf[v] = NameOf[u] /\ row[v].account # "absent"
                              => row[v].prefixes > 0
  BY <1>1, <1>2 DEF AInv, UsernamesUnique
<1> QED
  BY <1>1, <1>3 DEF AInv, UsernamesUnique

(* AInv is inductive.                                                      *)
LEMMA AInvStep == AInv /\ [Next]_vars => AInv'
<1> SUFFICES ASSUME AInv, [Next]_vars PROVE AInv'
  OBVIOUS
<1>t. TypeOK /\ TypeOK'
  BY TypeStep DEF AInv
<1>r. /\ row \in [User -> Account] /\ role \in [User -> Role \cup {"none"}]
  BY <1>t DEF TypeOK, Account
<1>q. ASSUME NEW p \in Request, NEW from \in Step \ {"idle"}, NEW to \in Step,
             Continue(p, from, to)
      PROVE  /\ req[p].user \in User /\ req[p].step = from /\ req[p] # Idle
             /\ req'[p].user = req[p].user /\ req'[p].step = to
             /\ \A o \in Request \ {p} : req'[o] = req[o]
  <2>1. req[p].step = from /\ req[p] # Idle
    BY <1>t, <1>q DEF Continue, Idle
  <2>2. req[p] \in [step : Step \ {"idle"}, user : User]
    BY <1>t, <2>1 DEF TypeOK
  <2> QED
    BY <1>t, <1>q, <2>1, <2>2 DEF TypeOK, Continue
<1>f. ASSUME NEW p \in Request, NEW from \in Step \ {"idle"}, Finish(p, from)
      PROVE  /\ req[p].user \in User /\ req[p].step = from /\ req[p] # Idle
             /\ \A o \in Request : req'[o] \in {Idle, req[o]}
  BY <1>t, <1>f, RequestFields DEF TypeOK, Finish, Idle
<1>b. ASSUME NEW p \in Request, NEW u \in User, NEW step, Begin(p, u, step)
      PROVE  /\ req'[p].user = u /\ req'[p].step = step
             /\ \A o \in Request \ {p} : req'[o] = req[o]
  BY <1>t, <1>b DEF TypeOK, Begin
<1>s. {"lockNew", "assignRole", "invite", "lock", "unlock", "setupUnlock", "setupClear"}
        = Step \ {"idle"}
  BY DEF Step
<1>1. ASSUME NEW p \in Request, NEW u \in User, CreateRow(p, u) PROVE AInv'
  <2>1. row'[u] = NewRow(TRUE, "unset") /\ \A v \in User \ {u} : row'[v] = row[v]
    BY <1>1, <1>r DEF CreateRow
  <2>2. Created(u) /\ row'[u].prefixes = 0
    BY <1>1, <2>1 DEF CreateRow, Created, NewRow, Default, FailedLogins
  <2>3. UsernamesUnique'
    BY <1>1, <2>1, <2>2, CreationKeepsNames DEF CreateRow, Created
  <2>4. /\ req'[p].user = u /\ req'[p].step = "lockNew"
        /\ \A o \in Request \ {p} : req'[o] = req[o]
    BY <1>1, <1>b DEF CreateRow
  <2>5. role' = role
    BY <1>1 DEF CreateRow
  <2> QED
    BY <1>t, <2>1, <2>2, <2>3, <2>4, <2>5, UpdatesKeepAInv DEF Created
<1>2. ASSUME NEW p \in Request, LockNew(p) PROVE AInv'
  <2>1. /\ SetLock(NameOf[req[p].user], TRUE, NewAccount) /\ role' = role
        /\ Continue(p, "lockNew", "assignRole")
    BY <1>2 DEF LockNew
  <2>2. row[req[p].user].account # "absent" /\ req[p].user \in User
    BY <1>q, <1>s, <2>1 DEF AInv, RequestsPrepared
  <2>3. /\ req'[p].user = req[p].user /\ req'[p].step = "assignRole"
        /\ \A o \in Request \ {p} : req'[o] = req[o]
    BY <1>q, <1>s, <2>1
  <2> QED
    BY <1>t, <2>1, <2>2, <2>3, SetLockUpdates, UpdatesKeepAInv
<1>3. ASSUME NEW p \in Request, NEW r \in Role, AssignRole(p, r) PROVE AInv'
  <2>1. /\ role' = [role EXCEPT ![req[p].user] = r] /\ row' = row
        /\ Continue(p, "assignRole", "invite")
    BY <1>3 DEF AssignRole
  <2>2. row[req[p].user].account # "absent" /\ req[p].user \in User
    BY <1>q, <1>s, <2>1 DEF AInv, RequestsPrepared
  <2>3. /\ req'[p].user = req[p].user /\ req'[p].step = "invite"
        /\ \A o \in Request \ {p} : req'[o] = req[o]
    BY <1>q, <1>s, <2>1
  <2>4. r # "none"
    BY DEF Role
  <2>5. role'[req[p].user] # "none" /\ \A u \in User : role[u] # "none" => role'[u] # "none"
    BY <1>r, <2>1, <2>2, <2>4
  <2> QED
    BY <1>t, <2>1, <2>2, <2>3, <2>5, UpdatesKeepAInv
<1>4. ASSUME NEW p \in Request, Invite(p) PROVE AInv'
  <2> DEFINE u == req[p].user
  <2>1. /\ row' = [row EXCEPT ![u].invitation = "open"] /\ role' = role
        /\ Finish(p, "invite")
    BY <1>4 DEF Invite
  <2>2. /\ row[u].account # "absent" /\ u \in User /\ role[u] # "none"
        /\ \A o \in Request : req'[o] \in {Idle, req[o]}
    BY <1>f, <1>s, <2>1 DEF AInv, RequestsPrepared
  <2>3. /\ row'[u] = [row[u] EXCEPT !.invitation = "open"]
        /\ \A v \in User \ {u} : row'[v] = row[v]
    BY <1>r, <2>1, <2>2
  <2>4. Updated(u) /\ row'[u].account = row[u].account /\ row'[u].prefixes = row[u].prefixes
    BY <1>r, <2>2, <2>3 DEF Updated, Account, AInv, FailedLoginsCounted
  <2> QED
    BY <1>t, <2>1, <2>2, <2>3, <2>4, UpdatesKeepAInv
<1>5. ASSUME NEW p \in Request, NEW u \in User, ReadForLock(p, u) \/ ReadForUnlock(p, u)
      PROVE  AInv'
  <2>1. row' = row /\ role' = role /\ row[u].account # "absent"
    BY <1>5 DEF ReadForLock, ReadForUnlock, Present
  <2>2. /\ req'[p].user = u /\ req'[p].step \in {"lock", "unlock"}
        /\ \A o \in Request \ {p} : req'[o] = req[o]
    BY <1>5, <1>b DEF ReadForLock, ReadForUnlock
  <2> QED
    BY <1>t, <2>1, <2>2, UpdatesKeepAInv
<1>6. ASSUME NEW p \in Request, Lock(p) PROVE AInv'
  <2>1. SetLock(NameOf[req[p].user], TRUE, AdminLocked) /\ role' = role /\ Finish(p, "lock")
    BY <1>6 DEF Lock
  <2>2. \A o \in Request : req'[o] \in {Idle, req[o]}
    BY <1>f, <1>s, <2>1
  <2> QED
    BY <1>t, <2>1, <2>2, SetLockUpdates, UpdatesKeepAInv
<1>7. ASSUME NEW p \in Request, Unlock(p) PROVE AInv'
  <2>1. SetLock(NameOf[req[p].user], FALSE, Default) /\ role' = role /\ Finish(p, "unlock")
    BY <1>7 DEF Unlock
  <2>2. \A o \in Request : req'[o] \in {Idle, req[o]}
    BY <1>f, <1>s, <2>1
  <2> QED
    BY <1>t, <2>1, <2>2, SetLockUpdates, UpdatesKeepAInv
<1>8. ASSUME NEW p \in Request, NEW u \in User, SetupPassword(p, u) PROVE AInv'
  <2>1. row' = [row EXCEPT ![u].password = "set"] /\ role' = role /\ row[u].account # "absent"
    BY <1>8 DEF SetupPassword
  <2>2. /\ req'[p].user = u /\ req'[p].step = "setupUnlock"
        /\ \A o \in Request \ {p} : req'[o] = req[o]
    BY <1>8, <1>b DEF SetupPassword
  <2>3. row'[u] = [row[u] EXCEPT !.password = "set"] /\ \A v \in User \ {u} : row'[v] = row[v]
    BY <1>r, <2>1
  <2>4. /\ Updated(u) /\ row'[u].account = row[u].account /\ row'[u].prefixes = row[u].prefixes
        /\ row'[u].password = "set"
    BY <1>r, <2>1, <2>3 DEF Updated, Account, AInv, FailedLoginsCounted
  <2> QED
    BY <1>t, <2>1, <2>2, <2>3, <2>4, UpdatesKeepAInv DEF Updated
<1>9. ASSUME NEW p \in Request, SetupUnlock(p) PROVE AInv'
  <2>1. /\ SetLock(NameOf[req[p].user], FALSE, Default) /\ role' = role
        /\ Continue(p, "setupUnlock", "setupClear")
    BY <1>9 DEF SetupUnlock
  <2>2. /\ row[req[p].user].account # "absent" /\ req[p].user \in User
        /\ row[req[p].user].password # "unset"
    BY <1>q, <1>s, <2>1 DEF AInv, RequestsPrepared
  <2>3. /\ req'[p].user = req[p].user /\ req'[p].step = "setupClear"
        /\ \A o \in Request \ {p} : req'[o] = req[o]
    BY <1>q, <1>s, <2>1
  <2> QED
    BY <1>t, <2>1, <2>2, <2>3, SetLockUpdates, UpdatesKeepAInv
<1>10. ASSUME NEW p \in Request, SetupClear(p) PROVE AInv'
  <2> DEFINE u == req[p].user
  <2>1. /\ row' = [row EXCEPT ![u].invitation = IF @ = "open" THEN "used" ELSE @]
        /\ role' = role /\ Finish(p, "setupClear")
    BY <1>10 DEF SetupClear
  <2>2. /\ row[u].account # "absent" /\ u \in User /\ row[u].password # "unset"
        /\ \A o \in Request : req'[o] \in {Idle, req[o]}
    BY <1>f, <1>s, <2>1 DEF AInv, RequestsPrepared
  <2>3. /\ row'[u] = [row[u] EXCEPT !.invitation = IF @ = "open" THEN "used" ELSE @]
        /\ \A v \in User \ {u} : row'[v] = row[v]
    BY <1>r, <2>1, <2>2
  <2>4. Updated(u) /\ row'[u].account = row[u].account /\ row'[u].prefixes = row[u].prefixes
    BY <1>r, <2>2, <2>3 DEF Updated, Account, AInv, FailedLoginsCounted
  <2> QED
    BY <1>t, <2>1, <2>2, <2>3, <2>4, UpdatesKeepAInv
<1>11. ASSUME NEW p \in Request, Fail(p) PROVE AInv'
  <2>1. row' = row /\ role' = role /\ \A o \in Request : req'[o] \in {Idle, req[o]}
    BY <1>11, <1>t DEF Fail, TypeOK
  <2> QED
    BY <1>t, <2>1, UpdatesKeepAInv
<1>12. ASSUME NEW u \in User, Delete(u) PROVE AInv'
  <2>1. /\ row' = [row EXCEPT ![u].account = "deleted", ![u].password = "deleted",
                              ![u].prefixes = @ + 1]
        /\ role' = role /\ req' = req /\ row[u].account # "absent"
        /\ \A v \in User : row[v].account # "absent" /\ NameOf[v] = NameOf[u]
                             => row[v].prefixes # row[u].prefixes + 1
    BY <1>12 DEF Delete
  <2>2. /\ row'[u].account = "deleted" /\ row'[u].password = "deleted"
        /\ row'[u].prefixes = row[u].prefixes + 1
        /\ row'[u].invitation = row[u].invitation /\ row'[u].reason = row[u].reason
        /\ row'[u].locked = row[u].locked /\ row'[u].failed = row[u].failed
        /\ \A v \in User \ {u} : row'[v] = row[v]
    BY <1>r, <2>1 DEF Account
  <2>3. Updated(u)
    BY <2>1, <2>2 DEF Updated, AInv, FailedLoginsCounted
  <2>4. \A v \in User : row[v].prefixes \in Nat
    BY <1>r, BoundsType DEF Account
  <2>5. UsernamesUnique'
    <3>1. \A v, w \in User :
            /\ v # w /\ NameOf[v] = NameOf[w]
            /\ row'[v].account # "absent" /\ row'[w].account # "absent"
            => row'[v].prefixes # row'[w].prefixes
      <4> SUFFICES ASSUME NEW v \in User, NEW w \in User, v # w, NameOf[v] = NameOf[w],
                          row'[v].account # "absent", row'[w].account # "absent"
                   PROVE  row'[v].prefixes # row'[w].prefixes
        OBVIOUS
      <4>1. CASE v = u
        BY ZenonT(40), <2>1, <2>2, <4>1
      <4>2. CASE w = u
        <5>1. row'[v] = row[v] /\ row[v].account # "absent" /\ NameOf[v] = NameOf[u]
          BY <2>2, <4>2
        <5>2. row[v].prefixes # row[u].prefixes + 1
          BY <2>1, <5>1
        <5> QED
          BY <2>2, <4>2, <5>1, <5>2
      <4>3. CASE v # u /\ w # u
        BY <2>2, <4>3 DEF AInv, UsernamesUnique
      <4> QED
        BY <4>1, <4>2, <4>3
    <3>2. \A v \in User : row'[v].account = "deleted" => row'[v].prefixes > 0
      BY <2>2, <2>4 DEF AInv, UsernamesUnique
    <3>3. \A v \in User : row'[v].account = "present" => row'[v].prefixes = 0
      BY <2>2 DEF AInv, UsernamesUnique
    <3> QED
      BY <3>1, <3>2, <3>3 DEF UsernamesUnique
  <2> QED
    BY <1>t, <2>1, <2>2, <2>3, <2>5, UpdatesKeepAInv
<1>13. ASSUME NEW u \in User, NEW r \in Role, ChangeRole(u, r) PROVE AInv'
  <2>1. row' = row /\ req' = req /\ role' = [role EXCEPT ![u] = r]
    BY <1>13 DEF ChangeRole
  <2>2. r # "none"
    BY DEF Role
  <2>3. \A v \in User : role[v] # "none" => role'[v] # "none"
    BY <1>r, <2>1, <2>2
  <2> QED
    BY <1>t, <2>1, <2>3, UpdatesKeepAInv
<1>14. ASSUME NEW u \in User, ChangePassword(u) PROVE AInv'
  <2>1. /\ row' = [row EXCEPT ![u].invitation = "used"] /\ role' = role /\ req' = req
        /\ row[u].account = "present" /\ row[u].password = "set" /\ row[u].invitation = "open"
    BY <1>14 DEF ChangePassword, Present
  <2>2. row'[u] = [row[u] EXCEPT !.invitation = "used"] /\ \A v \in User \ {u} : row'[v] = row[v]
    BY <1>r, <2>1
  <2>3. Updated(u) /\ row'[u].account = row[u].account /\ row'[u].prefixes = row[u].prefixes
    BY <1>r, <2>1, <2>2 DEF Updated, Account, AInv, FailedLoginsCounted
  <2> QED
    BY <1>t, <2>1, <2>2, <2>3, UpdatesKeepAInv
<1>15. ASSUME NEW u \in User, Login(u) \/ LoginFails(u) PROVE AInv'
  <2>1. /\ role' = role /\ req' = req /\ row[u].account = "present"
        /\ \A v \in User \ {u} : row'[v] = row[v]
    BY <1>15, <1>r DEF Login, LoginFails, Present
  <2>2. /\ row'[u].account = row[u].account /\ row'[u].prefixes = row[u].prefixes
        /\ row'[u].password = row[u].password /\ row'[u].invitation = row[u].invitation
    BY <1>15, <1>r DEF Login, LoginFails, Account
  <2>3. ASSUME row'[u].reason = FailedLogins
        PROVE  row'[u].locked /\ row'[u].failed > MaxFailedLoginAttempts
    <3>1. row[u].failed \in Nat /\ MaxFailedLoginAttempts \in Nat
      BY <1>r, BoundsType DEF Account
    <3>2. row[u].reason = FailedLogins
            => row[u].locked /\ row[u].failed > MaxFailedLoginAttempts
      BY DEF AInv, FailedLoginsCounted
    <3>3. CASE Login(u)
      <4>1. \/ row' = row
            \/ row'[u].reason = Default
        BY <1>r, <3>3 DEF Login, Account
      <4>2. row' = row
        BY <2>3, <4>1 DEF Default, FailedLogins
      <4> QED
        BY <2>3, <3>2, <4>2
    <3>4. CASE LoginFails(u)
      <4>1. /\ row'[u].failed = row[u].failed + 1
            /\ \/ row[u].failed + 1 > MaxFailedLoginAttempts /\ row'[u].locked
               \/ row'[u].locked = row[u].locked /\ row'[u].reason = row[u].reason
        BY <1>r, <3>4 DEF LoginFails, Account
      <4> QED
        BY <2>3, <3>1, <3>2, <4>1
    <3> QED
      BY <1>15, <3>3, <3>4
  <2>4. Updated(u)
    BY <2>1, <2>2, <2>3 DEF Updated
  <2> QED
    BY <1>t, <2>1, <2>2, <2>4, UpdatesKeepAInv
<1>16. ASSUME NEW u \in User, Logout(u) PROVE AInv'
  <2>1. row' = row /\ role' = role /\ req' = req
    BY <1>16 DEF Logout
  <2> QED
    BY <1>t, <2>1, UpdatesKeepAInv
<1>17. ASSUME Crash PROVE AInv'
  <2>1. row' = row /\ role' = role /\ \A p \in Request : req'[p] = Idle
    BY <1>17 DEF Crash
  <2> QED
    BY <1>t, <2>1, UpdatesKeepAInv
<1>18. ASSUME StartWithAdmin PROVE AInv'
  <2>1. SetLock(AdminName, FALSE, Default) /\ role' = role /\ req' = req
    BY <1>18 DEF StartWithAdmin
  <2> QED
    BY <1>t, <2>1, SetLockUpdates, UpdatesKeepAInv
<1>19. ASSUME NEW u \in User, StartWithoutAdmin(u) PROVE AInv'
  <2>1. PICK locked \in BOOLEAN : row' = [row EXCEPT ![u] = NewRow(locked, "set")]
    BY <1>19 DEF StartWithoutAdmin
  <2>2. row'[u] = NewRow(locked, "set") /\ \A v \in User \ {u} : row'[v] = row[v]
    BY <1>r, <2>1
  <2>3. Created(u) /\ row'[u].prefixes = 0
    BY <1>19, <2>2 DEF StartWithoutAdmin, Created, NewRow, Default, FailedLogins
  <2>4. UsernamesUnique'
    BY <1>19, <2>2, <2>3, CreationKeepsNames DEF StartWithoutAdmin, Created
  <2>5. req' = req /\ \A v \in User : role[v] # "none" => role'[v] # "none"
    BY <1>19, <1>r DEF StartWithoutAdmin
  <2> QED
    BY <1>t, <2>2, <2>3, <2>4, <2>5, UpdatesKeepAInv
<1>20. ASSUME UNCHANGED vars PROVE AInv'
  <2>1. row' = row /\ role' = role /\ req' = req
    BY <1>20 DEF vars
  <2> QED
    BY <1>t, <2>1, UpdatesKeepAInv
<1> QED
  BY Zenon, <1>1, <1>2, <1>3, <1>4, <1>5, <1>6, <1>7, <1>8, <1>9, <1>10, <1>11, <1>12, <1>13,
     <1>14, <1>15, <1>16, <1>17, <1>18, <1>19, <1>20
     DEF Next, Statement, Transaction, StartUp

(* AInv holds of every reachable state.                                    *)
THEOREM AccountsInvariant == Spec => []AInv
<1>1. Init => AInv
  <2>1. Init => TypeOK
    BY InitType
  <2>2. NoRow.account = "absent" /\ NoRow.invitation = "none" /\ NoRow.reason # FailedLogins
    BY DEF NoRow, NewRow, Default, FailedLogins
  <2>3. Init => (\A u \in User : row[u] = NoRow) /\ (\A p \in Request : req[p] = Idle)
    BY DEF Init
  <2> QED
    BY <2>1, <2>2, <2>3 DEF AInv, FailedLoginsCounted, SetupStillPossible, InvitedHasRole,
       RequestsPrepared, AbsentRowsEmpty, UsernamesUnique
<1> QED
  BY <1>1, AInvStep, PTL DEF Spec

(* Every reachable state is well typed.                                    *)
THEOREM TypeCorrect == Spec => []TypeOK
<1>1. AInv => TypeOK
  BY DEF AInv
<1> QED
  BY <1>1, AccountsInvariant, PTL

(* An account locked for failed logins did fail more often than allowed,   *)
(* whatever the requests of others do to its row meanwhile.                *)
THEOREM LockedWereCounted == Spec => []FailedLoginsCounted
<1>1. AInv => FailedLoginsCounted
  BY DEF AInv
<1> QED
  BY <1>1, AccountsInvariant, PTL

(* An account whose password was never set keeps its recovery row, however *)
(* setups, retries, failures, deletions and restarts interleave.           *)
THEOREM SetupKeepsWayIn == Spec => []SetupStillPossible
<1>1. AInv => SetupStillPossible
  BY DEF AInv
<1> QED
  BY <1>1, AccountsInvariant, PTL

(* Whoever got a setup link has a role.                                    *)
THEOREM InvitedHaveRoles == Spec => []InvitedHasRole
<1>1. AInv => InvitedHasRole
  BY DEF AInv
<1> QED
  BY <1>1, AccountsInvariant, PTL

(* The usernames are unique, prefixes included: no deletion and no         *)
(* creation meets UNIQUE(USERNAME) unawares.                               *)
THEOREM NamesStayUnique == Spec => []UsernamesUnique
<1>1. AInv => UsernamesUnique
  BY DEF AInv
<1> QED
  BY <1>1, AccountsInvariant, PTL

-----------------------------------------------------------------------------
(* What a step may not do *)

(* Failed logins on a locked account are not counted.  The limit of five   *)
(* must not be the number of a reason, because the code compares the two.  *)
THEOREM CountersFreeze ==
  ASSUME MaxFailedLoginAttempts \notin {Default, NewAccount, FailedLogins, AdminLocked}
  PROVE  Spec => LockedCountersFrozen
<1>1. ASSUME AInv, [Next]_vars PROVE LockedCounters
  <2> SUFFICES ASSUME NEW v \in User, row[v].locked PROVE row'[v].failed = row[v].failed
    BY DEF LockedCounters
  <2>1. row \in [User -> Account]
    BY <1>1 DEF AInv, TypeOK, Account
  <2>2. TurnedAway(v)
    BY <2>1 DEF TurnedAway, Account
  <2>3. row[v].account # "absent"
    BY <1>1 DEF AInv, AbsentRowsEmpty, NoRow, NewRow
  <2>4. ASSUME NEW name, NEW locked \in BOOLEAN, NEW reason \in {Default, NewAccount, AdminLocked},
               SetLock(name, locked, reason)
        PROVE  row'[v].failed = row[v].failed
    BY <1>1, <2>4, SetLockRows DEF AInv
  <2>5. ASSUME UNCHANGED row PROVE row'[v].failed = row[v].failed
    BY <2>5
  <2>6. ASSUME NEW p \in Request, NEW u \in User,
               CreateRow(p, u) \/ SetupPassword(p, u) \/ ReadForLock(p, u) \/ ReadForUnlock(p, u)
        PROVE  row'[v].failed = row[v].failed
    <3>1. CASE CreateRow(p, u)
      <4>1. u # v
        BY <2>3, <3>1 DEF CreateRow
      <4> QED
        BY <2>1, <3>1, <4>1 DEF CreateRow
    <3>2. CASE SetupPassword(p, u)
      BY <2>1, <3>2 DEF SetupPassword, Account
    <3>3. CASE ReadForLock(p, u) \/ ReadForUnlock(p, u)
      BY <3>3 DEF ReadForLock, ReadForUnlock
    <3> QED
      BY <2>6, <3>1, <3>2, <3>3
  <2>7. ASSUME NEW p \in Request, LockNew(p) \/ Lock(p) \/ Unlock(p) \/ SetupUnlock(p)
        PROVE  row'[v].failed = row[v].failed
    BY <2>4, <2>7 DEF LockNew, Lock, Unlock, SetupUnlock
  <2>8. ASSUME NEW p \in Request, Invite(p) \/ SetupClear(p) PROVE row'[v].failed = row[v].failed
    BY <2>1, <2>8 DEF Invite, SetupClear, Account
  <2>9. ASSUME NEW u \in User, Delete(u) \/ ChangePassword(u)
        PROVE  row'[v].failed = row[v].failed
    BY <2>1, <2>9 DEF Delete, ChangePassword, Account
  <2>10. ASSUME NEW u \in User, Login(u) \/ LoginFails(u) PROVE row'[v].failed = row[v].failed
    <3>1. u # v
      BY <2>2, <2>10 DEF Login, LoginFails
    <3> QED
      BY <2>1, <2>10, <3>1 DEF Login, LoginFails
  <2>11. ASSUME StartWithAdmin PROVE row'[v].failed = row[v].failed
    BY <2>4, <2>11 DEF StartWithAdmin
  <2>12. ASSUME NEW u \in User, StartWithoutAdmin(u) PROVE row'[v].failed = row[v].failed
    <3>1. u # v
      BY <2>3, <2>12 DEF StartWithoutAdmin
    <3> QED
      BY <2>1, <2>12, <3>1 DEF StartWithoutAdmin
  <2>13. ASSUME \/ \E p \in Request, r \in Role : AssignRole(p, r)
                \/ \E p \in Request : Fail(p)
                \/ \E u \in User, r \in Role : ChangeRole(u, r)
                \/ \E u \in User : Logout(u)
                \/ Crash
                \/ UNCHANGED vars
         PROVE  UNCHANGED row
    BY <2>13 DEF AssignRole, Fail, ChangeRole, Logout, Crash, vars
  <2> QED
    BY Zenon, <1>1, <2>5, <2>6, <2>7, <2>8, <2>9, <2>10, <2>11, <2>12, <2>13
       DEF Next, Statement, Transaction, StartUp
<1>2. AInv /\ [Next]_vars => [LockedCounters]_vars
  BY <1>1
<1> QED
  BY <1>2, AccountsInvariant, PTL DEF Spec, LockedCountersFrozen

(* A server that comes up has an unlocked account under the                *)
(* administrator's name, whatever a crash left behind.                     *)
THEOREM AdminUnlockedAtStart == Spec => StartUnlocksAdmin
<1>1. ASSUME AInv, [Next]_vars, ~up, up' PROVE StartWithAdmin \/ \E u \in User : StartWithoutAdmin(u)
  <2>1. ASSUME NEW p \in Request, Statement(p) PROVE FALSE
    BY <1>1, <2>1 DEF Statement, CreateRow, ReadForLock, ReadForUnlock, SetupPassword, LockNew,
       Invite, Lock, Unlock, SetupUnlock, SetupClear, AssignRole, Fail
  <2> QED
    BY <1>1, <2>1 DEF Next, Transaction, Crash, StartUp, vars
<1>2. ASSUME AInv, StartWithAdmin
      PROVE  \E u \in User : Present(u)' /\ NameOf[u] = AdminName /\ ~row'[u].locked
  <2>1. PICK u \in User : Present(u) /\ NameOf[u] = AdminName
    BY <1>2 DEF StartWithAdmin, NameTaken
  <2>2. row[u] \in Account
    BY <1>2 DEF AInv, TypeOK, Account
  <2>3. row'[u] = [row[u] EXCEPT !.locked = FALSE, !.reason = Default]
    BY <1>2, <2>1 DEF StartWithAdmin, SetLock
  <2>4. ~row'[u].locked /\ row'[u].account = row[u].account
    BY <2>2, <2>3 DEF Account
  <2> QED
    BY <2>1, <2>4 DEF Present
<1>3. ASSUME AInv, up', NEW u \in User, StartWithoutAdmin(u)
      PROVE  Present(u)' /\ NameOf[u] = AdminName /\ ~row'[u].locked
  <2>1. NameOf[u] = AdminName /\ row' = [row EXCEPT ![u] = NewRow(FALSE, "set")]
    BY <1>3 DEF StartWithoutAdmin
  <2>2. row'[u] = NewRow(FALSE, "set")
    BY <1>3, <2>1 DEF AInv, TypeOK
  <2> QED
    BY <2>1, <2>2 DEF Present, NewRow
<1>4. AInv /\ [Next]_vars => [AdminAfterStart]_vars
  BY <1>1, <1>2, <1>3 DEF AdminAfterStart
<1> QED
  BY <1>4, AccountsInvariant, PTL DEF Spec, StartUnlocksAdmin

-----------------------------------------------------------------------------
(* The refinement of Accounts *)

(* A step that leaves the account fields alone is no step of Accounts.     *)
LEMMA SameAccounts ==
  ASSUME TypeOK, \A u \in User : row'[u].account = row[u].account, role' = role
  PROVE  UNCHANGED Acc!vars
BY DEF Acc!vars

(* Creating a row is creating the account, assigning a role likewise, and  *)
(* so on; a deletion of what is deleted already is no step, and neither    *)
(* are locks, passwords, logins and crashes.                               *)
LEMMA StepRefines == AInv /\ [Next]_vars => [Acc!Next]_(Acc!vars)
<1> SUFFICES ASSUME AInv, [Next]_vars PROVE [Acc!Next]_(Acc!vars)
  OBVIOUS
<1> DEFINE account == [u \in User |-> row[u].account]
           Same == /\ \A u \in User : row'[u].account = row[u].account
                   /\ role' = role
<1>t. TypeOK /\ row \in [User -> Account] /\ role \in [User -> Role \cup {"none"}]
  BY DEF AInv, TypeOK, Account
<1>n. \A name : NameTaken(name) <=> Acc!NameTaken(name)
  BY DEF NameTaken, Acc!NameTaken, Present
<1>s. ASSUME Same PROVE UNCHANGED Acc!vars
  BY <1>s, <1>t, SameAccounts
<1>l. ASSUME NEW name, NEW locked \in BOOLEAN, NEW reason \in {Default, NewAccount, AdminLocked},
             SetLock(name, locked, reason), role' = role
      PROVE  Same
  BY <1>l, SetLockUpdates
<1>r. ASSUME UNCHANGED <<row, role>> PROVE Same
  BY <1>r
<1>1. ASSUME NEW p \in Request, NEW u \in User, CreateRow(p, u) PROVE Acc!CreateAccount(u)
  <2>1. row'[u] = NewRow(TRUE, "unset") /\ \A v \in User \ {u} : row'[v] = row[v]
    BY <1>1, <1>t DEF CreateRow
  <2>2. account' = [account EXCEPT ![u] = "present"]
    <3>1. row'[u].account = "present"
      BY <2>1 DEF NewRow
    <3> QED
      BY <2>1, <3>1
  <2> QED
    BY <1>1, <1>n, <2>2 DEF CreateRow, Acc!CreateAccount
<1>2. ASSUME NEW p \in Request, LockNew(p) \/ Lock(p) \/ Unlock(p) \/ SetupUnlock(p) PROVE Same
  BY <1>2, <1>l DEF LockNew, Lock, Unlock, SetupUnlock
<1>3. ASSUME NEW p \in Request, NEW r \in Role, AssignRole(p, r)
      PROVE  Acc!AssignRole(req[p].user, r) /\ req[p].user \in User
  <2>1. req[p] # Idle
    BY <1>3 DEF AssignRole, Continue, Idle
  <2>2. req[p].user \in User /\ row[req[p].user].account # "absent"
    BY <1>t, <2>1, RequestFields DEF AInv, RequestsPrepared
  <2> QED
    BY <1>3, <2>2 DEF AssignRole, Acc!AssignRole
<1>4. ASSUME NEW p \in Request, Invite(p) \/ SetupClear(p) PROVE Same
  BY <1>4, <1>t DEF Invite, SetupClear, Account
<1>5. ASSUME NEW p \in Request, NEW u \in User, SetupPassword(p, u) PROVE Same
  BY <1>5, <1>t DEF SetupPassword, Account
<1>6. ASSUME NEW u \in User, Delete(u) PROVE Acc!DeleteAccount(u) \/ Same
  <2>1. /\ row'[u].account = "deleted" /\ \A v \in User \ {u} : row'[v] = row[v]
        /\ role' = role /\ row[u].account \in {"present", "deleted"}
    BY <1>6, <1>t DEF Delete, Account
  <2>2. account' = [account EXCEPT ![u] = "deleted"]
    BY <2>1
  <2> QED
    BY <2>1, <2>2 DEF Acc!DeleteAccount
<1>7. ASSUME NEW u \in User, NEW r \in Role, ChangeRole(u, r)
      PROVE  Acc!ChangeRole(u, r)
  <2>1. role[u] \notin {"Admin", r}
    BY <1>7, <1>t DEF ChangeRole, Rank, Role
  <2> QED
    BY <1>7, <2>1 DEF ChangeRole, Acc!ChangeRole
<1>8. ASSUME NEW u \in User, ChangePassword(u) \/ Login(u) \/ LoginFails(u) PROVE Same
  BY <1>8, <1>t DEF ChangePassword, Login, LoginFails, Account
<1>9. ASSUME StartWithAdmin PROVE Same
  BY <1>9, <1>l DEF StartWithAdmin
<1>10. ASSUME NEW u \in User, StartWithoutAdmin(u) PROVE Acc!InitializeAdmin(u)
  <2>1. PICK locked \in BOOLEAN : row' = [row EXCEPT ![u] = NewRow(locked, "set")]
    BY <1>10 DEF StartWithoutAdmin
  <2>2. row'[u] = NewRow(locked, "set") /\ \A v \in User \ {u} : row'[v] = row[v]
    BY <1>t, <2>1
  <2>3. account' = [account EXCEPT ![u] = "present"]
    <3>1. row'[u].account = "present"
      BY <2>2 DEF NewRow
    <3> QED
      BY <2>2, <3>1
  <2> QED
    BY <1>10, <1>n, <2>3 DEF StartWithoutAdmin, Acc!InitializeAdmin
<1>11. ASSUME \/ \E p \in Request, u \in User : ReadForLock(p, u) \/ ReadForUnlock(p, u)
              \/ \E p \in Request : Fail(p)
              \/ \E u \in User : Logout(u)
              \/ Crash
              \/ UNCHANGED vars
       PROVE  Same
  BY <1>11 DEF ReadForLock, ReadForUnlock, Fail, Logout, Crash, vars
<1>12. \/ Same
       \/ \E u \in User : \/ Acc!CreateAccount(u) \/ Acc!InitializeAdmin(u) \/ Acc!DeleteAccount(u)
                          \/ \E r \in Role : Acc!AssignRole(u, r) \/ Acc!ChangeRole(u, r)
  <2> HIDE DEF Same
  <2> QED
    BY Zenon, <1>1, <1>2, <1>3, <1>4, <1>5, <1>6, <1>7, <1>8, <1>9, <1>10, <1>11
       DEF Next, Statement, Transaction, StartUp
<1>13. Role = Acc!Role
  BY DEF Role, Acc!Role
<1> QED
  BY <1>12, <1>13, <1>s DEF Acc!Next

(* However requests are cut into statements, accounts and roles behave as  *)
(* Accounts says.                                                          *)
THEOREM ImplementsAccounts == Spec => AccountsSpec
<1>1. Init => Acc!Init
  BY DEF Init, Acc!Init, NoRow, NewRow
<1> QED
  BY <1>1, StepRefines, AccountsInvariant, PTL DEF Spec, AccountsSpec, Acc!Spec
=============================================================================
