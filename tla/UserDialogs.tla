---------------------------- MODULE UserDialogs ----------------------------
(***************************************************************************)
(* The two dialogs of the users page: CreateUserAccount, which invites a   *)
(* user through the generated client, and UserAccountView, which changes   *)
(* or deletes the account of a row through the old client.                 *)
(***************************************************************************)
EXTENDS UsersPage

--------------------------------------------------------------------------
(* Inviting a user.  The fields stay when the dialog is closed.            *)

ToggleInvitation ==
  /\ page = "users"
  /\ ~view.row.open
  /\ view' = [view EXCEPT !.inviting = ~@]
  /\ UNCHANGED <<page, loader, flights, reload, redirects, gestures, abandoned>>

Inviting == page = "users" /\ view.inviting

\* Typing takes the field's message away.
ChangeEmail(email) ==
  /\ Inviting
  /\ view' = [view EXCEPT !.form.email = email, !.form.taken = @ \ {"email"}]
  /\ UNCHANGED <<page, loader, flights, reload, redirects, gestures, abandoned>>

ChangeUsername(username) ==
  /\ Inviting
  /\ view' = [view EXCEPT !.form.username = username,
                          !.form.taken = @ \ {"username"}]
  /\ UNCHANGED <<page, loader, flights, reload, redirects, gestures, abandoned>>

\* What a handler of the form closes over: its fields, and the page's query
\* through the callback.
FormArguments ==
  [email |-> view.form.email, username |-> view.form.username,
   query |-> view.query]

\* A name known to be taken is refused until its field is changed.
Invite ==
  /\ Inviting
  /\ Call
  /\ view.form.email # "" /\ view.form.username # "" /\ view.form.taken = {}
  /\ flights' = Sent(flights, Flight("validateUsernameEmailAPICall",
                                     FormArguments))
  /\ loader' = Show(loader)
  /\ UNCHANGED <<page, view, reload, redirects, abandoned>>

Pair(arg) == <<arg.email, arg.username>>

UserTaken(f, field) ==
  /\ view' = IF f.live THEN [view EXCEPT !.form.taken = @ \cup {field}] ELSE view
  /\ loader' = Hide(Hide(loader))
  /\ flights' = Returned(flights, f)

\* As below, but the creation sends what the fields hold by then.
UserFree_Fields(f) ==
  /\ loader' = Show(Hide(loader))
  /\ flights' = Sent(Returned(flights, f),
                     [GoesOn(f, "createUserAccountAPICall", Pair(f.arg))
                        EXCEPT !.arg = IF f.live THEN FormArguments ELSE @])
  /\ UNCHANGED view

\* Both free: the creation follows with the values of the check.
UserFree(f) ==
  /\ loader' = Show(Hide(loader))
  /\ flights' = Sent(Returned(flights, f),
                     GoesOn(f, "createUserAccountAPICall", Pair(f.arg)))
  /\ UNCHANGED view

UserValidated(f, outcome) ==
  /\ f.call = "validateUsernameEmailAPICall"
  /\ Answered(f, outcome)
  /\ \/ /\ Failed(outcome)
        /\ loader' = Hide(loader)
        /\ flights' = Returned(flights, f)
        /\ UNCHANGED view
     \/ /\ ~Failed(outcome)
        /\ UserTaken(f, "email") \/ UserTaken(f, "username") \/ UserFree(f)
  /\ UNCHANGED <<page, redirects, gestures, abandoned>>

\* The callback of a dialog: its closure's loadUsers, and the invitation shut.
\* A page that is gone still sends the call.
HideDialogs(f, v, l, fs) ==
  /\ IF f.live
     THEN /\ flights' = Sent(fs, LoadUsers(f.arg.query, v.asked + 1))
          /\ view' = [v EXCEPT
               !.inviting = FALSE,
               !.asked = @ + 1,
               !.status = IF f.arg.query = v.query THEN "waiting" ELSE "upset"]
     ELSE /\ flights' = Sent(fs, [LoadUsers(f.arg.query, 0)
                                    EXCEPT !.live = FALSE])
          /\ UNCHANGED view
  /\ loader' = Show(l)

UserCreated(f, outcome) ==
  /\ f.call = "createUserAccountAPICall"
  /\ Answered(f, outcome)
  /\ \/ /\ Failed(outcome)
        /\ loader' = Hide(loader)
        /\ flights' = Returned(flights, f)
        /\ UNCHANGED view
     \/ /\ ~Failed(outcome)
        /\ HideDialogs(f, IF f.live THEN [view EXCEPT !.form = NewForm] ELSE view,
                       Hide(loader), Returned(flights, f))
  /\ UNCHANGED <<page, redirects, gestures, abandoned>>

--------------------------------------------------------------------------
(* The account of the first row.                                           *)

\* The row's button turns the dialog on and off, and so does closing it, which
\* also reloads the users.
OpenRow ==
  /\ OnUsersPage
  /\ view.account # NoAccount
  /\ view' = [view EXCEPT !.row.open = TRUE]
  /\ UNCHANGED <<page, loader, flights, reload, redirects, gestures, abandoned>>

InRow == page = "users" /\ view.row.open

CloseRow ==
  /\ InRow
  /\ Call
  /\ Reloading([view EXCEPT !.row.open = FALSE, !.inviting = FALSE], view.query,
               flights)
  /\ loader' = Show(loader)
  /\ UNCHANGED <<page, reload, redirects, abandoned>>

\* Typing leaves the message alone.
ChangeRowEmail(email) ==
  /\ InRow
  /\ view' = [view EXCEPT !.row.email = email]
  /\ UNCHANGED <<page, loader, flights, reload, redirects, gestures, abandoned>>

\* The role or the display name.
ChangeRowDetails ==
  /\ InRow
  /\ view' = [view EXCEPT !.row.changed = ~@]
  /\ UNCHANGED <<page, loader, flights, reload, redirects, gestures, abandoned>>

\* What a handler of the row closes over; here: the row is still there.
RowArguments ==
  [account |-> view.account, email |-> view.row.email, query |-> view.query,
   here |-> TRUE]

\* An address known to be taken is refused whatever the field holds by now;
\* an empty one is reported, which forgets that.
RefuseUpdate ==
  /\ view.row.email = ""
  /\ view' = [view EXCEPT !.row.taken = FALSE]
  /\ UNCHANGED <<flights, gestures>>

\* A new address is checked first.
SendUpdate ==
  /\ Call
  /\ view.row.email # ""
  /\ ~view.row.taken
  /\ view.row.changed \/ view.row.email # "own"
  /\ view' = [view EXCEPT !.row.progress = TRUE]
  /\ flights' = Sent(flights,
                     Flight(IF view.row.email = "own" THEN "updateUserAccount"
                            ELSE "valiateUser", RowArguments))

UpdateRow ==
  /\ InRow
  /\ RefuseUpdate \/ SendUpdate
  /\ UNCHANGED <<page, loader, reload, redirects, abandoned>>

DeleteRow ==
  /\ InRow
  /\ Call
  /\ flights' = Sent(flights, Flight("deleteUser", RowArguments))
  /\ UNCHANGED <<page, view, loader, reload, redirects, abandoned>>

\* The old client's answers: no interceptor sees them.
RowAnswered(f, call, outcome) ==
  /\ f.call = call
  /\ outcome \in HttpClientOutcomes[call]
  /\ UNCHANGED <<page, reload, redirects, gestures, abandoned>>

\* The spinner goes some 200 ms after the answer, if its row is there.
Ending(f, v) == IF f.live /\ f.arg.here THEN [v EXCEPT !.row.hides = @ + 1] ELSE v

\* Success: the row's dialog is turned the other way round, the users reload.
RowDone(f) ==
  HideDialogs(f, IF f.live /\ f.arg.here
                 THEN [Ending(f, view) EXCEPT !.row.open = ~@] ELSE view,
              loader, Returned(flights, f))

RowFailed(f) ==
  /\ view' = Ending(f, view)
  /\ flights' = Returned(flights, f)
  /\ UNCHANGED loader

RowValidated(f, outcome) ==
  /\ RowAnswered(f, "valiateUser", outcome)
  /\ \/ outcome = "error" /\ RowFailed(f)
     \/ /\ outcome = "done"
        /\ view' = IF f.live /\ f.arg.here
                   THEN [Ending(f, view) EXCEPT !.row.taken = TRUE] ELSE view
        /\ flights' = Returned(flights, f)
        /\ UNCHANGED loader
     \/ /\ outcome = "done"
        /\ flights' = Sent(Returned(flights, f),
                           GoesOn(f, "updateUserAccount", <<f.arg.email>>))
        /\ UNCHANGED <<view, loader>>

RowUpdated(f, outcome) ==
  /\ RowAnswered(f, "updateUserAccount", outcome)
  /\ \/ outcome = "error" /\ RowFailed(f)
     \/ outcome = "done" /\ RowDone(f)

RowDeleted(f, outcome) ==
  /\ RowAnswered(f, "deleteUser", outcome)
  /\ \/ outcome = "error" /\ RowFailed(f)
     \/ outcome = "done" /\ RowDone(f)

HideProgress ==
  /\ page = "users"
  /\ view.row.hides > 0
  /\ view' = [view EXCEPT !.row.hides = @ - 1, !.row.progress = FALSE]
  /\ UNCHANGED <<page, loader, flights, reload, redirects, gestures, abandoned>>
=============================================================================
