----------------------------- MODULE WebConsole -----------------------------
(***************************************************************************)
(* The web console as a whole: the pages over the shell, the layout that   *)
(* leads from one to another, the page load a lost session ends in, and    *)
(* what must hold whatever the user does and however the answers come.     *)
(***************************************************************************)
EXTENDS AccountSetup, UserDialogs, NamespacesPage

Init ==
  \/ Loaded("login", LoginView, {})
  \/ Loaded("setup", SetupView, SetupCalls)
  \/ Loaded("home", HomeView, {})
  \/ Loaded("users", UsersView, UsersCalls)
  \/ Loaded("namespaces", NamespacesView, NamespacesCalls)
  \/ Loaded("missing", MissingView, {})

--------------------------------------------------------------------------
(* The layout around home and the two management pages.  The links of the  *)
(* side menu, whose groups fold, lead to these two or to paths no route    *)
(* serves.                                                                 *)

DialogOpen ==
  CASE page = "users"      -> view.inviting \/ view.row.open
    [] page = "namespaces" -> view.creating
    [] OTHER               -> FALSE

InLayout(pages) == page \in pages /\ ~DialogOpen

MenuLinks ==
  [users        |-> "users",   invitations       |-> "missing",
   activityLog  |-> "missing", namespaces        |-> "namespaces",
   repositories |-> "missing", upstreams         |-> "missing",
   ldap         |-> "missing", sso               |-> "missing",
   cacheCleanup |-> "missing", storageCleanup    |-> "missing",
   manualJobs   |-> "missing", storageAnalytics  |-> "missing",
   cache        |-> "missing", errors            |-> "missing",
   garbageCollection |-> "missing"]

Follow(to) ==
  \/ to = "users"      /\ Enter("users", UsersView, UsersCalls, loader, flights)
  \/ /\ to = "namespaces"
     /\ Enter("namespaces", NamespacesView, NamespacesCalls, loader, flights)
  \/ to = "missing"    /\ Enter("missing", MissingView, {}, loader, flights)

FollowMenu ==
  /\ InLayout({"users", "namespaces"})
  /\ Gesture
  /\ \E link \in DOMAIN MenuLinks : Follow(MenuLinks[link])
  /\ UNCHANGED <<reload, redirects, abandoned>>

\* The header's icon and the first crumb lead to the console's base path, which
\* shows no page and redirects to the users; a page shown before is mounted
\* anew.
OpenManagementConsole ==
  /\ InLayout({"home", "users", "namespaces"})
  /\ Gesture
  /\ Mount("users", UsersView, UsersCalls, loader, flights)
  /\ UNCHANGED <<reload, redirects, abandoned>>

GoHome ==
  /\ InLayout({"users", "namespaces"})
  /\ Gesture
  /\ Enter("home", HomeView, {}, loader, flights)
  /\ UNCHANGED <<reload, redirects, abandoned>>

Logout ==
  /\ InLayout({"home", "users", "namespaces"})
  /\ Call
  /\ flights' = Sent(flights, Flight("handleLogout", NoArguments))
  /\ UNCHANGED <<page, view, loader, reload, redirects, abandoned>>

\* An error is only logged.
LoggedOut(f, outcome) ==
  /\ f.call = "handleLogout"
  /\ Answered(f, outcome)
  /\ ToLogin(loader, Returned(flights, f))
  /\ UNCHANGED <<redirects, gestures, abandoned>>

\* As below, but the router leads to the login page without loading it.
LoadLogin_Navigates ==
  /\ reload
  /\ ToLogin(loader, flights)
  /\ reload' = FALSE
  /\ UNCHANGED <<redirects, gestures, abandoned>>

\* The interceptor's timer loads the login page from the server: whatever was
\* out or running is gone with the old page.
LoadLogin ==
  /\ reload
  /\ page' = "login"
  /\ view' = LoginView
  /\ loader' = 0
  /\ flights' = EmptyBag
  /\ reload' = FALSE
  /\ redirects' = 0
  /\ abandoned' = EmptyBag
  /\ UNCHANGED gestures

--------------------------------------------------------------------------
(* Next and what is fair: an answer comes, or the call fails, in the end;  *)
(* a timer that runs goes off.                                             *)

LoginNext ==
  \/ \E field \in {"username", "password"} : ChangeCredential(field)
  \/ SignIn
  \/ PressEnterToLogin

SetupNext ==
  \/ ChangeDisplayName
  \/ \E field \in {"password", "password1"} : ChangePassword(field)
  \/ CompleteSetup
  \/ PressEnterToComplete
  \/ LoginNow

UsersNext ==
  \/ \E option \in ChipChoices : ToggleChip(option)
  \/ \E key \in SortKeys : Sort(key)
  \/ TurnPage
  \/ \E term \in Terms \cup {""} : Search(term)
  \/ ToggleInvitation
  \/ \E email \in Emails \cup {""} : ChangeEmail(email)
  \/ \E username \in Usernames \cup {""} : ChangeUsername(username)
  \/ Invite
  \/ OpenRow
  \/ CloseRow
  \/ \E email \in Emails \cup {""} : ChangeRowEmail(email)
  \/ ChangeRowDetails
  \/ UpdateRow
  \/ DeleteRow

NamespacesNext ==
  \/ OpenCreation
  \/ CloseCreation
  \/ \E name \in Names \cup {""} : ChangeName(name)
  \/ ChangeDescription
  \/ \E m \in Maintainers : ToggleMaintainer(m)
  \/ \E term \in SearchTerms : SearchForMaintainers(term)
  \/ CreateNamespace

LayoutNext == FollowMenu \/ OpenManagementConsole \/ GoHome \/ Logout

Answers(f) ==
  \/ f.call \in DOMAIN Awaits /\
       \E outcome \in Outcomes[Awaits[f.call]] :
         \/ LoginAnswered(f, outcome)
         \/ LoggedOut(f, outcome)
         \/ OnboardingDataFetched(f, outcome)
         \/ SetupAnswered(f, outcome)
         \/ UsersListed(f, outcome)
         \/ UserValidated(f, outcome)
         \/ UserCreated(f, outcome)
         \/ NamespacesListed(f, outcome)
         \/ NameValidated(f, outcome)
         \/ NamespaceSaved(f, outcome)
         \/ MaintainersFound(f, outcome)
  \/ \E outcome \in {"done", "error"} :
         \/ RowValidated(f, outcome)
         \/ RowUpdated(f, outcome)
         \/ RowDeleted(f, outcome)
  \/ Rejected(f)

Answer == \E f \in BagToSet(flights) : Answers(f)

Timer == SearchDue \/ MaintainerSearchDue \/ HideProgress

Next ==
  \/ LoginNext \/ SetupNext \/ UsersNext \/ NamespacesNext \/ LayoutNext
  \/ Answer \/ Timer \/ RedirectDue \/ LoadLogin

Spec ==
  /\ Init
  /\ [][Next]_vars
  /\ WF_vars(Answer)
  /\ WF_vars(Timer)
  /\ WF_vars(RedirectDue)
  /\ WF_vars(LoadLogin)

--------------------------------------------------------------------------
(* Properties.                                                             *)

\* How many handlers that show the loader are out, and how many have ended
\* without hiding it.
Occurrences(bag, elements) == UNION {{e} \X (1 .. bag[e]) : e \in elements}

HandlersOut ==
  Cardinality(Occurrences(flights, {f \in BagToSet(flights) : f.call \in Loading}))

HandlersEnded ==
  Cardinality(Occurrences(abandoned, BagToSet(abandoned) \cap Loading))

CallsOut(calls) == {f \in BagToSet(flights) : f.call \in calls}

Mounted(calls) == {f \in CallsOut(calls) : f.live}

\* What the user is told to wait for is under way: the loader counts no more
\* handlers than are out or were ended by a rejected promise, and the login's
\* overlay, the row's spinner and the search's spinner each have a handler or
\* a timer that will take them away, on every path through the handlers.
BusyMeansWaiting ==
  /\ loader <= HandlersOut + HandlersEnded
  /\ page = "login" /\ view.processing =>
       Mounted({"handleLogin"}) # {} \/ "handleLogin" \in BagToSet(abandoned)
  /\ page = "users" /\ view.row.progress =>
       \/ view.row.hides > 0
       \/ \E f \in Mounted({"valiateUser", "updateUserAccount"}) : f.arg.here
  /\ page = "namespaces" /\ view.searching =>
       \/ Mounted({"searchMaintainers"}) # {}
       \/ "searchMaintainers" \in BagToSet(abandoned)

\* When the latest listing has been answered well, no older answer came after
\* it and no dialog asked for it, the rows on display are those the controls ask
\* for: no control changes the query without asking anew or asks with a query of
\* before the change, and the timers of the search field, which are never
\* cleared, apply its values in the order typed.
TableAsAsked ==
  page = "users" /\ view.status = "settled" =>
    view.rows = ListRequest(view.query)

\* What is sent to be stored has been checked with the same values, however
\* the fields were edited while the check was out: a new user's address and
\* name, an account's new address, a namespace's name.
SentAsChecked ==
  \A f \in BagToSet(flights) :
    /\ f.call = "createUserAccountAPICall" => f.checked = Pair(f.arg)
    /\ f.call = "updateUserAccount" =>
         f.arg.email = "own" \/ f.checked = <<f.arg.email>>
    /\ f.call = "saveNamespace" => f.checked = <<f.arg.name>>

\* Once a setup counts as completed the login page comes up, whatever a second
\* submission by the Enter key came to and wherever the user went meanwhile.
SetupReachesLogin == redirects > 0 ~> page = "login"

\* A lost session ends at the login page with the loader gone, also when the
\* handler that met the 401 could not read its answer and ended busy.
SessionLossReachesLogin == reload ~> (page = "login" /\ loader = 0)
=============================================================================
