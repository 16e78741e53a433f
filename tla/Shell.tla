------------------------------- MODULE Shell -------------------------------
(***************************************************************************)
(* What the pages of the web console share: the router, the loader's       *)
(* counter, the calls that are out and the timers that outlive a page.  A  *)
(* handler runs up to its await in one step and from the answer on in      *)
(* another; it is not cancelled when its page is left.                     *)
(***************************************************************************)
EXTENDS Integers, Sequences, FiniteSets, BagsExt, Bags, WebApi

CONSTANTS MaxGestures,    \* what the user asks for in all
          MaxFlights,     \* calls out at a time, of the user's doing
          MaxRejections   \* handlers an unreadable answer ends

ASSUME BoundsAssumption ==
  {MaxGestures, MaxFlights, MaxRejections} \subseteq Nat

VARIABLES
  page,        \* the route on display: "login", "setup", "home", "users",
               \* "namespaces", or "missing" for a path without a route
  view,        \* the state of that route's component, its type the page's
  loader,      \* LoaderProvider's count
  flights,     \* bag of the calls out: the answers come in any order
  reload,      \* whether a 401 has started the reload timer
  redirects,   \* the redirect intervals running, unmounted pages' included
  gestures,    \* what the user may still do
  abandoned    \* bag of the handlers whose promise was rejected

vars == <<page, view, loader, flights, reload, redirects, gestures, abandoned>>

\* The operation a handler awaits; the row dialog uses the old client.
Awaits ==
  [handleLogin                   |-> "postAuthLogin",
   handleLogout                  |-> "postAuthLogout",
   fetchOnboardingData           |-> "getOnboardingByUuid",
   handleUserAccountComplete     |-> "postOnboardingByUuidComplete",
   loadUsers                     |-> "getUsers",
   validateUsernameEmailAPICall  |-> "postUsersValidate",
   createUserAccountAPICall      |-> "postUsers",
   loadNamespaces                |-> "getResourceNamespaces",
   validateNamespaceAvailability |-> "getResourceNamespacesCheckName",
   saveNamespace                 |-> "postResourceNamespaces",
   searchMaintainers             |-> "getUsers"]

HttpClientHandlers == {"valiateUser", "updateUserAccount", "deleteUser"}

\* The handlers that show the loader before the await and hide it after.
Loading == DOMAIN Awaits \ {"handleLogin", "handleLogout", "searchMaintainers"}

Show(n) == n + 1
Hide(n) == IF n = 0 THEN 0 ELSE n - 1

--------------------------------------------------------------------------
(* Calls out: the handler, whether its component is still mounted, the     *)
(* values it closed over when it ran, and those it has had checked by the  *)
(* server, whose answer stops all handlers but that of the namespaces.     *)

NoArguments == [of |-> "page"]

Flight(call, arg) ==
  [call |-> call, live |-> TRUE, arg |-> arg, checked |-> <<>>]

\* The handler goes on to another call, with the values it has checked.
GoesOn(f, call, values) == [f EXCEPT !.call = call, !.checked = values]

Out(call) == {f \in BagToSet(flights) : f.call = call}

Sent(fs, f) == BagAdd(fs, f)
Returned(fs, f) == BagRemove(fs, f)

Copies(f, fs) == IF BagIn(f, fs) THEN fs[f] ELSE 0

\* Unmounting a component leaves its handlers running.
Left(f) == [f EXCEPT !.live = FALSE]

Orphaned(fs) ==
  [g \in {Left(f) : f \in BagToSet(fs)} |->
     Copies(g, fs) + Copies([g EXCEPT !.live = TRUE], fs)]

\* Typing, ticking and opening a dialog are free; a gesture that asks for
\* something or leads elsewhere is counted, and one that makes a call waits
\* while too many are out.
Gesture == gestures > 0 /\ gestures' = gestures - 1

Call == Gesture /\ BagCardinality(flights) < MaxFlights

\* The answer of a call and the response interceptor, which starts the reload
\* timer on a 401.
Answered(f, outcome) ==
  /\ outcome \in Outcomes[Awaits[f.call]]
  /\ outcome.kind # "rejected"
  /\ reload' = (reload \/ outcome.unauthorized)

\* The body cannot be read: the promise is rejected, the handler ends there
\* and what follows its await, hiding the loader first of all, never runs.
Rejected(f) ==
  /\ f.call \in DOMAIN Awaits
  /\ BagCardinality(abandoned) < MaxRejections
  /\ \E outcome \in Outcomes[Awaits[f.call]] :
       /\ outcome.kind = "rejected"
       /\ reload' = (reload \/ outcome.unauthorized)
  /\ flights' = Returned(flights, f)
  /\ abandoned' = BagAdd(abandoned, f.call)
  /\ UNCHANGED <<page, view, loader, redirects, gestures>>

--------------------------------------------------------------------------
(* The router.                                                             *)

HomeView == [at |-> "home"]
MissingView == [at |-> "missing"]

\* A page mounts with its initial state; the call of its effect goes out with
\* the loader shown.  Navigating to where one is mounts nothing.
Mount(p, initial, calls, l, fs) ==
  /\ page' = p
  /\ view' = initial
  /\ flights' = Orphaned(fs) (+) SetToBag(calls)
  /\ loader' = l + Cardinality(calls)

Enter(p, initial, calls, l, fs) ==
  \/ p # page /\ Mount(p, initial, calls, l, fs)
  \/ p = page /\ flights' = fs /\ loader' = l /\ UNCHANGED <<page, view>>

\* A page load by the address bar: everything starts anew.
Loaded(p, initial, calls) ==
  /\ page = p
  /\ view = initial
  /\ flights = SetToBag(calls)
  /\ loader = Cardinality(calls)
  /\ reload = FALSE
  /\ redirects = 0
  /\ gestures = MaxGestures
  /\ abandoned = EmptyBag
=============================================================================
