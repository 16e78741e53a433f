-------------------------- MODULE WebConsoleProofs --------------------------
(***************************************************************************)
(* Proofs about WebConsole, for anything that is typed, ticked and         *)
(* answered and any number of gestures, calls and rejections.              *)
(***************************************************************************)
EXTENDS Functions, WebConsole, FiniteSetTheorems, TLAPS

-----------------------------------------------------------------------------
(* Which calls are out                                                     *)

(* What sending, answering, leaving a page and losing the row make of the  *)
(* calls out.                                                              *)
LEMMA CallsOutNow ==
  ASSUME NEW fs, NEW f, NEW account, NEW calls
  PROVE  /\ BagToSet(Sent(fs, f)) = BagToSet(fs) \cup {f}
         /\ BagToSet(Returned(fs, f)) \subseteq BagToSet(fs)
         /\ BagToSet(Orphaned(fs)) = {Left(g) : g \in BagToSet(fs)}
         /\ BagToSet(Orphans(fs, account)) \subseteq BagToSet(fs) \cup {OfNoRow(g) : g \in BagToSet(fs)}
         /\ BagToSet(Orphaned(fs) (+) SetToBag(calls)) = {Left(g) : g \in BagToSet(fs)} \cup calls
         /\ BagToSet(SetToBag(calls)) = calls
<1>1. /\ BagToSet(Sent(fs, f)) = BagToSet(fs) \cup {f}
      /\ BagToSet(Returned(fs, f)) \subseteq BagToSet(fs)
  BY DEF Sent, Returned, BagAdd, BagRemove, BagToSet
<1>2. /\ BagToSet(Orphaned(fs)) = {Left(g) : g \in BagToSet(fs)}
      /\ BagToSet(Orphans(fs, account)) \subseteq BagToSet(fs) \cup {OfNoRow(g) : g \in BagToSet(fs)}
  BY DEF Orphaned, Orphans, BagToSet
<1>3. BagToSet(SetToBag(calls)) = calls
  BY DEF SetToBag, BagToSet
<1>4. BagToSet(Orphaned(fs) (+) SetToBag(calls)) = BagToSet(Orphaned(fs)) \cup BagToSet(SetToBag(calls))
  BY DEF (+), BagToSet
<1> QED
  BY <1>1, <1>2, <1>3, <1>4

(* What is to be stored was checked with the same values.                  *)
Checked(f) ==
  /\ f.call = "createUserAccountAPICall" => f.checked = Pair(f.arg)
  /\ f.call = "updateUserAccount" => f.arg.email = "own" \/ f.checked = <<f.arg.email>>
  /\ f.call = "saveNamespace" => f.checked = <<f.arg.name>>

FlightRecord(f) ==
  /\ DOMAIN f = {"call", "live", "arg", "checked"}
  /\ f = [x \in DOMAIN f |-> f[x]]

RowRecord(a) ==
  /\ DOMAIN a = {"account", "email", "query", "here"}
  /\ a = [x \in DOMAIN a |-> a[x]]
  /\ a.here \in BOOLEAN

FlightOK(f) ==
  /\ FlightRecord(f)
  /\ f.live \in BOOLEAN
  /\ f.call \in HttpClientHandlers => RowRecord(f.arg)
  /\ Checked(f)

FlightsOK(fs) == \A f \in BagToSet(fs) : FlightOK(f)

(* A call whose page has gone is the same call, and so is one whose row    *)
(* has.                                                                    *)
LEMMA LeftFlight ==
  ASSUME NEW f, FlightOK(f)
  PROVE  /\ FlightOK(Left(f))
         /\ ~Left(f).live
         /\ Left(f).call = f.call
<1>1. /\ FlightRecord(Left(f))
      /\ ~Left(f).live /\ Left(f).live \in BOOLEAN
      /\ Left(f).call = f.call /\ Left(f).arg = f.arg /\ Left(f).checked = f.checked
  BY DEF FlightOK, FlightRecord, Left
<1> QED
  BY <1>1 DEF FlightOK, Checked

(* A call whose row has gone is the same call too, and its row can be      *)
(* given back to it.                                                       *)
LEMMA RowlessFlight ==
  ASSUME NEW f, FlightOK(f)
  PROVE  /\ FlightOK(OfNoRow(f))
         /\ OfNoRow(f).live = f.live
         /\ OfNoRow(f).call = f.call
         /\ f.call \notin HttpClientHandlers => OfNoRow(f) = f
         /\ f.call \in HttpClientHandlers =>
              OfNoRow(f) = f \/ [OfNoRow(f) EXCEPT !.arg.here = TRUE] = f
<1>1. CASE f.call \notin HttpClientHandlers
  BY <1>1 DEF OfNoRow
<1>2. CASE f.call \in HttpClientHandlers
  <2> DEFINE a == [f.arg EXCEPT !.here = FALSE]
             g == [f EXCEPT !.arg = a]
  <2>1. RowRecord(f.arg) /\ FlightRecord(f)
    BY <1>2 DEF FlightOK
  <2>2. OfNoRow(f) = g
    BY <1>2 DEF OfNoRow
  <2>3. /\ RowRecord(a) /\ a.email = f.arg.email
        /\ ~f.arg.here => a = f.arg
        /\ f.arg.here => [a EXCEPT !.here = TRUE] = f.arg
    BY <2>1 DEF RowRecord
  <2> HIDE DEF a
  <2>4. /\ FlightRecord(g) /\ g.arg = a
        /\ g.live = f.live /\ g.call = f.call /\ g.checked = f.checked
        /\ a = f.arg => g = f
    BY <2>1 DEF FlightRecord
  <2>5. [g EXCEPT !.arg = f.arg] = f
    BY <2>1 DEF FlightRecord
  <2> HIDE DEF g
  <2>6. [g EXCEPT !.arg.here = TRUE] = [g EXCEPT !.arg = [a EXCEPT !.here = TRUE]]
    BY <2>4
  <2>7. g = f \/ [g EXCEPT !.arg.here = TRUE] = f
    BY <2>1, <2>3, <2>4, <2>5, <2>6 DEF RowRecord
  <2>8. Checked(g)
    BY <1>2, <2>3, <2>4 DEF Checked, FlightOK, HttpClientHandlers
  <2>9. FlightOK(g)
    BY <1>2, <2>3, <2>4, <2>8 DEF FlightOK
  <2> QED
    BY <1>2, <2>2, <2>4, <2>7, <2>9
<1> QED
  BY <1>1, <1>2

(* A call that a handler makes.                                            *)
LEMMA NewFlight ==
  ASSUME NEW call, NEW arg
  PROVE  /\ FlightRecord(Flight(call, arg))
         /\ Flight(call, arg).call = call
         /\ Flight(call, arg).live /\ Flight(call, arg).live \in BOOLEAN
         /\ Flight(call, arg).arg = arg
BY DEF Flight, FlightRecord

(* A call that follows another, with the values the first has checked.     *)
LEMMA FollowingFlight ==
  ASSUME NEW f, FlightOK(f), NEW call, NEW values
  PROVE  /\ FlightRecord(GoesOn(f, call, values))
         /\ GoesOn(f, call, values).call = call
         /\ GoesOn(f, call, values).live = f.live
         /\ GoesOn(f, call, values).arg = f.arg
         /\ GoesOn(f, call, values).checked = values
BY DEF GoesOn, FlightOK, FlightRecord

(* A call that stores nothing, or nothing new, needs no check.             *)
LEMMA UncheckedFlight ==
  ASSUME NEW call, NEW arg,
         call \notin {"createUserAccountAPICall", "saveNamespace"},
         call \in HttpClientHandlers => RowRecord(arg),
         call = "updateUserAccount" => arg.email = "own"
  PROVE  FlightOK(Flight(call, arg))
<1> DEFINE f == Flight(call, arg)
<1>1. /\ FlightRecord(f)
      /\ f.call = call /\ f.live \in BOOLEAN /\ f.arg = arg
  BY NewFlight
<1> HIDE DEF f
<1>2. Checked(f)
  BY <1>1 DEF Checked
<1>3. FlightOK(f)
  BY <1>1, <1>2 DEF FlightOK
<1> QED
  BY <1>3 DEF f

(* The calls out stay well formed.                                         *)
LEMMA FlightsStayOK ==
  ASSUME NEW fs, FlightsOK(fs)
  PROVE  /\ \A f : FlightOK(f) => FlightsOK(Sent(fs, f))
         /\ \A f : FlightsOK(Returned(fs, f))
         /\ \A account : FlightsOK(Orphans(fs, account))
         /\ \A calls : (\A f \in calls : FlightOK(f)) => FlightsOK(Orphaned(fs) (+) SetToBag(calls))
<1>1. ASSUME NEW f, FlightOK(f) PROVE FlightsOK(Sent(fs, f))
  BY <1>1, CallsOutNow DEF FlightsOK
<1>2. ASSUME NEW f PROVE FlightsOK(Returned(fs, f))
  BY CallsOutNow DEF FlightsOK
<1>3. ASSUME NEW account PROVE FlightsOK(Orphans(fs, account))
  <2>1. ASSUME NEW g \in BagToSet(Orphans(fs, account)) PROVE FlightOK(g)
    <3>1. g \in BagToSet(fs) \/ \E h \in BagToSet(fs) : g = OfNoRow(h)
      BY CallsOutNow
    <3> QED
      BY <3>1, RowlessFlight DEF FlightsOK
  <2> QED
    BY <2>1 DEF FlightsOK
<1>4. ASSUME NEW calls, \A f \in calls : FlightOK(f)
      PROVE  FlightsOK(Orphaned(fs) (+) SetToBag(calls))
  <2>1. ASSUME NEW g \in BagToSet(Orphaned(fs) (+) SetToBag(calls)) PROVE FlightOK(g)
    <3>1. g \in calls \/ \E h \in BagToSet(fs) : g = Left(h)
      BY CallsOutNow
    <3> QED
      BY <1>4, <3>1, LeftFlight DEF FlightsOK
  <2> QED
    BY <2>1 DEF FlightsOK
<1> QED
  BY <1>1, <1>2, <1>3, <1>4

-----------------------------------------------------------------------------
(* The users page and the listings that are out                            *)

UsersPageCalls ==
  {"loadUsers", "validateUsernameEmailAPICall", "createUserAccountAPICall",
   "valiateUser", "updateUserAccount", "deleteUser", "handleLogout"}

(* A mounted listing is not newer than the latest, and the latest asks for *)
(* what the controls show unless a dialog asked for it.                    *)
ListingOK(v, f) ==
  /\ f.arg.nr \in Nat
  /\ f.arg.nr <= v.asked
  /\ f.arg.nr = v.asked /\ v.status # "upset" => f.arg.query = v.query

MountedOK(v, f) ==
  /\ f.call \in UsersPageCalls
  /\ f.call = "loadUsers" => ListingOK(v, f)

TableOK(v) ==
  /\ {"query", "asked", "rows", "status"} \subseteq DOMAIN v
  /\ v.asked \in Nat
  /\ v.status \in {"waiting", "settled", "upset"}
  /\ v.status = "settled" => v.rows = ListRequest(v.query)

UsersOK(v, fs) ==
  /\ TableOK(v)
  /\ \A f \in BagToSet(fs) : f.live => MountedOK(v, f)

(* The invariant the properties of the console follow from: of every call  *)
(* that is out, and of the users page when it is on display.               *)
ConsoleOK ==
  /\ FlightsOK(flights)
  /\ page = "users" => UsersOK(view, flights)

SameTable(v, w) ==
  /\ {"query", "asked", "rows", "status"} \subseteq DOMAIN w
  /\ w.query = v.query /\ w.asked = v.asked /\ w.rows = v.rows /\ w.status = v.status

(* A step that leaves the table and what it asks for alone.                *)
LEMMA TableKept ==
  ASSUME NEW v, NEW fs, UsersOK(v, fs), NEW w, SameTable(v, w), NEW gs,
         \A g \in BagToSet(gs) : g.live => g \in BagToSet(fs) \/ MountedOK(v, g)
  PROVE  UsersOK(w, gs)
<1>1. TableOK(w)
  BY DEF UsersOK, TableOK, SameTable
<1>2. ASSUME NEW g, MountedOK(v, g) PROVE MountedOK(w, g)
  BY <1>2 DEF MountedOK, ListingOK, SameTable
<1> QED
  BY <1>1, <1>2 DEF UsersOK

(* A step that asks for rows anew: with the query of the controls, or with *)
(* any if the table is upset.                                              *)
LEMMA TableAsks ==
  ASSUME NEW v, NEW fs, UsersOK(v, fs), NEW w, NEW gs, NEW c,
         {"query", "asked", "rows", "status"} \subseteq DOMAIN w,
         w.asked = v.asked + 1, w.status \in {"waiting", "upset"},
         c.call = "loadUsers", c.arg.nr = v.asked + 1,
         w.status = "waiting" => c.arg.query = w.query,
         BagToSet(gs) \subseteq BagToSet(fs) \cup {c}
  PROVE  UsersOK(w, gs)
<1>1. v.asked \in Nat
  BY DEF UsersOK, TableOK
<1>2. TableOK(w)
  BY <1>1 DEF TableOK
<1>3. ASSUME NEW g, MountedOK(v, g) PROVE MountedOK(w, g)
  BY <1>1, <1>3 DEF MountedOK, ListingOK
<1>4. MountedOK(w, c)
  BY <1>1 DEF MountedOK, ListingOK, UsersPageCalls
<1> QED
  BY <1>2, <1>3, <1>4 DEF UsersOK

(* A listing's call, its number and its query.                             *)
LEMMA ListingFields ==
  ASSUME NEW query, NEW nr
  PROVE  /\ LoadUsers(query, nr).call = "loadUsers"
         /\ LoadUsers(query, nr).arg.nr = nr
         /\ LoadUsers(query, nr).arg.query = query
BY DEF LoadUsers, Flight

(* The calls of the users page and of a dialog for rows are well formed.   *)
LEMMA ListingCall ==
  ASSUME NEW query, NEW nr
  PROVE  /\ FlightOK(LoadUsers(query, nr))
         /\ FlightOK([LoadUsers(query, nr) EXCEPT !.live = FALSE])
         /\ ~[LoadUsers(query, nr) EXCEPT !.live = FALSE].live
<1> DEFINE f == LoadUsers(query, nr)
<1>1. f = Flight("loadUsers", [query |-> query, nr |-> nr])
  BY DEF LoadUsers
<1>2. FlightOK(f)
  BY <1>1, UncheckedFlight DEF HttpClientHandlers
<1> HIDE DEF f
<1>3. [f EXCEPT !.live = FALSE] = Left(f)
  BY DEF Left
<1> QED
  BY <1>2, <1>3, LeftFlight DEF f

(* The listing of the users page that mounts is the first.                 *)
LEMMA FirstListing == MountedOK(UsersView, LoadUsers(FirstUsersQuery, 1))
<1>1. UsersView.asked = 1 /\ UsersView.query = FirstUsersQuery
  BY DEF UsersView
<1>2. /\ LoadUsers(FirstUsersQuery, 1).call = "loadUsers"
      /\ LoadUsers(FirstUsersQuery, 1).arg.nr = 1
      /\ LoadUsers(FirstUsersQuery, 1).arg.query = FirstUsersQuery
  BY ListingFields
<1> QED
  BY <1>1, <1>2 DEF MountedOK, ListingOK, UsersPageCalls

(* A page that mounts.                                                     *)
LEMMA MountedPage ==
  ASSUME NEW p, NEW initial, NEW calls, NEW l, NEW fs, FlightsOK(fs),
         \A c \in calls : FlightOK(c),
         p = "users" => initial = UsersView /\ calls = UsersCalls,
         Mount(p, initial, calls, l, fs)
  PROVE  ConsoleOK'
<1>1. page' = p /\ view' = initial /\ flights' = Orphaned(fs) (+) SetToBag(calls)
  BY DEF Mount
<1>2. FlightsOK(flights')
  BY <1>1, FlightsStayOK
<1>3. ASSUME p = "users" PROVE UsersOK(view', flights')
  <2>1. TableOK(UsersView)
    BY DEF UsersView, TableOK
  <2>2. MountedOK(UsersView, LoadUsers(FirstUsersQuery, 1))
    BY FirstListing
  <2>3. ASSUME NEW g \in BagToSet(flights'), g.live PROVE MountedOK(UsersView, g)
    <3>0. BagToSet(flights') = {Left(h) : h \in BagToSet(fs)} \cup calls
      BY <1>1, CallsOutNow
    <3>1. g \in calls \/ \E h \in BagToSet(fs) : g = Left(h)
      BY <3>0
    <3>2. g \in calls
      BY <2>3, <3>1, LeftFlight DEF FlightsOK
    <3> QED
      BY <1>3, <2>2, <3>2 DEF UsersCalls
  <2> QED
    BY <1>1, <1>3, <2>1, <2>3 DEF UsersOK
<1> QED
  BY <1>1, <1>2, <1>3 DEF ConsoleOK

(* Going to a page mounts it or, when there already, changes nothing.      *)
LEMMA EnteredPage ==
  ASSUME NEW p, NEW initial, NEW calls, NEW l, NEW fs, FlightsOK(fs),
         page = "users" => UsersOK(view, fs),
         \A c \in calls : FlightOK(c),
         p = "users" => initial = UsersView /\ calls = UsersCalls,
         Enter(p, initial, calls, l, fs)
  PROVE  ConsoleOK'
<1>1. CASE Mount(p, initial, calls, l, fs)
  BY <1>1, MountedPage
<1>2. CASE flights' = fs /\ UNCHANGED <<page, view>>
  BY <1>2 DEF ConsoleOK
<1> QED
  BY <1>1, <1>2 DEF Enter

(* A step that stays on a page other than the users page.                  *)
LEMMA ElsewhereOK ==
  ASSUME page' # "users", FlightsOK(flights')
  PROVE  ConsoleOK'
BY DEF ConsoleOK

(* A step that changes no page nor view and answers a call.                *)
LEMMA AnswerOnly ==
  ASSUME ConsoleOK, NEW f, flights' = Returned(flights, f), UNCHANGED <<page, view>>
  PROVE  ConsoleOK'
<1>1. FlightsOK(flights')
  BY FlightsStayOK DEF ConsoleOK
<1>2. ASSUME page = "users" PROVE UsersOK(view', flights')
  BY <1>2, CallsOutNow DEF ConsoleOK, UsersOK
<1> QED
  BY <1>1, <1>2 DEF ConsoleOK

(* A call that is answered, for the handler that sent it.                  *)
LEMMA ReturnedPage ==
  ASSUME ConsoleOK, NEW f
  PROVE  /\ FlightsOK(Returned(flights, f))
         /\ page = "users" => UsersOK(view, Returned(flights, f))
<1>1. FlightsOK(Returned(flights, f))
  BY FlightsStayOK DEF ConsoleOK
<1>2. ASSUME page = "users" PROVE UsersOK(view, Returned(flights, f))
  BY <1>2, CallsOutNow DEF ConsoleOK, UsersOK
<1> QED
  BY <1>1, <1>2

-----------------------------------------------------------------------------
(* Steps                                                                   *)

(* An answer to a call that no component of the users page makes.          *)
LEMMA ForeignAnswer ==
  ASSUME ConsoleOK, NEW f \in BagToSet(flights), f.call \notin UsersPageCalls,
         flights' = Returned(flights, f), UNCHANGED page, ~f.live => view' = view
  PROVE  ConsoleOK'
<1>1. CASE page = "users"
  <2>1. ~f.live
    BY <1>1 DEF ConsoleOK, UsersOK, MountedOK
  <2> QED
    BY <2>1, AnswerOnly
<1>2. CASE page # "users"
  BY <1>2, ElsewhereOK, ReturnedPage
<1> QED
  BY <1>1, <1>2

(* A step that stays on the page and, on the users page, leaves the table  *)
(* alone and sends nothing but well-formed calls.                          *)
LEMMA TableAlone ==
  ASSUME ConsoleOK, UNCHANGED page, FlightsOK(flights'),
         page = "users" =>
           /\ SameTable(view, view')
           /\ \A g \in BagToSet(flights') : g.live => g \in BagToSet(flights) \/ MountedOK(view, g)
  PROVE  ConsoleOK'
<1>1. ASSUME page = "users" PROVE UsersOK(view', flights')
  <2>1. UsersOK(view, flights)
    BY <1>1 DEF ConsoleOK
  <2> QED
    BY <1>1, <2>1, TableKept
<1> QED
  BY <1>1 DEF ConsoleOK

(* A call of another kind than a listing's.                                *)
LEMMA SentAlone ==
  ASSUME ConsoleOK, UNCHANGED page, NEW c, FlightOK(c), flights' = Sent(flights, c),
         page = "users" =>
           SameTable(view, view') /\ c.call \in UsersPageCalls \ {"loadUsers"}
  PROVE  ConsoleOK'
<1>1. FlightsOK(flights')
  BY FlightsStayOK DEF ConsoleOK
<1>2. BagToSet(flights') = BagToSet(flights) \cup {c}
  BY CallsOutNow
<1>3. page = "users" => MountedOK(view, c)
  BY DEF MountedOK
<1> QED
  BY <1>1, <1>2, <1>3, TableAlone

(* The table itself, when nothing of it is changed.                        *)
LEMMA SameView ==
  ASSUME ConsoleOK, page = "users"
  PROVE  /\ SameTable(view, view)
         /\ {"query", "asked", "rows", "status"} \subseteq DOMAIN view
         /\ view.asked \in Nat
         /\ UsersOK(view, flights)
BY DEF ConsoleOK, UsersOK, TableOK, SameTable

(* What the user does on the login page.                                   *)
LEMMA LoginSteps ==
  ASSUME ConsoleOK, LoginNext
  PROVE  ConsoleOK'
<1>1. page = "login" /\ page' = "login"
  BY DEF LoginNext, ChangeCredential, SignIn, PressEnterToLogin
<1>2. flights' = flights \/ flights' = Sent(flights, Flight("handleLogin", NoArguments))
  BY DEF LoginNext, ChangeCredential, SignIn, PressEnterToLogin, RefuseLogin, SendLogin
<1>3. FlightOK(Flight("handleLogin", NoArguments))
  BY UncheckedFlight DEF HttpClientHandlers
<1>4. FlightsOK(flights')
  BY <1>2, <1>3, FlightsStayOK DEF ConsoleOK
<1> QED
  BY <1>1, <1>4, ElsewhereOK

(* What the user does on the setup page.                                   *)
LEMMA SetupSteps ==
  ASSUME ConsoleOK, SetupNext
  PROVE  ConsoleOK'
<1>1. CASE LoginNow
  BY <1>1, EnteredPage DEF LoginNow, ToLogin, ConsoleOK
<1>2. CASE ~LoginNow
  <2>1. page = "setup" /\ page' = "setup"
    BY <1>2 DEF SetupNext, ChangeDisplayName, ChangePassword, CompleteSetup, PressEnterToComplete
  <2>2. \/ flights' = flights
        \/ flights' = Sent(flights, Flight("handleUserAccountComplete", NoArguments))
    BY <1>2 DEF SetupNext, ChangeDisplayName, ChangePassword, CompleteSetup,
                PressEnterToComplete, SendSetup
  <2>3. FlightOK(Flight("handleUserAccountComplete", NoArguments))
    BY UncheckedFlight DEF HttpClientHandlers
  <2>4. FlightsOK(flights')
    BY <2>2, <2>3, FlightsStayOK DEF ConsoleOK
  <2> QED
    BY <2>1, <2>4, ElsewhereOK
<1> QED
  BY <1>1, <1>2

(* What the user does on the namespaces page.                              *)
LEMMA NamespacesSteps ==
  ASSUME ConsoleOK, NamespacesNext
  PROVE  ConsoleOK'
<1> DEFINE c == Flight("validateNamespaceAvailability",
                       [name |-> view.form.name, maintainers |-> view.form.maintainers])
<1>1. page = "namespaces" /\ page' = "namespaces"
  BY DEF NamespacesNext, OpenCreation, CloseCreation, ChangeName, ChangeDescription,
         ToggleMaintainer, SearchForMaintainers, CreateNamespace, Creating
<1>2. flights' = flights \/ flights' = Sent(flights, c)
  BY DEF NamespacesNext, OpenCreation, CloseCreation, ChangeName, ChangeDescription,
         ToggleMaintainer, SearchForMaintainers, CreateNamespace
<1>3. FlightOK(c)
  BY UncheckedFlight DEF HttpClientHandlers
<1>4. FlightsOK(flights')
  BY <1>2, <1>3, FlightsStayOK DEF ConsoleOK
<1> QED
  BY <1>1, <1>4, ElsewhereOK

(* The calls of the pages that mount.                                      *)
LEMMA MountingCalls ==
  /\ \A c \in SetupCalls : FlightOK(c)
  /\ \A c \in UsersCalls : FlightOK(c)
  /\ \A c \in NamespacesCalls : FlightOK(c)
<1>1. FlightOK(Flight("fetchOnboardingData", NoArguments))
  BY UncheckedFlight DEF HttpClientHandlers
<1>2. \A query, nr : FlightOK(LoadUsers(query, nr))
  BY ListingCall
<1>3. FlightOK(Flight("loadNamespaces", [query |-> NamespacesRequest]))
  BY UncheckedFlight DEF HttpClientHandlers
<1> QED
  BY <1>1, <1>2, <1>3 DEF SetupCalls, UsersCalls, NamespacesCalls

(* The links and buttons of the layout.                                    *)
LEMMA LayoutSteps ==
  ASSUME ConsoleOK, LayoutNext
  PROVE  ConsoleOK'
<1>1. FlightsOK(flights) /\ (page = "users" => UsersOK(view, flights))
  BY DEF ConsoleOK
<1>2. CASE FollowMenu
  <2>1. PICK to : Follow(to)
    BY <1>2 DEF FollowMenu
  <2>2. CASE Enter("users", UsersView, UsersCalls, loader, flights)
    BY <1>1, <2>2, EnteredPage, MountingCalls
  <2>3. CASE Enter("namespaces", NamespacesView, NamespacesCalls, loader, flights)
    BY <1>1, <2>3, EnteredPage, MountingCalls
  <2>4. CASE Enter("missing", MissingView, {}, loader, flights)
    BY <1>1, <2>4, EnteredPage
  <2> QED
    BY <2>1, <2>2, <2>3, <2>4 DEF Follow
<1>3. CASE OpenManagementConsole
  BY <1>1, <1>3, MountedPage, MountingCalls DEF OpenManagementConsole
<1>4. CASE GoHome
  BY <1>1, <1>4, EnteredPage DEF GoHome
<1>5. CASE Logout
  <2>1. FlightOK(Flight("handleLogout", NoArguments))
    BY UncheckedFlight DEF HttpClientHandlers
  <2>2. Flight("handleLogout", NoArguments).call \in UsersPageCalls \ {"loadUsers"}
    BY NewFlight DEF UsersPageCalls
  <2> QED
    BY <1>5, <2>1, <2>2, SentAlone, SameView DEF Logout
<1> QED
  BY <1>2, <1>3, <1>4, <1>5 DEF LayoutNext

(* The table asks anew with the query it is going to show.                 *)
LEMMA ReloadingOK ==
  ASSUME ConsoleOK, page = "users", UNCHANGED page, NEW v, NEW query,
         {"query", "asked", "rows", "status"} \subseteq DOMAIN v,
         v.asked = view.asked, v.query = query,
         Reloading(v, query, flights)
  PROVE  ConsoleOK'
<1> DEFINE n == v.asked + 1
           c == LoadUsers(query, n)
           w == [v EXCEPT !.asked = @ + 1, !.status = "waiting"]
<1>1. UsersOK(view, flights) /\ FlightsOK(flights)
  BY DEF ConsoleOK
<1>2. view' = w /\ flights' = Sent(flights, c)
  BY DEF Reloading
<1>3. /\ {"query", "asked", "rows", "status"} \subseteq DOMAIN w
      /\ w.asked = view.asked + 1 /\ w.status = "waiting" /\ w.query = query
  OBVIOUS
<1>4. n = view.asked + 1
  OBVIOUS
<1> HIDE DEF n
<1>5. c.call = "loadUsers" /\ c.arg.nr = n /\ c.arg.query = query
  BY ListingFields
<1>6. FlightOK(c)
  BY ListingCall
<1> HIDE DEF c, w
<1>7. BagToSet(Sent(flights, c)) = BagToSet(flights) \cup {c}
  BY CallsOutNow
<1>8. UsersOK(w, Sent(flights, c))
  BY <1>1, <1>3, <1>4, <1>5, <1>7, TableAsks
<1>9. FlightsOK(Sent(flights, c))
  BY <1>1, <1>6, FlightsStayOK
<1> QED
  BY <1>2, <1>8, <1>9 DEF ConsoleOK

(* A control that leaves the query as it was asks for nothing, another for *)
(* the rows of the new query.                                              *)
LEMMA AskingOK ==
  ASSUME ConsoleOK, page = "users", UNCHANGED page, NEW v, NEW query,
         SameTable(view, v), Asking(v, query)
  PROVE  ConsoleOK'
<1>1. CASE query = v.query
  <2>1. view' = v /\ flights' = flights
    BY <1>1 DEF Asking
  <2>2. FlightsOK(flights')
    BY <2>1 DEF ConsoleOK
  <2> QED
    BY <2>1, <2>2, TableAlone
<1>2. CASE query # v.query
  <2> DEFINE w == [v EXCEPT !.query = query]
  <2>1. Reloading(w, query, flights)
    BY <1>2 DEF Asking
  <2>2. /\ {"query", "asked", "rows", "status"} \subseteq DOMAIN w
        /\ w.asked = view.asked /\ w.query = query
    BY DEF SameTable
  <2> HIDE DEF w
  <2> QED
    BY <2>1, <2>2, ReloadingOK
<1> QED
  BY <1>1, <1>2

(* The controls of the users page.                                         *)
LEMMA ControlSteps ==
  ASSUME ConsoleOK,
         \/ \E option \in ChipChoices : ToggleChip(option)
         \/ \E key \in SortKeys : Sort(key)
         \/ TurnPage
         \/ \E term \in Terms \cup {""} : Search(term)
         \/ SearchDue
  PROVE  ConsoleOK'
<1>1. ASSUME NEW option \in ChipChoices, ToggleChip(option) PROVE ConsoleOK'
  <2> DEFINE chips == IF option \in view.chips THEN view.chips \ {option}
                      ELSE view.chips \cup {option}
             query == Filtered(view.query, chips)
             w == [view EXCEPT !.chips = chips, !.query = query]
  <2>1. page = "users" /\ UNCHANGED page
    BY <1>1 DEF ToggleChip, OnUsersPage
  <2>2. Reloading(w, query, flights)
    BY <1>1 DEF ToggleChip
  <2> HIDE DEF chips, query
  <2>3. /\ {"query", "asked", "rows", "status"} \subseteq DOMAIN w
        /\ w.asked = view.asked /\ w.query = query
    BY <2>1, SameView
  <2> HIDE DEF w
  <2> QED
    BY <2>1, <2>2, <2>3, ReloadingOK
<1>2. ASSUME NEW key \in SortKeys, Sort(key) PROVE ConsoleOK'
  <2>1. page = "users" /\ UNCHANGED page /\ Asking(view, SortedBy(view.query, key))
    BY <1>2 DEF Sort, OnUsersPage
  <2> QED
    BY <2>1, AskingOK, SameView
<1>3. CASE TurnPage
  <2>1. page = "users" /\ UNCHANGED page
    BY <1>3 DEF TurnPage, OnUsersPage
  <2>2. PICK index : Asking(view, Paged(view.query, index, view.length))
    BY <1>3 DEF TurnPage
  <2> QED
    BY <2>1, <2>2, AskingOK, SameView
<1>4. ASSUME NEW term, Search(term) PROVE ConsoleOK'
  <2>1. /\ page = "users" /\ UNCHANGED <<page, flights>>
        /\ view' = [view EXCEPT !.due = Append(@, term)]
    BY <1>4 DEF Search, OnUsersPage
  <2>2. SameTable(view, view')
    BY <2>1, SameView DEF SameTable
  <2> QED
    BY <2>1, <2>2, TableAlone DEF ConsoleOK
<1>5. CASE SearchDue
  <2> DEFINE v == [view EXCEPT !.due = Tail(@)]
             query == Searched(view.query, Head(view.due))
  <2>1. page = "users" /\ UNCHANGED page /\ Asking(v, query)
    BY <1>5 DEF SearchDue
  <2>2. SameTable(view, v)
    BY <2>1, SameView DEF SameTable
  <2> HIDE DEF v, query
  <2> QED
    BY <2>1, <2>2, AskingOK
<1> QED
  BY <1>1, <1>2, <1>3, <1>4, <1>5

(* Typing in the dialogs, opening them and the row's spinner.              *)
LEMMA DialogSteps ==
  ASSUME ConsoleOK,
         \/ ToggleInvitation
         \/ \E email \in Emails \cup {""} : ChangeEmail(email)
         \/ \E username \in Usernames \cup {""} : ChangeUsername(username)
         \/ OpenRow
         \/ \E email \in Emails \cup {""} : ChangeRowEmail(email)
         \/ ChangeRowDetails
         \/ HideProgress
  PROVE  ConsoleOK'
<1>1. page = "users" /\ UNCHANGED <<page, flights>>
  BY DEF ToggleInvitation, ChangeEmail, ChangeUsername, OpenRow, OnUsersPage, ChangeRowEmail,
         ChangeRowDetails, HideProgress, Inviting, InRow
<1>2. SameTable(view, view')
  <2>1. {"query", "asked", "rows", "status"} \subseteq DOMAIN view
    BY <1>1, SameView
  <2>2. CASE ToggleInvitation \/ OpenRow
    BY <2>1, <2>2 DEF SameTable, ToggleInvitation, OpenRow
  <2>3. ASSUME NEW email, ChangeEmail(email) PROVE SameTable(view, view')
    BY <2>1, <2>3 DEF SameTable, ChangeEmail
  <2>4. ASSUME NEW username, ChangeUsername(username) PROVE SameTable(view, view')
    BY <2>1, <2>4 DEF SameTable, ChangeUsername
  <2>5. ASSUME NEW email, ChangeRowEmail(email) PROVE SameTable(view, view')
    BY <2>1, <2>5 DEF SameTable, ChangeRowEmail
  <2>6. CASE ChangeRowDetails
    BY <2>1, <2>6 DEF SameTable, ChangeRowDetails
  <2>7. CASE HideProgress
    BY <2>1, <2>7 DEF SameTable, HideProgress
  <2> QED
    BY <2>2, <2>3, <2>4, <2>5, <2>6, <2>7
<1> QED
  BY <1>1, <1>2, TableAlone DEF ConsoleOK

(* The calls of the two dialogs.                                           *)
LEMMA InviteStep ==
  ASSUME ConsoleOK, Invite
  PROVE  ConsoleOK'
<1> DEFINE c == Flight("validateUsernameEmailAPICall", FormArguments)
<1>1. page = "users" /\ UNCHANGED <<page, view>> /\ flights' = Sent(flights, c)
  BY DEF Invite, Inviting
<1>2. FlightOK(c) /\ c.call \in UsersPageCalls \ {"loadUsers"}
  BY UncheckedFlight, NewFlight DEF HttpClientHandlers, UsersPageCalls
<1> HIDE DEF c
<1> QED
  BY <1>1, <1>2, SentAlone, SameView

(* The calls of the row carry the row.                                     *)
LEMMA RowCall ==
  ASSUME NEW call \in HttpClientHandlers, call = "updateUserAccount" => view.row.email = "own"
  PROVE  /\ FlightOK(Flight(call, RowArguments))
         /\ Flight(call, RowArguments).call \in UsersPageCalls \ {"loadUsers"}
<1>1. RowRecord(RowArguments) /\ RowArguments.email = view.row.email
  BY DEF RowArguments, RowRecord
<1>2. call \in UsersPageCalls \ {"loadUsers", "createUserAccountAPICall"} /\ call # "saveNamespace"
  BY DEF HttpClientHandlers, UsersPageCalls
<1>3. Flight(call, RowArguments).call = call
  BY NewFlight
<1> QED
  BY <1>1, <1>2, <1>3, UncheckedFlight

(* Changing the row's account, with or without a check.                    *)
LEMMA UpdateRowStep ==
  ASSUME ConsoleOK, UpdateRow
  PROVE  ConsoleOK'
<1> DEFINE call == IF view.row.email = "own" THEN "updateUserAccount" ELSE "valiateUser"
<1>1. page = "users" /\ UNCHANGED page
  BY DEF UpdateRow, InRow
<1>2. {"query", "asked", "rows", "status"} \subseteq DOMAIN view
  BY <1>1, SameView
<1>3. CASE RefuseUpdate
  <2>1. flights' = flights /\ SameTable(view, view')
    BY <1>2, <1>3 DEF RefuseUpdate, SameTable
  <2> QED
    BY <1>1, <2>1, TableAlone DEF ConsoleOK
<1>4. CASE SendUpdate
  <2>1. flights' = Sent(flights, Flight(call, RowArguments)) /\ SameTable(view, view')
    BY <1>2, <1>4 DEF SendUpdate, SameTable
  <2>2. call \in HttpClientHandlers /\ (call = "updateUserAccount" => view.row.email = "own")
    BY DEF HttpClientHandlers
  <2> HIDE DEF call
  <2>3. /\ FlightOK(Flight(call, RowArguments))
        /\ Flight(call, RowArguments).call \in UsersPageCalls \ {"loadUsers"}
    BY <2>2, RowCall
  <2> QED
    BY <1>1, <2>1, <2>3, SentAlone
<1> QED
  BY <1>3, <1>4 DEF UpdateRow

(* Deleting the row's account.                                             *)
LEMMA DeleteRowStep ==
  ASSUME ConsoleOK, DeleteRow
  PROVE  ConsoleOK'
<1>1. /\ page = "users" /\ UNCHANGED <<page, view>>
      /\ flights' = Sent(flights, Flight("deleteUser", RowArguments))
  BY DEF DeleteRow, InRow
<1>2. /\ FlightOK(Flight("deleteUser", RowArguments))
      /\ Flight("deleteUser", RowArguments).call \in UsersPageCalls \ {"loadUsers"}
  BY RowCall DEF HttpClientHandlers
<1> QED
  BY <1>1, <1>2, SentAlone, SameView

(* Closing the row's dialog reloads the users.                             *)
LEMMA CloseRowStep ==
  ASSUME ConsoleOK, CloseRow
  PROVE  ConsoleOK'
<1> DEFINE w == [view EXCEPT !.row.open = FALSE, !.inviting = FALSE]
<1>1. page = "users" /\ UNCHANGED page /\ Reloading(w, view.query, flights)
  BY DEF CloseRow, InRow
<1>2. /\ {"query", "asked", "rows", "status"} \subseteq DOMAIN w
      /\ w.asked = view.asked /\ w.query = view.query
  BY <1>1, SameView
<1> HIDE DEF w
<1> QED
  BY <1>1, <1>2, ReloadingOK

(* Whatever the user does on the users page.                               *)
LEMMA UsersSteps ==
  ASSUME ConsoleOK, UsersNext
  PROVE  ConsoleOK'
BY ControlSteps, DialogSteps, InviteStep, UpdateRowStep, DeleteRowStep, CloseRowStep DEF UsersNext

(* An answer that leaves the table alone.                                  *)
LEMMA AnswerAlone ==
  ASSUME ConsoleOK, NEW f, UNCHANGED page, flights' = Returned(flights, f),
         page = "users" => SameTable(view, view')
  PROVE  ConsoleOK'
BY CallsOutNow, ReturnedPage, TableAlone

(* An answer after which the handler makes another call.                   *)
LEMMA AnswerGoesOn ==
  ASSUME ConsoleOK, NEW f, UNCHANGED <<page, view>>, NEW c, FlightOK(c),
         flights' = Sent(Returned(flights, f), c),
         page = "users" /\ c.live => MountedOK(view, c)
  PROVE  ConsoleOK'
<1>1. FlightsOK(flights')
  BY ReturnedPage, FlightsStayOK
<1>2. BagToSet(flights') \subseteq BagToSet(flights) \cup {c}
  <2>1. BagToSet(Returned(flights, f)) \subseteq BagToSet(flights)
    BY CallsOutNow
  <2>2. BagToSet(Sent(Returned(flights, f), c)) = BagToSet(Returned(flights, f)) \cup {c}
    BY CallsOutNow
  <2> QED
    BY <2>1, <2>2
<1>3. page = "users" => SameTable(view, view')
  BY SameView
<1> QED
  BY <1>1, <1>2, <1>3, TableAlone

(* The listing that is answered.                                           *)
LEMMA UsersListedStep ==
  ASSUME ConsoleOK, NEW f \in BagToSet(flights), NEW outcome, UsersListed(f, outcome)
  PROVE  ConsoleOK'
<1>1. f.call = "loadUsers" /\ UNCHANGED page
  BY DEF UsersListed
<1>2. CASE flights' = Returned(flights, f) /\ UNCHANGED view
  BY <1>1, <1>2, AnswerOnly
<1>3. CASE /\ f.live
           /\ \E total \in Totals :
                \E account \in IF Entities(f.arg.query, total) = 0 THEN {NoAccount} ELSE Accounts :
                  /\ view' = Listed(view, f, account, total)
                  /\ flights' = Orphans(Returned(flights, f), account)
  <2>1. PICK total, account :
          /\ view' = Listed(view, f, account, total)
          /\ flights' = Orphans(Returned(flights, f), account)
    BY <1>3
  <2>2. FlightsOK(flights')
    BY <2>1, ReturnedPage, FlightsStayOK
  <2>3. ASSUME page = "users" PROVE UsersOK(view', flights')
    <3>1. TableOK(view) /\ ListingOK(view, f)
      BY <1>1, <1>3, <2>3 DEF ConsoleOK, UsersOK, MountedOK
    <3>2. /\ {"query", "asked", "rows", "status"} \subseteq DOMAIN view'
          /\ view'.query = view.query /\ view'.asked = view.asked
          /\ view'.rows = ListRequest(f.arg.query)
          /\ view'.status = CASE view.status = "waiting" /\ f.arg.nr = view.asked -> "settled"
                              [] view.status = "settled" /\ f.arg.nr # view.asked -> "upset"
                              [] OTHER -> view.status
      <4> DEFINE shown == [view EXCEPT
                   !.rows = ListRequest(f.arg.query),
                   !.length = Padded(Entities(f.arg.query, total), total),
                   !.status = CASE view.status = "waiting" /\ f.arg.nr = view.asked -> "settled"
                                [] view.status = "settled" /\ f.arg.nr # view.asked -> "upset"
                                [] OTHER -> view.status,
                   !.account = account]
      <4>1. /\ {"query", "asked", "rows", "status"} \subseteq DOMAIN shown
            /\ shown.query = view.query /\ shown.asked = view.asked
            /\ shown.rows = ListRequest(f.arg.query)
            /\ shown.status = CASE view.status = "waiting" /\ f.arg.nr = view.asked -> "settled"
                                [] view.status = "settled" /\ f.arg.nr # view.asked -> "upset"
                                [] OTHER -> view.status
        BY <3>1 DEF TableOK
      <4>2. view' = IF account = NoAccount THEN [shown EXCEPT !.row = ClosedRow]
                    ELSE [shown EXCEPT !.row.email = "own", !.row.changed = FALSE]
        BY <2>1 DEF Listed
      <4> HIDE DEF shown
      <4>3. /\ {"query", "asked", "rows", "status"} \subseteq DOMAIN view'
            /\ view'.query = shown.query /\ view'.asked = shown.asked
            /\ view'.rows = shown.rows /\ view'.status = shown.status
        BY <4>1, <4>2
      <4> QED
        BY <4>1, <4>3
    <3>3. view.status \in {"waiting", "settled", "upset"} /\ view.asked \in Nat
      BY <3>1 DEF TableOK
    <3>4. /\ view'.status \in {"waiting", "settled", "upset"}
          /\ view'.status # "upset" => view.status # "upset"
          /\ view'.status = "settled" => f.arg.nr = view.asked
      BY <3>2, <3>3
    <3>5. view'.status = "settled" => view'.rows = ListRequest(view'.query)
      BY <3>1, <3>2, <3>4 DEF ListingOK
    <3>6. TableOK(view')
      BY <3>2, <3>3, <3>4, <3>5 DEF TableOK
    <3>7. ASSUME NEW g \in BagToSet(flights'), g.live PROVE MountedOK(view', g)
      <4>1. BagToSet(flights') \subseteq BagToSet(flights) \cup {OfNoRow(h) : h \in BagToSet(flights)}
        <5>1. BagToSet(Returned(flights, f)) \subseteq BagToSet(flights)
          BY CallsOutNow
        <5>2. BagToSet(flights') \subseteq
                BagToSet(Returned(flights, f)) \cup {OfNoRow(h) : h \in BagToSet(Returned(flights, f))}
          BY <2>1, CallsOutNow
        <5> QED
          BY <5>1, <5>2
      <4>2. PICK h \in BagToSet(flights) : g = h \/ g = OfNoRow(h)
        BY <4>1
      <4>3. FlightOK(h)
        BY DEF ConsoleOK, FlightsOK
      <4>4. h.live /\ g.call = h.call
        BY <3>7, <4>2, <4>3, RowlessFlight
      <4>5. MountedOK(view, h)
        BY <2>3, <4>4 DEF ConsoleOK, UsersOK
      <4>6. CASE g.call # "loadUsers"
        BY <4>4, <4>5, <4>6 DEF MountedOK
      <4>7. CASE g.call = "loadUsers"
        <5>1. h.call \notin HttpClientHandlers
          BY <4>4, <4>7 DEF HttpClientHandlers
        <5>2. g = h
          BY <4>2, <4>3, <5>1, RowlessFlight
        <5>3. ListingOK(view, g)
          BY <4>5, <4>7, <5>2 DEF MountedOK
        <5>4. ListingOK(view', g)
          BY <3>2, <3>4, <5>3 DEF ListingOK
        <5> QED
          BY <4>5, <5>2, <5>4 DEF MountedOK
      <4> QED
        BY <4>6, <4>7
    <3> QED
      BY <3>6, <3>7 DEF UsersOK
  <2> QED
    BY <1>1, <2>2, <2>3 DEF ConsoleOK
<1> QED
  BY <1>2, <1>3 DEF UsersListed

(* The check of an invitation, and the creation that follows it.           *)
LEMMA UserValidatedStep ==
  ASSUME ConsoleOK, NEW f \in BagToSet(flights), NEW outcome, UserValidated(f, outcome)
  PROVE  ConsoleOK'
<1>1. f.call = "validateUsernameEmailAPICall" /\ UNCHANGED page
  BY DEF UserValidated
<1>2. CASE flights' = Returned(flights, f) /\ UNCHANGED view
  BY <1>1, <1>2, AnswerOnly
<1>3. ASSUME NEW field, UserTaken(f, field) PROVE ConsoleOK'
  <2>1. /\ flights' = Returned(flights, f)
        /\ view' = IF f.live THEN [view EXCEPT !.form.taken = @ \cup {field}] ELSE view
    BY <1>3 DEF UserTaken
  <2>2. page = "users" => SameTable(view, view')
    BY <2>1, SameView DEF SameTable
  <2> QED
    BY <1>1, <2>1, <2>2, AnswerAlone
<1>4. CASE UserFree(f)
  <2> DEFINE c == GoesOn(f, "createUserAccountAPICall", Pair(f.arg))
  <2>1. FlightOK(f)
    BY DEF ConsoleOK, FlightsOK
  <2>2. /\ FlightRecord(c)
        /\ c.call = "createUserAccountAPICall" /\ c.live = f.live
        /\ c.arg = f.arg /\ c.checked = Pair(f.arg)
    BY <2>1, FollowingFlight
  <2>3. flights' = Sent(Returned(flights, f), c) /\ UNCHANGED view
    BY <1>4 DEF UserFree
  <2> HIDE DEF c
  <2>4. FlightOK(c)
    BY <2>1, <2>2 DEF FlightOK, Checked, HttpClientHandlers
  <2>5. MountedOK(view, c)
    BY <2>2 DEF MountedOK, UsersPageCalls
  <2> QED
    BY <1>1, <2>3, <2>4, <2>5, AnswerGoesOn
<1> QED
  BY <1>2, <1>3, <1>4 DEF UserValidated

(* The callback of the dialogs: the users load anew, with the query of     *)
(* when the dialog's handler began.                                        *)
LEMMA HideDialogsStep ==
  ASSUME ConsoleOK, NEW f \in BagToSet(flights), UNCHANGED page, NEW v, NEW l,
         page = "users" => SameTable(view, v),
         HideDialogs(f, v, l, Returned(flights, f))
  PROVE  ConsoleOK'
<1>1. CASE ~f.live
  <2> DEFINE c == [LoadUsers(f.arg.query, 0) EXCEPT !.live = FALSE]
  <2>1. flights' = Sent(Returned(flights, f), c) /\ UNCHANGED view
    BY <1>1 DEF HideDialogs
  <2>2. FlightOK(c)
    BY ListingCall
  <2>3. ~c.live
    BY ListingCall
  <2> HIDE DEF c
  <2> QED
    BY <2>1, <2>2, <2>3, AnswerGoesOn
<1>2. CASE f.live
  <2> DEFINE n == v.asked + 1
             c == LoadUsers(f.arg.query, n)
  <2>1. /\ flights' = Sent(Returned(flights, f), c)
        /\ view' = [v EXCEPT !.inviting = FALSE, !.asked = @ + 1,
                             !.status = IF f.arg.query = v.query THEN "waiting" ELSE "upset"]
    BY <1>2 DEF HideDialogs
  <2> HIDE DEF n
  <2>2. c.call = "loadUsers" /\ c.arg.nr = n /\ c.arg.query = f.arg.query
    BY ListingFields
  <2>3. FlightOK(c)
    BY ListingCall
  <2> HIDE DEF c
  <2>4. FlightsOK(flights')
    BY <2>1, <2>3, ReturnedPage, FlightsStayOK
  <2>5. ASSUME page = "users" PROVE UsersOK(view', flights')
    <3>1. SameTable(view, v) /\ UsersOK(view, Returned(flights, f))
      BY <2>5, ReturnedPage
    <3>2. /\ {"query", "asked", "rows", "status"} \subseteq DOMAIN view'
          /\ view'.asked = v.asked + 1 /\ view'.query = v.query
          /\ view'.status = IF f.arg.query = v.query THEN "waiting" ELSE "upset"
      BY <2>1, <3>1 DEF SameTable
    <3>3. view'.asked = view.asked + 1 /\ n = view.asked + 1
      BY <3>1, <3>2 DEF SameTable, n
    <3>4. view'.status \in {"waiting", "upset"}
      BY <3>2
    <3>5. view'.status = "waiting" => c.arg.query = view'.query
      BY <2>2, <3>2
    <3>6. BagToSet(flights') \subseteq BagToSet(Returned(flights, f)) \cup {c}
      BY <2>1, CallsOutNow
    <3> QED
      BY <2>2, <3>1, <3>2, <3>3, <3>4, <3>5, <3>6, TableAsks
  <2> QED
    BY <2>4, <2>5 DEF ConsoleOK
<1> QED
  BY <1>1, <1>2

(* The creation of an invited user, after which the users reload.          *)
LEMMA UserCreatedStep ==
  ASSUME ConsoleOK, NEW f \in BagToSet(flights), NEW outcome, UserCreated(f, outcome)
  PROVE  ConsoleOK'
<1> DEFINE v == IF f.live THEN [view EXCEPT !.form = NewForm] ELSE view
<1>1. UNCHANGED page
  BY DEF UserCreated
<1>2. CASE flights' = Returned(flights, f) /\ UNCHANGED view
  BY <1>1, <1>2, AnswerOnly
<1>3. CASE HideDialogs(f, v, Hide(loader), Returned(flights, f))
  <2>1. page = "users" => SameTable(view, v)
    BY SameView DEF SameTable
  <2> HIDE DEF v
  <2> QED
    BY <1>1, <1>3, <2>1, HideDialogsStep
<1> QED
  BY <1>2, <1>3 DEF UserCreated

(* What the row's handlers leave of the table.                             *)
LEMMA EndingAlone ==
  ASSUME ConsoleOK, page = "users", NEW f
  PROVE  /\ SameTable(view, Ending(f, view))
         /\ SameTable(view, [Ending(f, view) EXCEPT !.row.taken = TRUE])
         /\ SameTable(view, [Ending(f, view) EXCEPT !.row.open = ~@])
<1>1. SameTable(view, Ending(f, view))
  BY SameView DEF SameTable, Ending
<1> QED
  BY <1>1 DEF SameTable

(* The check of a new address, and the change that follows it.             *)
LEMMA RowValidatedStep ==
  ASSUME ConsoleOK, NEW f \in BagToSet(flights), NEW outcome, RowValidated(f, outcome)
  PROVE  ConsoleOK'
<1>1. f.call = "valiateUser" /\ UNCHANGED page
  BY DEF RowValidated, RowAnswered
<1>2. CASE RowFailed(f)
  BY <1>1, <1>2, EndingAlone, AnswerAlone DEF RowFailed
<1>3. CASE /\ view' = IF f.live /\ f.arg.here
                      THEN [Ending(f, view) EXCEPT !.row.taken = TRUE] ELSE view
           /\ flights' = Returned(flights, f)
  <2>1. page = "users" => SameTable(view, view')
    BY <1>3, EndingAlone, SameView
  <2> QED
    BY <1>1, <1>3, <2>1, AnswerAlone
<1>4. CASE /\ flights' = Sent(Returned(flights, f),
                              GoesOn(f, "updateUserAccount", <<f.arg.email>>))
           /\ UNCHANGED view
  <2> DEFINE c == GoesOn(f, "updateUserAccount", <<f.arg.email>>)
  <2>1. FlightOK(f)
    BY DEF ConsoleOK, FlightsOK
  <2>2. /\ FlightRecord(c)
        /\ c.call = "updateUserAccount" /\ c.live = f.live
        /\ c.arg = f.arg /\ c.checked = <<f.arg.email>>
    BY <2>1, FollowingFlight
  <2>3. flights' = Sent(Returned(flights, f), c)
    BY <1>4
  <2> HIDE DEF c
  <2>4. FlightOK(c)
    BY <1>1, <2>1, <2>2 DEF FlightOK, Checked, HttpClientHandlers
  <2>5. MountedOK(view, c)
    BY <2>2 DEF MountedOK, UsersPageCalls
  <2> QED
    BY <1>1, <1>4, <2>3, <2>4, <2>5, AnswerGoesOn
<1> QED
  BY <1>2, <1>3, <1>4 DEF RowValidated

(* The change and the deletion of the row's account.                       *)
LEMMA RowEnded ==
  ASSUME ConsoleOK, NEW f \in BagToSet(flights), UNCHANGED page, RowFailed(f) \/ RowDone(f)
  PROVE  ConsoleOK'
<1>1. CASE RowFailed(f)
  BY <1>1, EndingAlone, AnswerAlone DEF RowFailed
<1>2. CASE RowDone(f)
  <2> DEFINE v == IF f.live /\ f.arg.here
                  THEN [Ending(f, view) EXCEPT !.row.open = ~@] ELSE view
  <2>1. HideDialogs(f, v, loader, Returned(flights, f))
    BY <1>2 DEF RowDone
  <2>2. page = "users" => SameTable(view, v)
    BY EndingAlone, SameView
  <2> HIDE DEF v
  <2> QED
    BY <2>1, <2>2, HideDialogsStep
<1> QED
  BY <1>1, <1>2

(* The answers of the other pages' calls and of the header's.              *)
LEMMA OtherAnswers ==
  ASSUME ConsoleOK, NEW f \in BagToSet(flights), NEW outcome,
         \/ LoginAnswered(f, outcome)
         \/ LoggedOut(f, outcome)
         \/ OnboardingDataFetched(f, outcome)
         \/ SetupAnswered(f, outcome)
         \/ NamespacesListed(f, outcome)
         \/ NamespaceSaved(f, outcome)
         \/ MaintainersFound(f, outcome)
  PROVE  ConsoleOK'
<1>1. CASE LoginAnswered(f, outcome)
  <2>1. f.call \notin UsersPageCalls
    BY <1>1 DEF LoginAnswered, UsersPageCalls
  <2>2. CASE Failed(outcome)
    BY <1>1, <2>1, <2>2, ForeignAnswer DEF LoginAnswered
  <2>3. CASE ~Failed(outcome)
    <3>1. Enter("home", HomeView, {}, loader, Returned(flights, f))
      BY <1>1, <2>3 DEF LoginAnswered
    <3> QED
      BY <3>1, EnteredPage, ReturnedPage
  <2> QED
    BY <2>2, <2>3
<1>2. CASE LoggedOut(f, outcome)
  <2>1. Enter("login", LoginView, {}, loader, Returned(flights, f))
    BY <1>2 DEF LoggedOut, ToLogin
  <2> QED
    BY <2>1, EnteredPage, ReturnedPage
<1>3. CASE OnboardingDataFetched(f, outcome)
  <2>1. f.call \notin UsersPageCalls /\ flights' = Returned(flights, f) /\ UNCHANGED page
    BY <1>3 DEF OnboardingDataFetched, UsersPageCalls
  <2>2. ASSUME ~f.live PROVE view' = view
    <3>1. PICK named \in BOOLEAN :
            view' = CASE f.live /\ outcome.kind = "message" ->
                           [view EXCEPT !.generalError = TRUE]
                      [] f.live /\ outcome.kind = "data" ->
                           [view EXCEPT !.userId = TRUE, !.displayName = named]
                      [] OTHER -> view
      BY <1>3 DEF OnboardingDataFetched
    <3> QED
      BY <2>2, <3>1
  <2> QED
    BY <2>1, <2>2, ForeignAnswer
<1>4. CASE SetupAnswered(f, outcome)
  BY <1>4, ForeignAnswer DEF SetupAnswered, UsersPageCalls
<1>5. CASE NamespacesListed(f, outcome)
  BY <1>5, ForeignAnswer DEF NamespacesListed, UsersPageCalls
<1>6. CASE NamespaceSaved(f, outcome)
  BY <1>6, ForeignAnswer DEF NamespaceSaved, UsersPageCalls
<1>7. CASE MaintainersFound(f, outcome)
  <2>1. f.call \notin UsersPageCalls /\ flights' = Returned(flights, f) /\ UNCHANGED page
    BY <1>7 DEF MaintainersFound, UsersPageCalls
  <2>2. ~f.live => view' = view
    BY <1>7 DEF MaintainersFound
  <2> QED
    BY <2>1, <2>2, ForeignAnswer
<1> QED
  BY <1>1, <1>2, <1>3, <1>4, <1>5, <1>6, <1>7

(* The check of a namespace's name, and the creation that follows it.      *)
LEMMA NameValidatedStep ==
  ASSUME ConsoleOK, NEW f \in BagToSet(flights), NEW outcome, NameValidated(f, outcome)
  PROVE  ConsoleOK'
<1>1. f.call = "validateNamespaceAvailability" /\ UNCHANGED <<page, view>>
  BY DEF NameValidated
<1>2. CASE flights' = Returned(flights, f)
  BY <1>1, <1>2, AnswerOnly
<1>3. CASE flights' = Sent(Returned(flights, f), GoesOn(f, "saveNamespace", <<f.arg.name>>))
  <2> DEFINE c == GoesOn(f, "saveNamespace", <<f.arg.name>>)
  <2>1. FlightOK(f)
    BY DEF ConsoleOK, FlightsOK
  <2>2. /\ FlightRecord(c)
        /\ c.call = "saveNamespace" /\ c.live = f.live
        /\ c.arg = f.arg /\ c.checked = <<f.arg.name>>
    BY <2>1, FollowingFlight
  <2>3. flights' = Sent(Returned(flights, f), c)
    BY <1>3
  <2> HIDE DEF c
  <2>4. FlightOK(c)
    BY <2>1, <2>2 DEF FlightOK, Checked, HttpClientHandlers
  <2>5. page = "users" => ~c.live
    BY <1>1, <2>2 DEF ConsoleOK, UsersOK, MountedOK, UsersPageCalls
  <2> QED
    BY <1>1, <2>3, <2>4, <2>5, AnswerGoesOn
<1> QED
  BY <1>2, <1>3 DEF NameValidated

(* Whatever is answered.                                                   *)
LEMMA AnswerSteps ==
  ASSUME ConsoleOK, Answer
  PROVE  ConsoleOK'
<1>1. PICK f \in BagToSet(flights) : Answers(f)
  BY DEF Answer
<1>2. CASE Rejected(f)
  <2>1. flights' = Returned(flights, f) /\ UNCHANGED <<page, view>>
    BY <1>2 DEF Rejected
  <2> QED
    BY <2>1, AnswerOnly
<1>3. ASSUME NEW outcome, RowUpdated(f, outcome) \/ RowDeleted(f, outcome) PROVE ConsoleOK'
  <2>1. UNCHANGED page /\ (RowFailed(f) \/ RowDone(f))
    BY <1>3 DEF RowUpdated, RowDeleted, RowAnswered
  <2> QED
    BY <2>1, RowEnded
<1>4. ASSUME NEW outcome,
             \/ LoginAnswered(f, outcome)
             \/ LoggedOut(f, outcome)
             \/ OnboardingDataFetched(f, outcome)
             \/ SetupAnswered(f, outcome)
             \/ NamespacesListed(f, outcome)
             \/ NamespaceSaved(f, outcome)
             \/ MaintainersFound(f, outcome)
      PROVE  ConsoleOK'
  BY <1>4, OtherAnswers
<1>5. ASSUME NEW outcome,
             \/ UsersListed(f, outcome)
             \/ UserValidated(f, outcome)
             \/ UserCreated(f, outcome)
             \/ NameValidated(f, outcome)
             \/ RowValidated(f, outcome)
      PROVE  ConsoleOK'
  BY <1>5, UsersListedStep, UserValidatedStep, UserCreatedStep, NameValidatedStep, RowValidatedStep
<1> QED
  BY <1>1, <1>2, <1>3, <1>4, <1>5, ZenonT(60) DEF Answers

(* The timers.                                                             *)
LEMMA TimerSteps ==
  ASSUME ConsoleOK, Timer \/ RedirectDue \/ LoadLogin
  PROVE  ConsoleOK'
<1>1. CASE SearchDue
  BY <1>1, ControlSteps
<1>2. CASE MaintainerSearchDue
  <2>1. page' # "users"
    BY <1>2 DEF MaintainerSearchDue
  <2>2. PICK term : flights' = Sent(flights, Flight("searchMaintainers",
                                                    [request |-> MaintainersRequest(term)]))
    BY <1>2 DEF MaintainerSearchDue
  <2>3. FlightOK(Flight("searchMaintainers", [request |-> MaintainersRequest(term)]))
    BY UncheckedFlight DEF HttpClientHandlers
  <2>4. FlightsOK(flights')
    BY <2>2, <2>3, FlightsStayOK DEF ConsoleOK
  <2> QED
    BY <2>1, <2>4, ElsewhereOK
<1>3. CASE HideProgress
  BY <1>3, DialogSteps
<1>4. CASE RedirectDue
  BY <1>4, EnteredPage DEF RedirectDue, ToLogin, ConsoleOK
<1>5. CASE LoadLogin
  <2>1. page' = "login" /\ flights' = EmptyBag
    BY <1>5 DEF LoadLogin
  <2>2. FlightsOK(EmptyBag)
    BY DEF FlightsOK, EmptyBag, SetToBag, BagToSet
  <2> QED
    BY <2>1, <2>2, ElsewhereOK
<1> QED
  BY <1>1, <1>2, <1>3, <1>4, <1>5 DEF Timer

-----------------------------------------------------------------------------
(* Bags of calls and of handlers, and how many loader counts they make up  *)

Bag(b) == /\ b \in [BagToSet(b) -> Nat \ {0}]
          /\ IsFiniteSet(BagToSet(b))

(* An occurrence is an element with its number.                            *)
LEMMA OccurrenceOf ==
  ASSUME NEW b, NEW S, NEW z
  PROVE  z \in Occurrences(b, S) <=> \E e \in S : \E n \in 1 .. b[e] : z = <<e, n>>
BY DEF Occurrences

(* There are finitely many.                                                *)
LEMMA OccurrencesFinite ==
  ASSUME NEW b, Bag(b), NEW S \in SUBSET BagToSet(b)
  PROVE  /\ IsFiniteSet(Occurrences(b, S))
         /\ Cardinality(Occurrences(b, S)) \in Nat
<1> DEFINE Of(e) == {e} \X (1 .. b[e])
           All == {Of(e) : e \in S}
<1>1. IsFiniteSet(S)
  BY FS_Subset DEF Bag
<1>2. IsFiniteSet(All)
  <2>1. [e \in S |-> Of(e)] \in Surjection(S, All)
    BY DEF Surjection
  <2> QED
    BY <1>1, <2>1, FS_Surjection
<1>3. ASSUME NEW e \in S PROVE IsFiniteSet(Of(e))
  <2>1. IsFiniteSet({e})
    BY FS_Singleton
  <2>2. b[e] \in Int
    BY DEF Bag
  <2>3. IsFiniteSet(1 .. b[e])
    BY <2>2, FS_Interval
  <2> QED
    BY <2>1, <2>3, FS_Product
<1>4. \A T \in All : IsFiniteSet(T)
  BY <1>3
<1> HIDE DEF All
<1>5. IsFiniteSet(UNION All)
  BY <1>2, <1>4, FS_UNION
<1>6. UNION All = Occurrences(b, S)
  BY DEF All, Occurrences
<1> QED
  BY <1>5, <1>6, FS_CardinalityType

(* One more of an element that is counted is one occurrence more, one of   *)
(* another none.                                                           *)
LEMMA OccurrencesAdded ==
  ASSUME NEW b, Bag(b), NEW x, NEW S \in SUBSET BagToSet(b), x \in BagToSet(b) => x \in S
  PROVE  Cardinality(Occurrences(BagAdd(b, x), S \cup {x}))
           = Cardinality(Occurrences(b, S)) + 1
<1> DEFINE n == IF x \in BagToSet(b) THEN b[x] ELSE 0
           c == BagAdd(b, x)
<1>1. n \in Nat
  BY DEF Bag
<1>2. c[x] = n + 1 /\ \A e \in S \ {x} : c[e] = b[e]
  BY DEF BagAdd, BagToSet
<1>3. \A e \in S : b[e] \in Nat
  BY DEF Bag
<1> HIDE DEF n, c
<1>4. <<x, n + 1>> \notin Occurrences(b, S)
  <2> SUFFICES ASSUME <<x, n + 1>> \in Occurrences(b, S) PROVE FALSE
    OBVIOUS
  <2>1. x \in S /\ n + 1 \in 1 .. b[x]
    BY OccurrenceOf
  <2>2. n = b[x]
    BY <2>1 DEF n
  <2> QED
    BY <1>1, <2>1, <2>2
<1>5. Occurrences(c, S \cup {x}) = Occurrences(b, S) \cup {<<x, n + 1>>}
  <2>1. ASSUME NEW z \in Occurrences(c, S \cup {x})
        PROVE  z \in Occurrences(b, S) \cup {<<x, n + 1>>}
    <3>0. PICK e \in S \cup {x} : \E k \in 1 .. c[e] : z = <<e, k>>
      BY <2>1, OccurrenceOf
    <3>1. PICK k \in 1 .. c[e] : z = <<e, k>>
      BY <3>0
    <3>2. CASE e # x
      BY <1>2, <3>1, <3>2, OccurrenceOf
    <3>3. CASE e = x /\ k = n + 1
      BY <3>1, <3>3
    <3>4. CASE e = x /\ k # n + 1
      <4>1. k \in 1 .. n
        BY <1>1, <1>2, <3>4
      <4>2. x \in S /\ n = b[x]
        BY <1>1, <4>1 DEF n
      <4> QED
        BY <3>1, <3>4, <4>1, <4>2, OccurrenceOf
    <3> QED
      BY <3>2, <3>3, <3>4
  <2>2. ASSUME NEW z \in Occurrences(b, S) PROVE z \in Occurrences(c, S \cup {x})
    <3>0. PICK e \in S : \E k \in 1 .. b[e] : z = <<e, k>>
      BY <2>2, OccurrenceOf
    <3>1. PICK k \in 1 .. b[e] : z = <<e, k>>
      BY <3>0
    <3>2. k \in 1 .. c[e]
      <4>1. CASE e = x
        <5>1. b[e] = n
          BY <4>1 DEF n
        <5> QED
          BY <1>1, <1>2, <3>1, <4>1, <5>1
      <4> QED
        BY <1>2, <4>1
    <3> QED
      BY <3>1, <3>2, OccurrenceOf
  <2>3. n + 1 \in 1 .. c[x]
    BY <1>1, <1>2
  <2>4. <<x, n + 1>> \in Occurrences(c, S \cup {x})
    BY <2>3, OccurrenceOf
  <2> QED
    BY <2>1, <2>2, <2>4
<1>6. IsFiniteSet(Occurrences(b, S))
  BY OccurrencesFinite
<1> QED
  BY <1>4, <1>5, <1>6, FS_AddElement DEF c

(* One less is one occurrence less.                                        *)
LEMMA OccurrencesRemoved ==
  ASSUME NEW b, Bag(b), NEW S \in SUBSET BagToSet(b), NEW x \in S
  PROVE  Cardinality(Occurrences(BagRemove(b, x), S \cap BagToSet(BagRemove(b, x))))
           = Cardinality(Occurrences(b, S)) - 1
<1> DEFINE c == BagRemove(b, x)
           R == S \cap BagToSet(c)
<1>1. b[x] \in Nat \ {0}
  BY DEF Bag
<1>2. /\ b[x] = 1 => R = S \ {x}
      /\ b[x] # 1 => R = S /\ c[x] = b[x] - 1
      /\ \A e \in S \ {x} : c[e] = b[e]
  BY DEF BagRemove, BagToSet
<1>3. <<x, b[x]>> \in Occurrences(b, S)
  BY <1>1, OccurrenceOf
<1> HIDE DEF c, R
<1>4. ASSUME NEW z PROVE z \in Occurrences(c, R) <=> z \in Occurrences(b, S) \ {<<x, b[x]>>}
  <2>1. ASSUME NEW e, NEW k, z = <<e, k>>
        PROVE  e \in R /\ k \in 1 .. c[e] <=> e \in S /\ k \in 1 .. b[e] /\ <<e, k>> # <<x, b[x]>>
    <3>1. CASE e = x
      BY <1>1, <1>2, <3>1
    <3>2. CASE e # x
      BY <1>2, <3>2
    <3> QED
      BY <3>1, <3>2
  <2>2. CASE z \in Occurrences(c, R)
    <3>0. PICK e \in R : \E k \in 1 .. c[e] : z = <<e, k>>
      BY <2>2, OccurrenceOf
    <3>1. PICK k \in 1 .. c[e] : z = <<e, k>>
      BY <3>0
    <3> QED
      BY <2>1, <2>2, <3>1, OccurrenceOf
  <2>3. CASE z \in Occurrences(b, S) \ {<<x, b[x]>>}
    <3>0. PICK e \in S : \E k \in 1 .. b[e] : z = <<e, k>>
      BY <2>3, OccurrenceOf
    <3>1. PICK k \in 1 .. b[e] : z = <<e, k>>
      BY <3>0
    <3> QED
      BY <2>1, <2>3, <3>1, OccurrenceOf
  <2> QED
    BY <2>2, <2>3
<1>5. Occurrences(c, R) = Occurrences(b, S) \ {<<x, b[x]>>}
  BY <1>4
<1>6. Cardinality(Occurrences(b, S) \ {<<x, b[x]>>}) = Cardinality(Occurrences(b, S)) - 1
  BY <1>3, OccurrencesFinite, FS_RemoveElement
<1> QED
  BY <1>5, <1>6 DEF c, R

(* What is not counted may come and go.                                    *)
LEMMA OccurrencesKept ==
  ASSUME NEW b, NEW c, NEW S, \A e \in S : c[e] = b[e]
  PROVE  Occurrences(c, S) = Occurrences(b, S)
BY DEF Occurrences

(* The calls out of handlers that show the loader.                         *)
HandlerFlights(fs) == {f \in BagToSet(fs) : f.call \in Loading}

Handlers(fs) == Cardinality(Occurrences(fs, HandlerFlights(fs)))

Ended(b) == Cardinality(Occurrences(b, BagToSet(b) \cap Loading))

(* Both counts are numbers.                                                *)
LEMMA CountsAreNumbers ==
  ASSUME NEW b, Bag(b)
  PROVE  Handlers(b) \in Nat /\ Ended(b) \in Nat
BY OccurrencesFinite DEF Handlers, HandlerFlights, Ended

(* Adding to a bag and taking from it.                                     *)
LEMMA BagAdded ==
  ASSUME NEW b, Bag(b), NEW x
  PROVE  /\ Bag(BagAdd(b, x))
         /\ BagToSet(BagAdd(b, x)) = BagToSet(b) \cup {x}
         /\ \A y \in BagToSet(b) \ {x} : BagAdd(b, x)[y] = b[y]
<1>1. /\ BagToSet(BagAdd(b, x)) = BagToSet(b) \cup {x}
      /\ \A y \in BagToSet(b) \ {x} : BagAdd(b, x)[y] = b[y]
  BY DEF BagAdd, BagToSet
<1>2. BagAdd(b, x) \in [BagToSet(BagAdd(b, x)) -> Nat \ {0}]
  BY DEF Bag, BagAdd, BagToSet
<1>3. IsFiniteSet(BagToSet(BagAdd(b, x)))
  BY <1>1, FS_AddElement DEF Bag
<1> QED
  BY <1>1, <1>2, <1>3 DEF Bag

(* A bag from which an element was taken.                                  *)
LEMMA BagTaken ==
  ASSUME NEW b, Bag(b), NEW x \in BagToSet(b)
  PROVE  /\ Bag(BagRemove(b, x))
         /\ BagToSet(BagRemove(b, x)) \subseteq BagToSet(b)
         /\ BagToSet(b) \ {x} \subseteq BagToSet(BagRemove(b, x))
         /\ \A y \in BagToSet(b) \ {x} : BagRemove(b, x)[y] = b[y]
<1>1. /\ BagToSet(BagRemove(b, x)) \in SUBSET BagToSet(b)
      /\ BagToSet(b) \ {x} \subseteq BagToSet(BagRemove(b, x))
      /\ \A y \in BagToSet(b) \ {x} : BagRemove(b, x)[y] = b[y]
  BY DEF BagRemove, BagToSet
<1>2. BagRemove(b, x) \in [BagToSet(BagRemove(b, x)) -> Nat \ {0}]
  BY DEF Bag, BagRemove, BagToSet
<1>3. IsFiniteSet(BagToSet(BagRemove(b, x)))
  BY <1>1, FS_Subset DEF Bag
<1> QED
  BY <1>1, <1>2, <1>3 DEF Bag

(* A call that goes out and one that comes back, and the loader counts.    *)
LEMMA SentCall ==
  ASSUME NEW fs, Bag(fs), NEW f
  PROVE  /\ Bag(Sent(fs, f))
         /\ BagToSet(Sent(fs, f)) = BagToSet(fs) \cup {f}
         /\ f.call \in Loading => Handlers(Sent(fs, f)) = Handlers(fs) + 1
         /\ f.call \notin Loading => Handlers(Sent(fs, f)) = Handlers(fs)
<1>1. /\ Bag(Sent(fs, f))
      /\ BagToSet(Sent(fs, f)) = BagToSet(fs) \cup {f}
      /\ \A y \in BagToSet(fs) \ {f} : Sent(fs, f)[y] = fs[y]
  BY BagAdded DEF Sent
<1>2. HandlerFlights(fs) \in SUBSET BagToSet(fs)
  BY DEF HandlerFlights
<1>3. CASE f.call \in Loading
  <2>1. HandlerFlights(Sent(fs, f)) = HandlerFlights(fs) \cup {f}
    BY <1>1, <1>3 DEF HandlerFlights
  <2>2. f \in BagToSet(fs) => f \in HandlerFlights(fs)
    BY <1>3 DEF HandlerFlights
  <2> QED
    BY <1>1, <1>2, <1>3, <2>1, <2>2, OccurrencesAdded DEF Handlers, Sent
<1>4. CASE f.call \notin Loading
  <2>1. HandlerFlights(Sent(fs, f)) = HandlerFlights(fs)
    BY <1>1, <1>4 DEF HandlerFlights
  <2>2. \A e \in HandlerFlights(fs) : Sent(fs, f)[e] = fs[e]
    BY <1>1, <1>4 DEF HandlerFlights
  <2> QED
    BY <1>1, <1>4, <2>1, <2>2, OccurrencesKept DEF Handlers
<1> QED
  BY <1>3, <1>4

(* A call that is answered counts for one handler less if it shows the     *)
(* loader, for none if not.                                                *)
LEMMA ReturnedCall ==
  ASSUME NEW fs, Bag(fs), NEW f \in BagToSet(fs)
  PROVE  /\ Bag(Returned(fs, f))
         /\ BagToSet(Returned(fs, f)) \subseteq BagToSet(fs)
         /\ BagToSet(fs) \ {f} \subseteq BagToSet(Returned(fs, f))
         /\ f.call \in Loading => Handlers(Returned(fs, f)) = Handlers(fs) - 1
         /\ f.call \notin Loading => Handlers(Returned(fs, f)) = Handlers(fs)
<1>1. /\ Bag(Returned(fs, f))
      /\ BagToSet(Returned(fs, f)) \subseteq BagToSet(fs)
      /\ BagToSet(fs) \ {f} \subseteq BagToSet(Returned(fs, f))
      /\ \A y \in BagToSet(fs) \ {f} : Returned(fs, f)[y] = fs[y]
  BY BagTaken DEF Returned
<1>2. HandlerFlights(fs) \in SUBSET BagToSet(fs)
  BY DEF HandlerFlights
<1>3. CASE f.call \in Loading
  <2>1. HandlerFlights(Returned(fs, f)) = HandlerFlights(fs) \cap BagToSet(Returned(fs, f))
    BY <1>1 DEF HandlerFlights
  <2>2. f \in HandlerFlights(fs)
    BY <1>3 DEF HandlerFlights
  <2> QED
    BY <1>1, <1>2, <1>3, <2>1, <2>2, OccurrencesRemoved DEF Handlers, Returned
<1>4. CASE f.call \notin Loading
  <2>1. HandlerFlights(Returned(fs, f)) = HandlerFlights(fs)
    BY <1>1, <1>4 DEF HandlerFlights
  <2>2. \A e \in HandlerFlights(fs) : Returned(fs, f)[e] = fs[e]
    BY <1>1, <1>4 DEF HandlerFlights
  <2> QED
    BY <1>1, <1>4, <2>1, <2>2, OccurrencesKept DEF Handlers
<1> QED
  BY <1>3, <1>4

(* A handler that ends, and what the loader keeps of it.                   *)
LEMMA HandlerEnds ==
  ASSUME NEW b, Bag(b), NEW call
  PROVE  /\ Bag(BagAdd(b, call))
         /\ BagToSet(BagAdd(b, call)) = BagToSet(b) \cup {call}
         /\ call \in Loading => Ended(BagAdd(b, call)) = Ended(b) + 1
         /\ call \notin Loading => Ended(BagAdd(b, call)) = Ended(b)
<1> DEFINE c == BagAdd(b, call)
           S == BagToSet(b) \cap Loading
<1>1. /\ Bag(c)
      /\ BagToSet(c) = BagToSet(b) \cup {call}
      /\ \A y \in BagToSet(b) \ {call} : c[y] = b[y]
  BY BagAdded
<1>2. CASE call \in Loading
  <2>1. BagToSet(c) \cap Loading = S \cup {call}
    BY <1>1, <1>2
  <2>2. S \in SUBSET BagToSet(b) /\ (call \in BagToSet(b) => call \in S)
    BY <1>2
  <2>3. Cardinality(Occurrences(c, S \cup {call})) = Cardinality(Occurrences(b, S)) + 1
    BY <2>2, OccurrencesAdded
  <2> QED
    BY <1>1, <1>2, <2>1, <2>3 DEF Ended
<1>3. CASE call \notin Loading
  <2>1. BagToSet(c) \cap Loading = S
    BY <1>1, <1>3
  <2>2. \A e \in S : c[e] = b[e]
    BY <1>1, <1>3
  <2>3. Occurrences(c, S) = Occurrences(b, S)
    BY <2>2, OccurrencesKept
  <2> QED
    BY <1>1, <1>3, <2>1, <2>3 DEF Ended
<1> QED
  BY <1>2, <1>3

(* What a page that mounts sends: nothing, or one call.                    *)
LEMMA MountSends ==
  ASSUME NEW fs, Bag(fs), NEW c
  PROVE  /\ fs (+) SetToBag({}) = fs
         /\ fs (+) SetToBag({c}) = Sent(fs, c)
         /\ SetToBag({c}) = Sent(EmptyBag, c)
         /\ Cardinality({}) = 0 /\ Cardinality({c}) = 1
<1>1. fs \in [DOMAIN fs -> Nat \ {0}]
  BY DEF Bag, BagToSet
<1>2. DOMAIN SetToBag({}) = {}
  BY DEF SetToBag
<1>3. fs (+) SetToBag({}) = fs
  <2>1. fs (+) SetToBag({}) = [e \in DOMAIN fs |-> fs[e] + 0]
    BY <1>2 DEF (+)
  <2> QED
    BY <1>1, <2>1
<1>4. fs (+) SetToBag({c}) = Sent(fs, c)
  <2>1. DOMAIN SetToBag({c}) = {c} /\ SetToBag({c})[c] = 1
    BY DEF SetToBag
  <2>2. fs (+) SetToBag({c}) = [e \in DOMAIN fs \cup {c} |->
          (IF e \in DOMAIN fs THEN fs[e] ELSE 0) + (IF e = c THEN 1 ELSE 0)]
    BY <2>1 DEF (+)
  <2>3. CASE c \in DOMAIN fs
    BY <1>1, <2>2, <2>3 DEF Sent, BagAdd, BagToSet
  <2>4. CASE c \notin DOMAIN fs
    BY <1>1, <2>2, <2>4 DEF Sent, BagAdd, BagToSet
  <2> QED
    BY <2>3, <2>4
<1>5. SetToBag({c}) = Sent(EmptyBag, c)
  BY DEF Sent, BagAdd, BagToSet, EmptyBag, SetToBag
<1> QED
  BY <1>3, <1>4, <1>5, FS_EmptySet, FS_Singleton

(* No calls are a bag, and count for nothing.                              *)
LEMMA NoCalls ==
  /\ Bag(EmptyBag)
  /\ Handlers(EmptyBag) = 0 /\ Ended(EmptyBag) = 0
<1>1. EmptyBag = [e \in {} |-> 1] /\ BagToSet(EmptyBag) = {}
  BY DEF EmptyBag, SetToBag, BagToSet
<1>2. Bag(EmptyBag)
  BY <1>1, FS_EmptySet DEF Bag
<1>3. Occurrences(EmptyBag, {}) = {}
  BY DEF Occurrences
<1>4. HandlerFlights(EmptyBag) = {} /\ BagToSet(EmptyBag) \cap Loading = {}
  BY <1>1 DEF HandlerFlights
<1> QED
  BY <1>2, <1>3, <1>4, FS_EmptySet DEF Handlers, Ended

(* Two calls alike mounted or not that become the same were the same, and  *)
(* a call can be found again.                                              *)
LEMMA LeftInjective ==
  ASSUME NEW f, FlightRecord(f), NEW g, FlightRecord(g), f.live = g.live, Left(f) = Left(g)
  PROVE  f = g
<1>1. \A x \in {"call", "arg", "checked"} : Left(f)[x] = f[x] /\ Left(g)[x] = g[x]
  BY DEF FlightRecord, Left
<1>2. \A x \in {"call", "live", "arg", "checked"} : f[x] = g[x]
  BY <1>1
<1> QED
  BY <1>2 DEF FlightRecord

(* The call a mounted one becomes can be mounted again, an unmounted one   *)
(* stays as it is.                                                         *)
LEMMA LeftBack ==
  ASSUME NEW f, FlightOK(f)
  PROVE  /\ f.live => [Left(f) EXCEPT !.live = TRUE] = f
         /\ ~f.live => Left(f) = f
<1>1. FlightRecord(f) /\ f.live \in BOOLEAN
  BY DEF FlightOK
<1>2. CASE f.live = TRUE
  BY <1>1, <1>2 DEF FlightRecord, Left
<1>3. CASE f.live = FALSE
  BY <1>1, <1>3 DEF FlightRecord, Left
<1> QED
  BY <1>1, <1>2, <1>3

(* How often a call is out.                                                *)
LEMMA CopiesOut ==
  ASSUME NEW fs, Bag(fs)
  PROVE  /\ \A f : Copies(f, fs) \in Nat
         /\ \A f \in BagToSet(fs) : Copies(f, fs) = fs[f] /\ fs[f] \in Nat \ {0}
BY DEF Copies, BagIn, Bag

(* The image of a finite set of calls is finite.                           *)
LEMMA LeftFinite ==
  ASSUME NEW S, IsFiniteSet(S)
  PROVE  IsFiniteSet({Left(f) : f \in S}) /\ IsFiniteSet({OfNoRow(f) : f \in S})
<1>1. [f \in S |-> Left(f)] \in Surjection(S, {Left(f) : f \in S})
  BY DEF Surjection
<1>2. [f \in S |-> OfNoRow(f)] \in Surjection(S, {OfNoRow(f) : f \in S})
  BY DEF Surjection
<1> QED
  BY <1>1, <1>2, FS_Surjection

(* Leaving a page ends no handler.                                         *)
LEMMA OrphanedCalls ==
  ASSUME NEW fs, Bag(fs), FlightsOK(fs)
  PROVE  Bag(Orphaned(fs)) /\ Handlers(Orphaned(fs)) >= Handlers(fs)
<1> DEFINE os == Orphaned(fs)
           S == Occurrences(fs, HandlerFlights(fs))
           T == Occurrences(os, HandlerFlights(os))
           Number(f, n) == IF f.live THEN n + Copies(Left(f), fs) ELSE n
           map == [z \in S |-> <<Left(z[1]), Number(z[1], z[2])>>]
<1>1. BagToSet(os) = {Left(g) : g \in BagToSet(fs)}
  BY CallsOutNow
<1>2. \A f \in BagToSet(fs) : FlightOK(f) /\ FlightRecord(f) /\ f.live \in BOOLEAN
  BY DEF FlightsOK, FlightOK
<1>3. \A g \in BagToSet(os) : os[g] = Copies(g, fs) + Copies([g EXCEPT !.live = TRUE], fs)
  BY DEF Orphaned, BagToSet
<1>4. ASSUME NEW f \in BagToSet(fs)
      PROVE  /\ os[Left(f)] \in Nat \ {0}
             /\ f.live => os[Left(f)] >= fs[f] + Copies(Left(f), fs)
             /\ ~f.live => os[Left(f)] >= fs[f]
  <2>1. Left(f) \in BagToSet(os)
    BY <1>1
  <2>2. os[Left(f)] = Copies(Left(f), fs) + Copies([Left(f) EXCEPT !.live = TRUE], fs)
    BY <1>3, <2>1
  <2>3. /\ Copies(Left(f), fs) \in Nat
        /\ Copies([Left(f) EXCEPT !.live = TRUE], fs) \in Nat
        /\ Copies(f, fs) = fs[f] /\ fs[f] \in Nat \ {0}
    BY CopiesOut
  <2>4. CASE f.live
    <3>1. [Left(f) EXCEPT !.live = TRUE] = f
      BY <1>2, <2>4, LeftBack
    <3>2. os[Left(f)] = Copies(Left(f), fs) + Copies(f, fs)
      BY <2>2, <3>1
    <3> QED
      BY <2>3, <2>4, <3>2
  <2>5. CASE ~f.live
    <3>1. Left(f) = f
      BY <1>2, <2>5, LeftBack
    <3> QED
      BY <2>2, <2>3, <2>5, <3>1
  <2> QED
    BY <2>4, <2>5
<1> HIDE DEF os
<1>5. Bag(os)
  <2>1. os = [g \in BagToSet(os) |-> os[g]]
    BY DEF os, Orphaned, BagToSet
  <2>2. \A g \in BagToSet(os) : os[g] \in Nat \ {0}
    BY <1>1, <1>4
  <2>3. IsFiniteSet(BagToSet(os))
    BY <1>1, LeftFinite DEF Bag
  <2> QED
    BY <2>1, <2>2, <2>3 DEF Bag
<1>6. \A f \in HandlerFlights(fs) : f \in BagToSet(fs) /\ Left(f) \in HandlerFlights(os)
  BY <1>1, <1>2, LeftFlight DEF HandlerFlights
<1>7. ASSUME NEW z \in S
      PROVE  \E f \in HandlerFlights(fs) : \E n \in 1 .. fs[f] : z = <<f, n>>
  BY OccurrenceOf
<1>8. ASSUME NEW f \in HandlerFlights(fs), NEW n \in 1 .. fs[f]
      PROVE  /\ Number(f, n) \in 1 .. os[Left(f)]
             /\ f.live => Number(f, n) = n + Copies(Left(f), fs)
             /\ ~f.live => Number(f, n) = n
  <2>1. f \in BagToSet(fs)
    BY <1>6
  <2>2. Copies(Left(f), fs) \in Nat /\ fs[f] \in Nat /\ os[Left(f)] \in Nat
    BY <1>4, <2>1, CopiesOut
  <2>3. CASE f.live
    BY <1>4, <2>1, <2>2, <2>3
  <2>4. CASE ~f.live
    BY <1>4, <2>1, <2>2, <2>4
  <2> QED
    BY <2>3, <2>4
<1> HIDE DEF Number
<1>9. map \in [S -> T]
  <2>1. ASSUME NEW z \in S PROVE <<Left(z[1]), Number(z[1], z[2])>> \in T
    <3>0. PICK f \in HandlerFlights(fs) : \E n \in 1 .. fs[f] : z = <<f, n>>
      BY <1>7
    <3>1. PICK n \in 1 .. fs[f] : z = <<f, n>>
      BY <3>0
    <3>2. Left(f) \in HandlerFlights(os) /\ Number(f, n) \in 1 .. os[Left(f)]
      BY <1>6, <1>8
    <3>3. <<Left(f), Number(f, n)>> \in T
      BY <3>2, OccurrenceOf
    <3> QED
      BY <3>1, <3>3
  <2> QED
    BY <2>1
<1>10. ASSUME NEW y \in S, NEW z \in S, map[y] = map[z] PROVE y = z
  <2>1. PICK f \in HandlerFlights(fs) : \E n \in 1 .. fs[f] : y = <<f, n>>
    BY <1>7
  <2>2. PICK n \in 1 .. fs[f] : y = <<f, n>>
    BY <2>1
  <2>3. PICK g \in HandlerFlights(fs) : \E k \in 1 .. fs[g] : z = <<g, k>>
    BY <1>7
  <2>4. PICK k \in 1 .. fs[g] : z = <<g, k>>
    BY <2>3
  <2>5. Left(f) = Left(g) /\ Number(f, n) = Number(g, k)
    BY <1>10, <2>2, <2>4
  <2>6. /\ f \in BagToSet(fs) /\ g \in BagToSet(fs)
        /\ fs[f] = Copies(f, fs) /\ fs[f] \in Nat
        /\ fs[g] = Copies(g, fs) /\ fs[g] \in Nat
    BY <1>6, CopiesOut
  <2>7. CASE f.live = g.live
    <3>1. f = g
      BY <1>2, <2>5, <2>6, <2>7, LeftInjective
    <3>2. Copies(Left(f), fs) \in Nat
      BY CopiesOut
    <3>3. n = k
      BY <1>8, <2>5, <2>6, <3>1, <3>2
    <3> QED
      BY <2>2, <2>4, <3>1, <3>3
  <2>8. ASSUME f.live, ~g.live PROVE FALSE
    <3>1. Left(f) = g
      BY <1>2, <2>5, <2>6, <2>8, LeftBack
    <3>2. n + fs[g] = k
      BY <1>8, <2>5, <2>6, <2>8, <3>1
    <3> QED
      BY <2>6, <3>2
  <2>9. ASSUME ~f.live, g.live PROVE FALSE
    <3>1. Left(g) = f
      BY <1>2, <2>5, <2>6, <2>9, LeftBack
    <3>2. k + fs[f] = n
      BY <1>8, <2>5, <2>6, <2>9, <3>1
    <3> QED
      BY <2>6, <3>2
  <2> QED
    BY <1>2, <2>6, <2>7, <2>8, <2>9
<1>11. map \in Injection(S, T)
  BY <1>9, <1>10 DEF Injection, IsInjective
<1>12. IsFiniteSet(T) /\ Cardinality(T) \in Nat
  <2>1. HandlerFlights(os) \in SUBSET BagToSet(os)
    BY DEF HandlerFlights
  <2> QED
    BY <1>5, <2>1, OccurrencesFinite
<1> HIDE DEF map, S, T
<1>13. Cardinality(S) <= Cardinality(T) /\ IsFiniteSet(S)
  BY <1>11, <1>12, FS_Injection
<1>14. Cardinality(S) \in Nat
  BY <1>13, FS_CardinalityType
<1>15. Cardinality(T) >= Cardinality(S)
  BY <1>12, <1>13, <1>14
<1> QED
  BY <1>5, <1>15 DEF os, S, T, Handlers

(* A row that goes ends no handler, and those of the old client never      *)
(* counted.                                                                *)
LEMMA OrphansOfRow ==
  ASSUME NEW fs, Bag(fs), FlightsOK(fs), NEW account
  PROVE  /\ Bag(Orphans(fs, account))
         /\ Handlers(Orphans(fs, account)) = Handlers(fs)
         /\ \A f \in BagToSet(fs) :
              f.call \notin HttpClientHandlers => f \in BagToSet(Orphans(fs, account))
<1> DEFINE os == [g \in {OfNoRow(f) : f \in BagToSet(fs)} |->
                    Copies(g, fs) + IF g.call \in HttpClientHandlers
                                    THEN Copies([g EXCEPT !.arg.here = TRUE], fs) ELSE 0]
<1>1. CASE account # NoAccount
  BY <1>1 DEF Orphans
<1>2. CASE account = NoAccount
  <2>1. Orphans(fs, account) = os
    BY <1>2 DEF Orphans
  <2>2. BagToSet(os) = {OfNoRow(f) : f \in BagToSet(fs)}
    BY DEF BagToSet
  <2>3. \A f \in BagToSet(fs) : FlightOK(f)
    BY DEF FlightsOK
  <2>4. \A f \in BagToSet(fs) : f.call \notin HttpClientHandlers => OfNoRow(f) = f
    BY <2>3, RowlessFlight
  <2>5. ASSUME NEW f \in BagToSet(fs)
        PROVE  /\ os[OfNoRow(f)] \in Nat \ {0}
               /\ f.call \notin HttpClientHandlers => os[f] = fs[f]
    <3>1. /\ Copies(OfNoRow(f), fs) \in Nat
          /\ Copies([OfNoRow(f) EXCEPT !.arg.here = TRUE], fs) \in Nat
          /\ Copies(f, fs) = fs[f] /\ fs[f] \in Nat \ {0}
      BY CopiesOut
    <3>2. OfNoRow(f).call = f.call
      BY <2>3, RowlessFlight
    <3>3. CASE f.call \in HttpClientHandlers
      <4>1. os[OfNoRow(f)] = Copies(OfNoRow(f), fs)
                              + Copies([OfNoRow(f) EXCEPT !.arg.here = TRUE], fs)
        BY <3>2, <3>3
      <4>2. OfNoRow(f) = f \/ [OfNoRow(f) EXCEPT !.arg.here = TRUE] = f
        BY <2>3, <3>3, RowlessFlight
      <4>3. CASE OfNoRow(f) = f
        <5>1. os[OfNoRow(f)] = Copies(f, fs) + Copies([OfNoRow(f) EXCEPT !.arg.here = TRUE], fs)
          BY <4>1, <4>3
        <5> QED
          BY <3>1, <3>3, <5>1
      <4>4. CASE [OfNoRow(f) EXCEPT !.arg.here = TRUE] = f
        <5>1. os[OfNoRow(f)] = Copies(OfNoRow(f), fs) + Copies(f, fs)
          BY <4>1, <4>4
        <5> QED
          BY <3>1, <3>3, <5>1
      <4> QED
        BY <4>2, <4>3, <4>4
    <3>4. CASE f.call \notin HttpClientHandlers
      <4>1. OfNoRow(f) = f
        BY <2>4, <3>4
      <4>2. os[f] = Copies(f, fs) + 0
        BY <3>4, <4>1
      <4> QED
        BY <3>1, <4>1, <4>2
    <3> QED
      BY <3>3, <3>4
  <2>6. os = [g \in BagToSet(os) |-> os[g]]
    BY <2>2
  <2> HIDE DEF os
  <2>7. \A g \in BagToSet(os) : os[g] \in Nat \ {0}
    BY <2>2, <2>5
  <2>8. IsFiniteSet(BagToSet(os))
    BY <2>2, LeftFinite DEF Bag
  <2>9. Bag(os)
    BY <2>6, <2>7, <2>8 DEF Bag
  <2>10. Loading \cap HttpClientHandlers = {}
    BY DEF Loading, HttpClientHandlers, Awaits
  <2>11. HandlerFlights(os) = HandlerFlights(fs)
    <3>1. ASSUME NEW f \in HandlerFlights(fs) PROVE f \in HandlerFlights(os)
      BY <2>2, <2>4, <2>10 DEF HandlerFlights
    <3>2. ASSUME NEW g \in HandlerFlights(os) PROVE g \in HandlerFlights(fs)
      <4>1. PICK f \in BagToSet(fs) : g = OfNoRow(f)
        BY <2>2 DEF HandlerFlights
      <4>2. f.call \in Loading
        BY <2>3, <4>1, RowlessFlight DEF HandlerFlights
      <4> QED
        BY <2>4, <2>10, <4>1, <4>2 DEF HandlerFlights
    <3> QED
      BY <3>1, <3>2
  <2>12. \A f \in HandlerFlights(fs) : os[f] = fs[f]
    BY <2>5, <2>10 DEF HandlerFlights
  <2>13. Handlers(os) = Handlers(fs)
    BY <2>11, <2>12, OccurrencesKept DEF Handlers
  <2> QED
    BY <2>1, <2>2, <2>4, <2>9, <2>13
<1> QED
  BY <1>1, <1>2

-----------------------------------------------------------------------------
(* What the user waits for                                                 *)

(* The loader shows no more handlers than are out or ended without hiding. *)
Counts(l, fs, ended) ==
  /\ Bag(fs) /\ Bag(ended)
  /\ l \in Nat
  /\ l <= Handlers(fs) + Ended(ended)

(* Whose calls a page makes.                                               *)
Belongs(p, call) ==
  \/ p = "login" /\ call = "handleLogin"
  \/ p = "setup" /\ call \in {"fetchOnboardingData", "handleUserAccountComplete"}
  \/ p = "users" /\ call \in UsersPageCalls
  \/ p = "namespaces" /\ call \in {"loadNamespaces", "validateNamespaceAvailability",
                                   "saveNamespace", "searchMaintainers"}
  \/ p \in {"home", "users", "namespaces"} /\ call = "handleLogout"

MountedBelong(p, fs) == \A f \in BagToSet(fs) : f.live => Belongs(p, f.call)

RowFields == {"open", "email", "changed", "taken", "progress", "hides"}

(* The part of a view that shows something spinning.                       *)
SpinnersOK(p, v) ==
  /\ p = "login" => "processing" \in DOMAIN v
  /\ p = "users" => "row" \in DOMAIN v /\ RowFields \subseteq DOMAIN v.row /\ v.row.hides \in Nat
  /\ p = "namespaces" => "searching" \in DOMAIN v

SameSpinners(p, v, w) ==
  /\ p = "login" => "processing" \in DOMAIN w /\ w.processing = v.processing
  /\ p = "users" => /\ "row" \in DOMAIN w /\ RowFields \subseteq DOMAIN w.row
                    /\ w.row.hides = v.row.hides /\ w.row.progress = v.row.progress
  /\ p = "namespaces" => "searching" \in DOMAIN w /\ w.searching = v.searching

MountedCall(fs, call) == \E f \in BagToSet(fs) : f.live /\ f.call = call

RowCallHere(f) == f.live /\ f.call \in {"valiateUser", "updateUserAccount"} /\ f.arg.here

Awaited(p, v, fs, ended) ==
  /\ p = "login" /\ v.processing =>
       MountedCall(fs, "handleLogin") \/ "handleLogin" \in BagToSet(ended)
  /\ p = "users" /\ v.row.progress =>
       v.row.hides > 0 \/ \E f \in BagToSet(fs) : RowCallHere(f)
  /\ p = "namespaces" /\ v.searching =>
       MountedCall(fs, "searchMaintainers") \/ "searchMaintainers" \in BagToSet(ended)

Spins(p, v, fs, ended) == SpinnersOK(p, v) /\ Awaited(p, v, fs, ended)

WaitOK ==
  /\ Counts(loader, flights, abandoned)
  /\ MountedBelong(page, flights)
  /\ Spins(page, view, flights, abandoned)

BusyOK == ConsoleOK /\ WaitOK

(* How the loader's count and the handlers change together.                *)
LEMMA CountsSent ==
  ASSUME NEW l, NEW fs, NEW ended, Counts(l, fs, ended), NEW c
  PROVE  /\ Counts(l, Sent(fs, c), ended)
         /\ c.call \in Loading => Counts(Show(l), Sent(fs, c), ended)
BY SentCall, CountsAreNumbers DEF Counts, Show

(* Hiding once too often keeps the loader below its handlers.              *)
LEMMA CountsHidden ==
  ASSUME NEW l, NEW fs, NEW ended, Counts(l, fs, ended)
  PROVE  Counts(Hide(l), fs, ended)
BY CountsAreNumbers DEF Counts, Hide

(* An answer takes the handler and what it shows of the loader.            *)
LEMMA CountsReturned ==
  ASSUME NEW l, NEW fs, NEW ended, Counts(l, fs, ended), NEW f \in BagToSet(fs)
  PROVE  /\ f.call \in Loading => Counts(Hide(l), Returned(fs, f), ended)
         /\ f.call \notin Loading => Counts(l, Returned(fs, f), ended)
<1>1. /\ Bag(fs) /\ Bag(Returned(fs, f)) /\ Bag(ended)
      /\ f.call \in Loading => Handlers(Returned(fs, f)) = Handlers(fs) - 1
      /\ f.call \notin Loading => Handlers(Returned(fs, f)) = Handlers(fs)
  BY ReturnedCall DEF Counts
<1>2. Handlers(fs) \in Nat /\ Handlers(Returned(fs, f)) \in Nat /\ Ended(ended) \in Nat
  BY <1>1, CountsAreNumbers
<1> QED
  BY <1>1, <1>2 DEF Counts, Hide

(* A handler that is ended passes from the ones out to the ones ended.     *)
LEMMA CountsRejected ==
  ASSUME NEW l, NEW fs, NEW ended, Counts(l, fs, ended), NEW f \in BagToSet(fs)
  PROVE  Counts(l, Returned(fs, f), BagAdd(ended, f.call))
<1>1. /\ Bag(fs) /\ Bag(Returned(fs, f)) /\ Bag(ended)
      /\ f.call \in Loading => Handlers(Returned(fs, f)) = Handlers(fs) - 1
      /\ f.call \notin Loading => Handlers(Returned(fs, f)) = Handlers(fs)
  BY ReturnedCall DEF Counts
<1>2. /\ Bag(BagAdd(ended, f.call))
      /\ f.call \in Loading => Ended(BagAdd(ended, f.call)) = Ended(ended) + 1
      /\ f.call \notin Loading => Ended(BagAdd(ended, f.call)) = Ended(ended)
  BY <1>1, HandlerEnds
<1>3. Handlers(fs) \in Nat /\ Handlers(Returned(fs, f)) \in Nat /\ Ended(ended) \in Nat
  BY <1>1, CountsAreNumbers
<1> QED
  BY <1>1, <1>2, <1>3 DEF Counts

(* Losing the row leaves the counts alone.                                 *)
LEMMA CountsOrphans ==
  ASSUME NEW l, NEW fs, NEW ended, Counts(l, fs, ended), FlightsOK(fs), NEW account
  PROVE  Counts(l, Orphans(fs, account), ended)
BY OrphansOfRow DEF Counts

(* A page that mounts sends nothing, or one call and shows the loader.     *)
MountsWith(calls) == calls = {} \/ \E c : calls = {c} /\ c.call \in Loading

(* A page that mounts leaves every handler running and adds its own.       *)
LEMMA CountsMounted ==
  ASSUME NEW l, NEW fs, NEW ended, Counts(l, fs, ended), FlightsOK(fs),
         NEW calls, MountsWith(calls)
  PROVE  Counts(l + Cardinality(calls), Orphaned(fs) (+) SetToBag(calls), ended)
<1>1. Counts(l, Orphaned(fs), ended)
  <2>1. /\ Bag(fs) /\ Bag(ended) /\ Bag(Orphaned(fs))
        /\ Handlers(Orphaned(fs)) >= Handlers(fs)
    BY OrphanedCalls DEF Counts
  <2>2. Handlers(fs) \in Nat /\ Handlers(Orphaned(fs)) \in Nat /\ Ended(ended) \in Nat
    BY <2>1, CountsAreNumbers
  <2> QED
    BY <2>1, <2>2 DEF Counts
<1>2. CASE calls = {}
  <2>1. Orphaned(fs) (+) SetToBag(calls) = Orphaned(fs)
    BY <1>1, <1>2, MountSends DEF Counts
  <2>2. Cardinality(calls) = 0
    BY <1>2, FS_EmptySet
  <2>3. l + Cardinality(calls) = l
    BY <2>2 DEF Counts
  <2> QED
    BY <1>1, <2>1, <2>3
<1>3. ASSUME NEW c, calls = {c}, c.call \in Loading
      PROVE  Counts(l + Cardinality(calls), Orphaned(fs) (+) SetToBag(calls), ended)
  <2>1. Orphaned(fs) (+) SetToBag(calls) = Sent(Orphaned(fs), c)
    BY <1>1, <1>3, MountSends DEF Counts
  <2>2. Cardinality(calls) = 1
    BY <1>3, FS_Singleton
  <2>3. l + Cardinality(calls) = Show(l)
    BY <2>2 DEF Counts, Show
  <2>4. Counts(Show(l), Sent(Orphaned(fs), c), ended)
    BY <1>1, <1>3, CountsSent
  <2> QED
    BY <2>1, <2>3, <2>4
<1> QED
  BY <1>2, <1>3 DEF MountsWith

(* Which mounted calls there are after a call goes out or comes back.      *)
LEMMA BelongSent ==
  ASSUME NEW p, NEW fs, MountedBelong(p, fs), NEW c, c.live => Belongs(p, c.call)
  PROVE  MountedBelong(p, Sent(fs, c))
BY CallsOutNow DEF MountedBelong

(* An answer mounts nothing.                                               *)
LEMMA BelongReturned ==
  ASSUME NEW p, NEW fs, MountedBelong(p, fs), NEW f
  PROVE  MountedBelong(p, Returned(fs, f))
BY CallsOutNow DEF MountedBelong

(* Losing the row mounts nothing.                                          *)
LEMMA BelongOrphans ==
  ASSUME NEW p, NEW fs, MountedBelong(p, fs), FlightsOK(fs), NEW account
  PROVE  MountedBelong(p, Orphans(fs, account))
<1>1. ASSUME NEW g \in BagToSet(Orphans(fs, account)), g.live PROVE Belongs(p, g.call)
  <2>0. BagToSet(Orphans(fs, account)) \subseteq BagToSet(fs) \cup {OfNoRow(h) : h \in BagToSet(fs)}
    BY CallsOutNow
  <2>1. PICK h \in BagToSet(fs) : g = h \/ g = OfNoRow(h)
    BY <2>0
  <2>2. h.live /\ g.call = h.call
    BY <1>1, <2>1, RowlessFlight DEF FlightsOK
  <2> QED
    BY <2>2 DEF MountedBelong
<1> QED
  BY <1>1 DEF MountedBelong

(* After a page mounted its own calls are the only mounted ones.           *)
LEMMA BelongMounted ==
  ASSUME NEW p, NEW fs, FlightsOK(fs), NEW calls, \A c \in calls : Belongs(p, c.call)
  PROVE  MountedBelong(p, Orphaned(fs) (+) SetToBag(calls))
<1>1. ASSUME NEW g \in BagToSet(Orphaned(fs) (+) SetToBag(calls)), g.live PROVE Belongs(p, g.call)
  <2>0. BagToSet(Orphaned(fs) (+) SetToBag(calls)) = {Left(h) : h \in BagToSet(fs)} \cup calls
    BY CallsOutNow
  <2>1. g \in calls \/ \E h \in BagToSet(fs) : g = Left(h)
    BY <2>0
  <2>2. g \in calls
    BY <1>1, <2>1, LeftFlight DEF FlightsOK
  <2> QED
    BY <2>2
<1> QED
  BY <1>1 DEF MountedBelong

(* What spins goes on spinning for the same reason.                        *)
Spinning(f) ==
  (f.live /\ f.call \in {"handleLogin", "searchMaintainers"}) \/ RowCallHere(f)

(* Whatever spins has a call, or a handler that was ended, that is still   *)
(* there.                                                                  *)
LEMMA SpinsOn ==
  ASSUME NEW p, NEW v, NEW fs, NEW ended, Spins(p, v, fs, ended),
         NEW w, SameSpinners(p, v, w), NEW gs, NEW ended2,
         \A f \in BagToSet(fs) : Spinning(f) => f \in BagToSet(gs),
         BagToSet(ended) \subseteq BagToSet(ended2)
  PROVE  Spins(p, w, gs, ended2)
<1>1. SpinnersOK(p, w)
  BY DEF Spins, SpinnersOK, SameSpinners
<1>2. p = "login" /\ w.processing =>
        MountedCall(gs, "handleLogin") \/ "handleLogin" \in BagToSet(ended2)
  BY DEF Spins, Awaited, SameSpinners, MountedCall, Spinning
<1>3. p = "users" /\ w.row.progress =>
        w.row.hides > 0 \/ \E f \in BagToSet(gs) : RowCallHere(f)
  BY DEF Spins, Awaited, SameSpinners, Spinning
<1>4. p = "namespaces" /\ w.searching =>
        MountedCall(gs, "searchMaintainers") \/ "searchMaintainers" \in BagToSet(ended2)
  BY DEF Spins, Awaited, SameSpinners, MountedCall, Spinning
<1> QED
  BY <1>1, <1>2, <1>3, <1>4 DEF Spins, Awaited

(* An unchanged view has the same spinners.                                *)
LEMMA SpinnersSame ==
  ASSUME NEW p, NEW v, SpinnersOK(p, v)
  PROVE  SameSpinners(p, v, v)
BY DEF SpinnersOK, SameSpinners

(* A step that makes and answers no call.                                  *)
LEMMA WaitsOn ==
  ASSUME BusyOK, UNCHANGED <<page, loader, flights, abandoned>>,
         SameSpinners(page, view, view')
  PROVE  WaitOK'
<1>1. Spins(page, view', flights, abandoned)
  BY SpinsOn DEF BusyOK, WaitOK
<1> QED
  BY <1>1 DEF BusyOK, WaitOK

(* A step that makes a call, which is what the user waits for or leaves    *)
(* that alone.                                                             *)
LEMMA WaitsForCall ==
  ASSUME BusyOK, UNCHANGED <<page, abandoned>>,
         NEW c, flights' = Sent(flights, c), c.live => Belongs(page, c.call),
         loader' = loader \/ (c.call \in Loading /\ loader' = Show(loader)),
         Spins(page, view', flights', abandoned)
  PROVE  WaitOK'
<1>1. Counts(loader', flights', abandoned)
  BY CountsSent DEF BusyOK, WaitOK
<1>2. MountedBelong(page, flights')
  BY BelongSent DEF BusyOK, WaitOK
<1> QED
  BY <1>1, <1>2 DEF WaitOK

(* A call that nothing spins for.                                          *)
LEMMA WaitsBesideCall ==
  ASSUME BusyOK, UNCHANGED <<page, abandoned>>,
         NEW c, flights' = Sent(flights, c), c.live => Belongs(page, c.call),
         loader' = loader \/ (c.call \in Loading /\ loader' = Show(loader)),
         SameSpinners(page, view, view')
  PROVE  WaitOK'
<1>1. BagToSet(flights') = BagToSet(flights) \cup {c}
  BY CallsOutNow
<1>2. Spins(page, view', flights', abandoned)
  BY <1>1, SpinsOn DEF BusyOK, WaitOK
<1> QED
  BY <1>2, WaitsForCall

(* An answer, to what the user waits for or to something else.             *)
LEMMA WaitsAfterAnswer ==
  ASSUME BusyOK, UNCHANGED <<page, abandoned>>,
         NEW f \in BagToSet(flights), flights' = Returned(flights, f),
         \/ f.call \in Loading /\ loader' \in {Hide(loader), Hide(Hide(loader))}
         \/ f.call \notin Loading /\ loader' = loader,
         Spins(page, view', flights', abandoned)
  PROVE  WaitOK'
<1>1. Counts(loader', flights', abandoned)
  BY CountsReturned, CountsHidden DEF BusyOK, WaitOK
<1>2. MountedBelong(page, flights')
  BY BelongReturned DEF BusyOK, WaitOK
<1> QED
  BY <1>1, <1>2 DEF WaitOK

(* An answer that nothing spins for.                                       *)
LEMMA WaitsBesideAnswer ==
  ASSUME BusyOK, UNCHANGED <<page, abandoned>>,
         NEW f \in BagToSet(flights), flights' = Returned(flights, f),
         \/ f.call \in Loading /\ loader' \in {Hide(loader), Hide(Hide(loader))}
         \/ f.call \notin Loading /\ loader' = loader,
         SameSpinners(page, view, view'), ~Spinning(f)
  PROVE  WaitOK'
<1>1. BagToSet(flights) \ {f} \subseteq BagToSet(Returned(flights, f))
  BY ReturnedCall DEF BusyOK, WaitOK, Counts
<1>2. Spins(page, view', flights', abandoned)
  BY <1>1, SpinsOn DEF BusyOK, WaitOK
<1> QED
  BY <1>2, WaitsAfterAnswer

(* An answer after which another call is made.                             *)
LEMMA WaitsForNext ==
  ASSUME BusyOK, UNCHANGED <<page, abandoned>>, NEW f \in BagToSet(flights),
         NEW c, flights' = Sent(Returned(flights, f), c), c.live => Belongs(page, c.call),
         \/ f.call \in Loading /\ c.call \in Loading /\ loader' = Show(Hide(loader))
         \/ f.call \notin Loading /\ c.call \notin Loading /\ loader' = loader
         \/ f.call \notin Loading /\ c.call \in Loading /\ loader' = Show(loader),
         Spins(page, view', flights', abandoned)
  PROVE  WaitOK'
<1>1. Counts(loader', flights', abandoned)
  <2>1. CASE f.call \in Loading /\ c.call \in Loading /\ loader' = Show(Hide(loader))
    <3>1. Counts(Hide(loader), Returned(flights, f), abandoned)
      BY <2>1, CountsReturned DEF BusyOK, WaitOK
    <3> QED
      BY <2>1, <3>1, CountsSent
  <2>2. CASE f.call \notin Loading
    <3>1. Counts(loader, Returned(flights, f), abandoned)
      BY <2>2, CountsReturned DEF BusyOK, WaitOK
    <3> QED
      BY <2>2, <3>1, CountsSent
  <2> QED
    BY <2>1, <2>2
<1>2. MountedBelong(page, flights')
  BY BelongReturned, BelongSent DEF BusyOK, WaitOK
<1> QED
  BY <1>1, <1>2 DEF WaitOK

(* What spins, when the answer was to something else.                      *)
LEMMA SpinsBesideAnswer ==
  ASSUME BusyOK, NEW f \in BagToSet(flights), NEW c, NEW w,
         SameSpinners(page, view, w), ~Spinning(f)
  PROVE  Spins(page, w, Sent(Returned(flights, f), c), abandoned)
<1>1. BagToSet(flights) \ {f} \subseteq BagToSet(Returned(flights, f))
  BY ReturnedCall DEF BusyOK, WaitOK, Counts
<1>2. BagToSet(Sent(Returned(flights, f), c)) = BagToSet(Returned(flights, f)) \cup {c}
  BY CallsOutNow
<1> QED
  BY <1>1, <1>2, SpinsOn DEF BusyOK, WaitOK

(* A page that mounts has nothing spinning.                                *)
LEMMA NothingSpins ==
  ASSUME NEW fs, NEW ended
  PROVE  /\ Spins("login", LoginView, fs, ended)
         /\ Spins("setup", SetupView, fs, ended)
         /\ Spins("home", HomeView, fs, ended)
         /\ Spins("users", UsersView, fs, ended)
         /\ Spins("namespaces", NamespacesView, fs, ended)
         /\ Spins("missing", MissingView, fs, ended)
<1>1. Spins("login", LoginView, fs, ended)
  BY DEF Spins, SpinnersOK, Awaited, LoginView
<1>2. Spins("users", UsersView, fs, ended)
  <2>1. UsersView.row = ClosedRow /\ "row" \in DOMAIN UsersView
    BY DEF UsersView
  <2>2. RowFields \subseteq DOMAIN ClosedRow /\ ClosedRow.hides = 0 /\ ~ClosedRow.progress
    BY DEF ClosedRow, RowFields
  <2> QED
    BY <2>1, <2>2 DEF Spins, SpinnersOK, Awaited
<1>3. Spins("namespaces", NamespacesView, fs, ended)
  BY DEF Spins, SpinnersOK, Awaited, NamespacesView
<1> QED
  BY <1>1, <1>2, <1>3 DEF Spins, SpinnersOK, Awaited

(* What the pages send when they mount.                                    *)
LEMMA MountingHandlers ==
  /\ MountsWith({}) /\ MountsWith(SetupCalls)
  /\ MountsWith(UsersCalls) /\ MountsWith(NamespacesCalls)
  /\ \A c \in SetupCalls : Belongs("setup", c.call)
  /\ \A c \in UsersCalls : Belongs("users", c.call)
  /\ \A c \in NamespacesCalls : Belongs("namespaces", c.call)
<1>1. {"fetchOnboardingData", "loadUsers", "loadNamespaces"} \subseteq Loading
  BY DEF Loading, Awaits
<1>2. Flight("fetchOnboardingData", NoArguments).call = "fetchOnboardingData"
  BY NewFlight
<1>3. LoadUsers(FirstUsersQuery, 1).call = "loadUsers"
  BY DEF LoadUsers, Flight
<1>4. Flight("loadNamespaces", [query |-> NamespacesRequest]).call = "loadNamespaces"
  BY NewFlight
<1>5. MountsWith({})
  BY DEF MountsWith
<1>6. MountsWith(SetupCalls) /\ \A c \in SetupCalls : Belongs("setup", c.call)
  BY <1>1, <1>2 DEF MountsWith, SetupCalls, Belongs
<1>7. MountsWith(UsersCalls) /\ \A c \in UsersCalls : Belongs("users", c.call)
  BY <1>1, <1>3 DEF MountsWith, UsersCalls, Belongs, UsersPageCalls
<1>8. MountsWith(NamespacesCalls) /\ \A c \in NamespacesCalls : Belongs("namespaces", c.call)
  BY <1>1, <1>4 DEF MountsWith, NamespacesCalls, Belongs
<1> QED
  BY <1>5, <1>6, <1>7, <1>8

(* A page that mounts over the calls of the one before.                    *)
LEMMA WaitsOnMount ==
  ASSUME NEW p, NEW initial, NEW calls, NEW l, NEW fs, FlightsOK(fs),
         Counts(l, fs, abandoned), UNCHANGED abandoned,
         MountsWith(calls), \A c \in calls : Belongs(p, c.call),
         \A gs, ended : Spins(p, initial, gs, ended),
         Mount(p, initial, calls, l, fs)
  PROVE  WaitOK'
<1>1. /\ page' = p /\ view' = initial
      /\ flights' = Orphaned(fs) (+) SetToBag(calls)
      /\ loader' = l + Cardinality(calls)
  BY DEF Mount
<1>2. Counts(loader', flights', abandoned)
  BY <1>1, CountsMounted
<1>3. MountedBelong(p, flights')
  BY <1>1, BelongMounted
<1> QED
  BY <1>1, <1>2, <1>3 DEF WaitOK

(* Going to a page mounts it or, when there already, keeps what it waits   *)
(* for.                                                                    *)
LEMMA WaitsOnEntry ==
  ASSUME NEW p, NEW initial, NEW calls, NEW l, NEW fs, FlightsOK(fs),
         Counts(l, fs, abandoned), UNCHANGED abandoned,
         MountsWith(calls), \A c \in calls : Belongs(p, c.call),
         \A gs, ended : Spins(p, initial, gs, ended),
         MountedBelong(page, fs), p = page => Spins(page, view, fs, abandoned),
         Enter(p, initial, calls, l, fs)
  PROVE  WaitOK'
<1>1. CASE Mount(p, initial, calls, l, fs)
  BY <1>1, WaitsOnMount
<1>2. CASE p = page /\ flights' = fs /\ loader' = l /\ UNCHANGED <<page, view>>
  BY <1>2 DEF WaitOK
<1> QED
  BY <1>1, <1>2 DEF Enter

(* The login page is led to.                                               *)
LEMMA WaitsAtLogin ==
  ASSUME NEW l, NEW fs, FlightsOK(fs), Counts(l, fs, abandoned), UNCHANGED abandoned,
         MountedBelong(page, fs), page = "login" => Spins(page, view, fs, abandoned),
         ToLogin(l, fs)
  PROVE  WaitOK'
BY WaitsOnEntry, NothingSpins, MountingHandlers DEF ToLogin

(* The state that all these begin in.                                      *)
LEMMA BusyNow ==
  ASSUME BusyOK
  PROVE  /\ FlightsOK(flights)
         /\ Counts(loader, flights, abandoned)
         /\ MountedBelong(page, flights)
         /\ Spins(page, view, flights, abandoned)
         /\ SpinnersOK(page, view)
         /\ SameSpinners(page, view, view)
BY SpinnersSame DEF BusyOK, ConsoleOK, WaitOK, Spins

(* What the user does on the login page; the overlay comes with its call.  *)
LEMMA LoginWaits ==
  ASSUME BusyOK, LoginNext
  PROVE  WaitOK'
<1>1. page = "login" /\ UNCHANGED <<page, loader, abandoned>>
  BY DEF LoginNext, ChangeCredential, SignIn, PressEnterToLogin
<1>2. "processing" \in DOMAIN view
  BY <1>1, BusyNow DEF SpinnersOK
<1>3. ASSUME NEW field, ChangeCredential(field) PROVE WaitOK'
  <2>1. PICK blank : view' = [view EXCEPT !.errorMsg = FALSE,
                                          !.filled = IF blank THEN @ \ {field} ELSE @ \cup {field}]
    BY <1>3 DEF ChangeCredential
  <2>2. SameSpinners(page, view, view')
    BY <1>1, <1>2, <2>1 DEF SameSpinners
  <2> QED
    BY <1>1, <1>3, <2>2, WaitsOn DEF ChangeCredential
<1>4. CASE RefuseLogin
  <2>1. SameSpinners(page, view, view')
    BY <1>1, <1>2, <1>4 DEF SameSpinners, RefuseLogin
  <2> QED
    BY <1>1, <1>4, <2>1, WaitsOn DEF RefuseLogin
<1>5. CASE SendLogin
  <2> DEFINE c == Flight("handleLogin", NoArguments)
  <2>1. /\ flights' = Sent(flights, c)
        /\ view' = [view EXCEPT !.processing = TRUE, !.errorMsg = FALSE]
    BY <1>5 DEF SendLogin
  <2>2. c.live /\ c.call = "handleLogin"
    BY NewFlight
  <2> HIDE DEF c
  <2>3. c \in BagToSet(flights')
    BY <2>1, CallsOutNow
  <2>4. Spins(page, view', flights', abandoned)
    BY <1>1, <1>2, <2>1, <2>2, <2>3 DEF Spins, SpinnersOK, Awaited, MountedCall
  <2>5. Belongs(page, c.call)
    BY <1>1, <2>2 DEF Belongs
  <2>6. flights' = Sent(flights, c) /\ UNCHANGED <<page, abandoned>>
    BY <1>1, <2>1
  <2> QED
    BY <1>1, <2>4, <2>5, <2>6, WaitsForCall
<1> QED
  BY <1>3, <1>4, <1>5 DEF LoginNext, SignIn, PressEnterToLogin

(* What the user does on the setup page.                                   *)
LEMMA SetupWaits ==
  ASSUME BusyOK, SetupNext
  PROVE  WaitOK'
<1>1. CASE LoginNow
  BY <1>1, BusyNow, WaitsAtLogin DEF LoginNow
<1>2. CASE ~LoginNow
  <2>1. page = "setup" /\ UNCHANGED <<page, abandoned>>
    BY <1>2 DEF SetupNext, ChangeDisplayName, ChangePassword, CompleteSetup, PressEnterToComplete
  <2>2. SameSpinners(page, view, view')
    BY <2>1 DEF SameSpinners
  <2>3. CASE UNCHANGED <<flights, loader>>
    BY <2>1, <2>2, <2>3, WaitsOn
  <2>4. CASE SendSetup
    <3> DEFINE c == Flight("handleUserAccountComplete", NoArguments)
    <3>1. flights' = Sent(flights, c) /\ loader' = Show(loader)
      BY <2>4 DEF SendSetup
    <3>2. c.call = "handleUserAccountComplete"
      BY NewFlight
    <3> HIDE DEF c
    <3>3. Belongs(page, c.call) /\ c.call \in Loading
      BY <2>1, <3>2 DEF Belongs, Loading, Awaits
    <3> QED
      BY <2>1, <2>2, <3>1, <3>3, WaitsBesideCall
  <2>5. UNCHANGED <<flights, loader>> \/ SendSetup
    BY <1>2 DEF SetupNext, ChangeDisplayName, ChangePassword, CompleteSetup, PressEnterToComplete
  <2> QED
    BY <2>3, <2>4, <2>5
<1> QED
  BY <1>1, <1>2

(* A page without a spinner.                                               *)
LEMMA NoSpinner ==
  ASSUME NEW p, p \notin {"login", "users", "namespaces"}
  PROVE  /\ \A v, w : SameSpinners(p, v, w)
         /\ \A v, fs, ended : Spins(p, v, fs, ended)
BY DEF SameSpinners, Spins, SpinnersOK, Awaited

(* What the user does on the namespaces page.                              *)
LEMMA NamespacesWaits ==
  ASSUME BusyOK, NamespacesNext
  PROVE  WaitOK'
<1>1. page = "namespaces" /\ UNCHANGED <<page, abandoned>>
  BY DEF NamespacesNext, OpenCreation, CloseCreation, ChangeName, ChangeDescription,
         ToggleMaintainer, SearchForMaintainers, CreateNamespace, Creating
<1>2. "searching" \in DOMAIN view
  BY <1>1, BusyNow DEF SpinnersOK
<1>3. CASE CreateNamespace
  <2> DEFINE c == Flight("validateNamespaceAvailability",
                         [name |-> view.form.name, maintainers |-> view.form.maintainers])
  <2>1. flights' = Sent(flights, c) /\ loader' = Show(loader) /\ UNCHANGED view
    BY <1>3 DEF CreateNamespace
  <2>2. c.call = "validateNamespaceAvailability"
    BY NewFlight
  <2> HIDE DEF c
  <2>3. Belongs(page, c.call) /\ c.call \in Loading
    BY <1>1, <2>2 DEF Belongs, Loading, Awaits
  <2>4. SameSpinners(page, view, view')
    BY <2>1, BusyNow
  <2> QED
    BY <1>1, <2>1, <2>3, <2>4, WaitsBesideCall
<1>4. CASE ~CreateNamespace
  <2>1. UNCHANGED <<loader, flights>>
    BY <1>4 DEF NamespacesNext, OpenCreation, CloseCreation, ChangeName, ChangeDescription,
                ToggleMaintainer, SearchForMaintainers
  <2>2. "searching" \in DOMAIN view' /\ view'.searching = view.searching
    BY <1>2, <1>4 DEF NamespacesNext, OpenCreation, CloseCreation, ChangeName,
                      ChangeDescription, ToggleMaintainer, SearchForMaintainers
  <2>3. SameSpinners(page, view, view')
    BY <1>1, <2>2 DEF SameSpinners
  <2> QED
    BY <1>1, <2>1, <2>3, WaitsOn
<1> QED
  BY <1>3, <1>4

(* The links and buttons of the layout.                                    *)
LEMMA LayoutWaits ==
  ASSUME BusyOK, LayoutNext
  PROVE  WaitOK'
<1>1. UNCHANGED abandoned
  BY DEF LayoutNext, FollowMenu, OpenManagementConsole, GoHome, Logout
<1>2. CASE FollowMenu
  <2>1. PICK to : Follow(to)
    BY <1>2 DEF FollowMenu
  <2>2. CASE Enter("users", UsersView, UsersCalls, loader, flights)
    BY <1>1, <2>2, BusyNow, NothingSpins, MountingHandlers, WaitsOnEntry
  <2>3. CASE Enter("namespaces", NamespacesView, NamespacesCalls, loader, flights)
    BY <1>1, <2>3, BusyNow, NothingSpins, MountingHandlers, WaitsOnEntry
  <2>4. CASE Enter("missing", MissingView, {}, loader, flights)
    BY <1>1, <2>4, BusyNow, NothingSpins, MountingHandlers, WaitsOnEntry
  <2> QED
    BY <2>1, <2>2, <2>3, <2>4 DEF Follow
<1>3. CASE OpenManagementConsole
  BY <1>1, <1>3, BusyNow, NothingSpins, MountingHandlers, WaitsOnMount DEF OpenManagementConsole
<1>4. CASE GoHome
  BY <1>1, <1>4, BusyNow, NothingSpins, MountingHandlers, WaitsOnEntry DEF GoHome
<1>5. CASE Logout
  <2> DEFINE c == Flight("handleLogout", NoArguments)
  <2>1. /\ flights' = Sent(flights, c) /\ UNCHANGED <<page, view, loader>>
        /\ page \in {"home", "users", "namespaces"}
    BY <1>5 DEF Logout, InLayout
  <2>2. c.call = "handleLogout"
    BY NewFlight
  <2> HIDE DEF c
  <2>3. Belongs(page, c.call)
    BY <2>1, <2>2 DEF Belongs
  <2>4. SameSpinners(page, view, view')
    BY <2>1, BusyNow
  <2> QED
    BY <1>1, <2>1, <2>3, <2>4, WaitsBesideCall
<1> QED
  BY <1>2, <1>3, <1>4, <1>5 DEF LayoutNext

(* The users page asks for its rows.                                       *)
LEMMA ReloadingWaits ==
  ASSUME BusyOK, page = "users", UNCHANGED <<page, abandoned>>,
         NEW v, SameSpinners(page, view, v), NEW query, Reloading(v, query, flights),
         loader' = Show(loader)
  PROVE  WaitOK'
<1> DEFINE n == v.asked + 1
           c == LoadUsers(query, n)
<1>1. /\ view' = [v EXCEPT !.asked = @ + 1, !.status = "waiting"]
      /\ flights' = Sent(flights, c)
  BY DEF Reloading
<1>2. SameSpinners(page, view, view')
  BY <1>1 DEF SameSpinners
<1> HIDE DEF n
<1>3. c.call = "loadUsers"
  BY ListingFields
<1> HIDE DEF c
<1>4. Belongs(page, c.call) /\ c.call \in Loading
  BY <1>3 DEF Belongs, UsersPageCalls, Loading, Awaits
<1> QED
  BY <1>1, <1>2, <1>4, WaitsBesideCall

(* A control that may ask for rows.                                        *)
LEMMA AskingWaits ==
  ASSUME BusyOK, page = "users", UNCHANGED <<page, abandoned>>,
         NEW v, SameSpinners(page, view, v), NEW query, Asking(v, query)
  PROVE  WaitOK'
<1>1. CASE query = v.query
  <2>1. view' = v /\ UNCHANGED <<flights, loader>>
    BY <1>1 DEF Asking
  <2> QED
    BY <2>1, WaitsOn
<1>2. CASE query # v.query
  <2> DEFINE w == [v EXCEPT !.query = query]
  <2>1. Reloading(w, query, flights) /\ loader' = Show(loader)
    BY <1>2 DEF Asking
  <2>2. SameSpinners(page, view, w)
    BY DEF SameSpinners
  <2> HIDE DEF w
  <2> QED
    BY <2>1, <2>2, ReloadingWaits
<1> QED
  BY <1>1, <1>2

(* The row's spinner, on the users page.                                   *)
LEMMA RowNow ==
  ASSUME BusyOK, page = "users"
  PROVE  "row" \in DOMAIN view /\ RowFields \subseteq DOMAIN view.row /\ view.row.hides \in Nat
BY BusyNow DEF SpinnersOK

(* The controls of the users page.                                         *)
LEMMA ControlsWait ==
  ASSUME BusyOK,
         \/ \E option \in ChipChoices : ToggleChip(option)
         \/ \E key \in SortKeys : Sort(key)
         \/ TurnPage
         \/ \E term \in Terms \cup {""} : Search(term)
         \/ SearchDue
  PROVE  WaitOK'
<1>1. page = "users" /\ UNCHANGED <<page, abandoned>>
  BY DEF ToggleChip, Sort, TurnPage, Search, SearchDue, OnUsersPage
<1>2. /\ "row" \in DOMAIN view /\ RowFields \subseteq DOMAIN view.row
      /\ SameSpinners(page, view, view)
  BY <1>1, RowNow, BusyNow
<1>3. ASSUME NEW option, ToggleChip(option) PROVE WaitOK'
  <2> DEFINE chips == IF option \in view.chips THEN view.chips \ {option}
                      ELSE view.chips \cup {option}
             query == Filtered(view.query, chips)
             w == [view EXCEPT !.chips = chips, !.query = query]
  <2>1. Reloading(w, query, flights) /\ loader' = Show(loader)
    BY <1>3 DEF ToggleChip
  <2> HIDE DEF chips, query
  <2>2. SameSpinners(page, view, w)
    BY <1>1, <1>2 DEF SameSpinners
  <2> HIDE DEF w
  <2> QED
    BY <1>1, <2>1, <2>2, ReloadingWaits
<1>4. ASSUME NEW key, Sort(key) PROVE WaitOK'
  BY <1>1, <1>2, <1>4, AskingWaits DEF Sort
<1>5. CASE TurnPage
  <2>1. PICK index : Asking(view, Paged(view.query, index, view.length))
    BY <1>5 DEF TurnPage
  <2> QED
    BY <1>1, <1>2, <2>1, AskingWaits
<1>6. ASSUME NEW term, Search(term) PROVE WaitOK'
  <2>1. UNCHANGED <<loader, flights>> /\ view' = [view EXCEPT !.due = Append(@, term)]
    BY <1>6 DEF Search
  <2>2. SameSpinners(page, view, view')
    BY <1>1, <1>2, <2>1 DEF SameSpinners
  <2> QED
    BY <1>1, <2>1, <2>2, WaitsOn
<1>7. CASE SearchDue
  <2> DEFINE v == [view EXCEPT !.due = Tail(@)]
             query == Searched(view.query, Head(view.due))
  <2>1. Asking(v, query)
    BY <1>7 DEF SearchDue
  <2>2. SameSpinners(page, view, v)
    BY <1>1, <1>2 DEF SameSpinners
  <2> HIDE DEF v, query
  <2> QED
    BY <1>1, <2>1, <2>2, AskingWaits
<1> QED
  BY <1>3, <1>4, <1>5, <1>6, <1>7

(* Typing in the dialogs and opening them.                                 *)
LEMMA DialogsWait ==
  ASSUME BusyOK,
         \/ ToggleInvitation
         \/ \E email \in Emails \cup {""} : ChangeEmail(email)
         \/ \E username \in Usernames \cup {""} : ChangeUsername(username)
         \/ OpenRow
         \/ \E email \in Emails \cup {""} : ChangeRowEmail(email)
         \/ ChangeRowDetails
  PROVE  WaitOK'
<1>1. page = "users" /\ UNCHANGED <<page, loader, flights, abandoned>>
  BY DEF ToggleInvitation, ChangeEmail, ChangeUsername, OpenRow, OnUsersPage, ChangeRowEmail,
         ChangeRowDetails, Inviting, InRow
<1>2. "row" \in DOMAIN view /\ RowFields \subseteq DOMAIN view.row
  BY <1>1, RowNow
<1>3. SameSpinners("users", view, view')
  <2>1. CASE ToggleInvitation \/ OpenRow
    BY <1>2, <2>1 DEF SameSpinners, RowFields, ToggleInvitation, OpenRow
  <2>2. ASSUME NEW email, ChangeEmail(email) PROVE SameSpinners("users", view, view')
    BY <1>2, <2>2 DEF SameSpinners, ChangeEmail
  <2>3. ASSUME NEW username, ChangeUsername(username) PROVE SameSpinners("users", view, view')
    BY <1>2, <2>3 DEF SameSpinners, ChangeUsername
  <2>4. ASSUME NEW email, ChangeRowEmail(email) PROVE SameSpinners("users", view, view')
    BY <1>2, <2>4 DEF SameSpinners, RowFields, ChangeRowEmail
  <2>5. CASE ChangeRowDetails
    BY <1>2, <2>5 DEF SameSpinners, RowFields, ChangeRowDetails
  <2> QED
    BY <2>1, <2>2, <2>3, <2>4, <2>5
<1> QED
  BY <1>1, <1>3, WaitsOn

(* The dialogs' calls.                                                     *)
LEMMA InviteWaits ==
  ASSUME BusyOK, Invite
  PROVE  WaitOK'
<1> DEFINE c == Flight("validateUsernameEmailAPICall", FormArguments)
<1>1. /\ page = "users" /\ UNCHANGED <<page, view, abandoned>>
      /\ flights' = Sent(flights, c) /\ loader' = Show(loader)
  BY DEF Invite, Inviting
<1>2. c.call = "validateUsernameEmailAPICall"
  BY NewFlight
<1> HIDE DEF c
<1>3. Belongs(page, c.call) /\ c.call \in Loading
  BY <1>1, <1>2 DEF Belongs, UsersPageCalls, Loading, Awaits
<1>4. SameSpinners(page, view, view')
  BY <1>1, BusyNow
<1> QED
  BY <1>1, <1>3, <1>4, WaitsBesideCall

(* The row's spinner comes with its call.                                  *)
LEMMA UpdateRowWaits ==
  ASSUME BusyOK, UpdateRow
  PROVE  WaitOK'
<1> DEFINE call == IF view.row.email = "own" THEN "updateUserAccount" ELSE "valiateUser"
           c == Flight(call, RowArguments)
<1>1. page = "users" /\ UNCHANGED <<page, loader, abandoned>>
  BY DEF UpdateRow, InRow
<1>2. "row" \in DOMAIN view /\ RowFields \subseteq DOMAIN view.row /\ view.row.hides \in Nat
  BY <1>1, RowNow
<1>3. CASE RefuseUpdate
  <2>1. UNCHANGED flights /\ SameSpinners("users", view, view')
    BY <1>2, <1>3 DEF RefuseUpdate, SameSpinners, RowFields
  <2> QED
    BY <1>1, <2>1, WaitsOn
<1>4. CASE SendUpdate
  <2>1. flights' = Sent(flights, c) /\ view' = [view EXCEPT !.row.progress = TRUE]
    BY <1>4 DEF SendUpdate
  <2>2. call \in {"valiateUser", "updateUserAccount"}
    OBVIOUS
  <2>3. c.live /\ c.call = call /\ c.arg = RowArguments
    BY NewFlight
  <2> HIDE DEF call, c
  <2>4. RowCallHere(c)
    BY <2>2, <2>3 DEF RowCallHere, RowArguments
  <2>5. c \in BagToSet(flights')
    <3>1. BagToSet(Sent(flights, c)) = BagToSet(flights) \cup {c}
      BY CallsOutNow
    <3> QED
      BY <2>1, <3>1
  <2>6. /\ "row" \in DOMAIN view' /\ RowFields \subseteq DOMAIN view'.row
        /\ view'.row.hides \in Nat
    BY <1>2, <2>1 DEF RowFields
  <2>7. Spins(page, view', flights', abandoned)
    BY <1>1, <2>4, <2>5, <2>6 DEF Spins, SpinnersOK, Awaited
  <2>8. Belongs(page, c.call)
    BY <1>1, <2>2, <2>3 DEF Belongs, UsersPageCalls
  <2> QED
    BY <1>1, <2>1, <2>7, <2>8, WaitsForCall
<1> QED
  BY <1>3, <1>4 DEF UpdateRow

(* A deletion shows no spinner.                                            *)
LEMMA DeleteRowWaits ==
  ASSUME BusyOK, DeleteRow
  PROVE  WaitOK'
<1> DEFINE c == Flight("deleteUser", RowArguments)
<1>1. /\ page = "users" /\ UNCHANGED <<page, view, loader, abandoned>>
      /\ flights' = Sent(flights, c)
  BY DEF DeleteRow, InRow
<1>2. c.call = "deleteUser"
  BY NewFlight
<1> HIDE DEF c
<1>3. Belongs(page, c.call)
  BY <1>1, <1>2 DEF Belongs, UsersPageCalls
<1>4. SameSpinners(page, view, view')
  BY <1>1, BusyNow
<1> QED
  BY <1>1, <1>3, <1>4, WaitsBesideCall

(* Closing the row's dialog reloads the users.                             *)
LEMMA CloseRowWaits ==
  ASSUME BusyOK, CloseRow
  PROVE  WaitOK'
<1> DEFINE w == [view EXCEPT !.row.open = FALSE, !.inviting = FALSE]
<1>1. /\ page = "users" /\ UNCHANGED <<page, abandoned>>
      /\ Reloading(w, view.query, flights) /\ loader' = Show(loader)
  BY DEF CloseRow, InRow
<1>2. "row" \in DOMAIN view /\ RowFields \subseteq DOMAIN view.row
  BY <1>1, RowNow
<1>3. SameSpinners(page, view, w)
  BY <1>1, <1>2 DEF SameSpinners, RowFields
<1> HIDE DEF w
<1> QED
  BY <1>1, <1>3, ReloadingWaits

(* Whatever the user does on the users page.                               *)
LEMMA UsersWait ==
  ASSUME BusyOK, UsersNext
  PROVE  WaitOK'
BY ControlsWait, DialogsWait, InviteWaits, UpdateRowWaits, DeleteRowWaits, CloseRowWaits
   DEF UsersNext

(* The other calls stay out, whatever is answered.                         *)
LEMMA OthersOut ==
  ASSUME BusyOK, NEW f \in BagToSet(flights)
  PROVE  /\ BagToSet(flights) \ {f} \subseteq BagToSet(Returned(flights, f))
         /\ \A c : BagToSet(flights) \ {f} \subseteq BagToSet(Sent(Returned(flights, f), c))
<1>1. BagToSet(flights) \ {f} \subseteq BagToSet(Returned(flights, f))
  BY ReturnedCall DEF BusyOK, WaitOK, Counts
<1>2. ASSUME NEW c PROVE BagToSet(flights) \ {f} \subseteq BagToSet(Sent(Returned(flights, f), c))
  <2>1. BagToSet(Sent(Returned(flights, f), c)) = BagToSet(Returned(flights, f)) \cup {c}
    BY CallsOutNow
  <2> QED
    BY <1>1, <2>1
<1> QED
  BY <1>1, <1>2

(* The page of a mounted handler.                                          *)
LEMMA PageOfCall ==
  ASSUME BusyOK, NEW f \in BagToSet(flights), f.live
  PROVE  /\ f.call = "handleLogin" => page = "login"
         /\ f.call \in {"fetchOnboardingData", "handleUserAccountComplete"} => page = "setup"
         /\ f.call \in UsersPageCalls \ {"handleLogout"} => page = "users"
         /\ f.call \in {"loadNamespaces", "validateNamespaceAvailability", "saveNamespace",
                        "searchMaintainers"} => page = "namespaces"
<1>1. Belongs(page, f.call)
  BY BusyNow DEF MountedBelong
<1> QED
  BY <1>1 DEF Belongs, UsersPageCalls

(* The answer to a login takes the overlay of its page away, or the page.  *)
LEMMA LoginAnswerWaits ==
  ASSUME BusyOK, NEW f \in BagToSet(flights), NEW outcome, LoginAnswered(f, outcome)
  PROVE  WaitOK'
<1>1. f.call = "handleLogin" /\ f.call \notin Loading /\ UNCHANGED abandoned
  BY DEF LoginAnswered, Loading
<1>2. CASE Failed(outcome)
  <2>1. /\ flights' = Returned(flights, f) /\ UNCHANGED <<page, loader>>
        /\ view' = IF f.live THEN [view EXCEPT !.processing = FALSE,
                                               !.errorMsg = (outcome.kind = "message")]
                   ELSE view
    BY <1>2 DEF LoginAnswered
  <2>2. CASE f.live
    <3>1. page = "login"
      BY <1>1, <2>2, PageOfCall
    <3>2. "processing" \in DOMAIN view
      BY <3>1, BusyNow DEF SpinnersOK
    <3>3. "processing" \in DOMAIN view' /\ view'.processing = FALSE
      BY <2>1, <2>2, <3>2
    <3>4. Spins(page, view', flights', abandoned)
      BY <3>1, <3>3 DEF Spins, SpinnersOK, Awaited
    <3> QED
      BY <1>1, <2>1, <3>4, WaitsAfterAnswer
  <2>3. CASE ~f.live
    <3>1. ~Spinning(f)
      BY <2>3 DEF Spinning, RowCallHere
    <3>2. SameSpinners(page, view, view')
      BY <2>1, <2>3, BusyNow
    <3> QED
      BY <1>1, <2>1, <3>1, <3>2, WaitsBesideAnswer
  <2> QED
    BY <2>2, <2>3
<1>3. CASE ~Failed(outcome)
  <2>1. Enter("home", HomeView, {}, loader, Returned(flights, f))
    BY <1>3 DEF LoginAnswered
  <2>2. FlightsOK(Returned(flights, f)) /\ MountedBelong(page, Returned(flights, f))
    BY ReturnedPage, BelongReturned, BusyNow DEF BusyOK
  <2>3. Counts(loader, Returned(flights, f), abandoned)
    BY <1>1, BusyNow, CountsReturned
  <2>4. \A v, fs, ended : Spins("home", v, fs, ended)
    BY NoSpinner
  <2> QED
    BY <1>1, <2>1, <2>2, <2>3, <2>4, MountingHandlers, WaitsOnEntry
<1> QED
  BY <1>2, <1>3

(* The answer to a logout leads to the login page, whose overlay has its   *)
(* own call.                                                               *)
LEMMA LogoutAnswerWaits ==
  ASSUME BusyOK, NEW f \in BagToSet(flights), NEW outcome, LoggedOut(f, outcome)
  PROVE  WaitOK'
<1>1. /\ f.call = "handleLogout" /\ UNCHANGED abandoned
      /\ ToLogin(loader, Returned(flights, f))
  BY DEF LoggedOut
<1>2. f.call \notin Loading /\ ~Spinning(f)
  BY <1>1 DEF Loading, Spinning, RowCallHere
<1>3. FlightsOK(Returned(flights, f)) /\ MountedBelong(page, Returned(flights, f))
  BY ReturnedPage, BelongReturned, BusyNow DEF BusyOK
<1>4. Counts(loader, Returned(flights, f), abandoned)
  BY <1>2, BusyNow, CountsReturned
<1>5. Spins(page, view, Returned(flights, f), abandoned)
  BY <1>2, BusyNow, OthersOut, SpinsOn
<1> QED
  BY <1>1, <1>3, <1>4, <1>5, WaitsAtLogin

(* The answers on the setup page.                                          *)
LEMMA SetupAnswersWait ==
  ASSUME BusyOK, NEW f \in BagToSet(flights), NEW outcome,
         OnboardingDataFetched(f, outcome) \/ SetupAnswered(f, outcome)
  PROVE  WaitOK'
<1>1. /\ f.call \in {"fetchOnboardingData", "handleUserAccountComplete"}
      /\ flights' = Returned(flights, f) /\ loader' = Hide(loader)
      /\ UNCHANGED <<page, abandoned>>
  BY DEF OnboardingDataFetched, SetupAnswered
<1>2. f.call \in Loading /\ ~Spinning(f)
  BY <1>1 DEF Loading, Awaits, Spinning, RowCallHere
<1>3. SameSpinners(page, view, view')
  <2>1. CASE f.live
    <3>1. page = "setup"
      BY <1>1, <2>1, PageOfCall
    <3> QED
      BY <3>1, NoSpinner
  <2>2. CASE ~f.live
    <3>1. view' = view
      BY <2>2 DEF OnboardingDataFetched, SetupAnswered
    <3> QED
      BY <3>1, BusyNow
  <2> QED
    BY <2>1, <2>2
<1> QED
  BY <1>1, <1>2, <1>3, WaitsBesideAnswer

(* A listing without rows closes the row with its spinner; its handlers    *)
(* find no dialog.                                                         *)
LEMMA UsersListedWaits ==
  ASSUME BusyOK, NEW f \in BagToSet(flights), NEW outcome, UsersListed(f, outcome)
  PROVE  WaitOK'
<1>1. f.call = "loadUsers" /\ loader' = Hide(loader) /\ UNCHANGED <<page, abandoned>>
  BY DEF UsersListed
<1>2. f.call \in Loading /\ ~Spinning(f)
  BY <1>1 DEF Loading, Awaits, Spinning, RowCallHere
<1>3. CASE flights' = Returned(flights, f) /\ UNCHANGED view
  <2>1. SameSpinners(page, view, view')
    BY <1>3, BusyNow
  <2> QED
    BY <1>1, <1>2, <1>3, <2>1, WaitsBesideAnswer
<1>4. CASE /\ f.live
           /\ \E total \in Totals :
                \E account \in IF Entities(f.arg.query, total) = 0 THEN {NoAccount} ELSE Accounts :
                  /\ view' = Listed(view, f, account, total)
                  /\ flights' = Orphans(Returned(flights, f), account)
  <2>1. PICK total, account :
          /\ view' = Listed(view, f, account, total)
          /\ flights' = Orphans(Returned(flights, f), account)
    BY <1>4
  <2>2. FlightsOK(Returned(flights, f)) /\ MountedBelong(page, Returned(flights, f))
    BY ReturnedPage, BelongReturned, BusyNow DEF BusyOK
  <2>3. Counts(Hide(loader), Returned(flights, f), abandoned)
    BY <1>2, BusyNow, CountsReturned
  <2>4. Counts(loader', flights', abandoned)
    BY <1>1, <2>1, <2>2, <2>3, CountsOrphans
  <2>5. MountedBelong(page, flights')
    BY <2>1, <2>2, BelongOrphans
  <2>6. page = "users"
    BY <1>1, <1>4, PageOfCall DEF UsersPageCalls
  <2>7. "row" \in DOMAIN view /\ RowFields \subseteq DOMAIN view.row /\ view.row.hides \in Nat
    BY <2>6, RowNow
  <2> DEFINE shown == [view EXCEPT
               !.rows = ListRequest(f.arg.query),
               !.length = Padded(Entities(f.arg.query, total), total),
               !.status = CASE view.status = "waiting" /\ f.arg.nr = view.asked -> "settled"
                            [] view.status = "settled" /\ f.arg.nr # view.asked -> "upset"
                            [] OTHER -> view.status,
               !.account = account]
  <2>8. "row" \in DOMAIN shown /\ shown.row = view.row
    BY <2>7
  <2>9. view' = IF account = NoAccount THEN [shown EXCEPT !.row = ClosedRow]
                ELSE [shown EXCEPT !.row.email = "own", !.row.changed = FALSE]
    BY <2>1 DEF Listed
  <2> HIDE DEF shown
  <2>10. CASE account = NoAccount
    <3>1. "row" \in DOMAIN view' /\ view'.row = ClosedRow
      BY <2>8, <2>9, <2>10
    <3>2. RowFields \subseteq DOMAIN ClosedRow /\ ClosedRow.hides = 0 /\ ~ClosedRow.progress
      BY DEF ClosedRow, RowFields
    <3>3. Spins(page, view', flights', abandoned)
      BY <2>6, <3>1, <3>2 DEF Spins, SpinnersOK, Awaited
    <3> QED
      BY <1>1, <2>4, <2>5, <3>3 DEF WaitOK
  <2>11. CASE account # NoAccount
    <3>1. /\ "row" \in DOMAIN view' /\ RowFields \subseteq DOMAIN view'.row
          /\ view'.row.hides = view.row.hides /\ view'.row.progress = view.row.progress
      BY <2>7, <2>8, <2>9, <2>11 DEF RowFields
    <3>2. SameSpinners(page, view, view')
      BY <2>6, <3>1 DEF SameSpinners
    <3>3. flights' = Returned(flights, f)
      BY <2>1, <2>11 DEF Orphans
    <3> QED
      BY <1>1, <1>2, <3>2, <3>3, WaitsBesideAnswer
  <2> QED
    BY <2>10, <2>11
<1> QED
  BY <1>3, <1>4 DEF UsersListed

(* The check of an invitation.                                             *)
LEMMA UserValidatedWaits ==
  ASSUME BusyOK, NEW f \in BagToSet(flights), NEW outcome, UserValidated(f, outcome)
  PROVE  WaitOK'
<1>1. f.call = "validateUsernameEmailAPICall" /\ UNCHANGED <<page, abandoned>>
  BY DEF UserValidated
<1>2. f.call \in Loading /\ ~Spinning(f)
  BY <1>1 DEF Loading, Awaits, Spinning, RowCallHere
<1>3. CASE flights' = Returned(flights, f) /\ loader' = Hide(loader) /\ UNCHANGED view
  <2>1. SameSpinners(page, view, view')
    BY <1>3, BusyNow
  <2> QED
    BY <1>1, <1>2, <1>3, <2>1, WaitsBesideAnswer
<1>4. ASSUME NEW field, UserTaken(f, field) PROVE WaitOK'
  <2>1. /\ flights' = Returned(flights, f) /\ loader' = Hide(Hide(loader))
        /\ view' = IF f.live THEN [view EXCEPT !.form.taken = @ \cup {field}] ELSE view
    BY <1>4 DEF UserTaken
  <2>2. CASE f.live
    <3>1. page = "users"
      BY <1>1, <2>2, PageOfCall DEF UsersPageCalls
    <3>2. "row" \in DOMAIN view /\ RowFields \subseteq DOMAIN view.row
      BY <3>1, RowNow
    <3>3. SameSpinners(page, view, view')
      BY <2>1, <2>2, <3>1, <3>2 DEF SameSpinners
    <3> QED
      BY <1>1, <1>2, <2>1, <3>3, WaitsBesideAnswer
  <2>3. CASE ~f.live
    <3>1. SameSpinners(page, view, view')
      BY <2>1, <2>3, BusyNow
    <3> QED
      BY <1>1, <1>2, <2>1, <3>1, WaitsBesideAnswer
  <2> QED
    BY <2>2, <2>3
<1>5. CASE UserFree(f)
  <2> DEFINE c == GoesOn(f, "createUserAccountAPICall", Pair(f.arg))
  <2>1. /\ flights' = Sent(Returned(flights, f), c) /\ loader' = Show(Hide(loader))
        /\ UNCHANGED view
    BY <1>5 DEF UserFree
  <2>2. c.call = "createUserAccountAPICall" /\ c.live = f.live
    BY FollowingFlight DEF BusyOK, ConsoleOK, FlightsOK
  <2> HIDE DEF c
  <2>3. c.call \in Loading
    BY <2>2 DEF Loading, Awaits
  <2>4. c.live => Belongs(page, c.call)
    BY <1>1, <2>2, PageOfCall DEF Belongs, UsersPageCalls
  <2>5. Spins(page, view', flights', abandoned)
    BY <1>2, <2>1, BusyNow, SpinsBesideAnswer
  <2> QED
    BY <1>1, <1>2, <2>1, <2>3, <2>4, <2>5, WaitsForNext
<1> QED
  BY <1>3, <1>4, <1>5 DEF UserValidated

(* The callback of the dialogs.                                            *)
LEMMA HideDialogsWaits ==
  ASSUME BusyOK, NEW f \in BagToSet(flights), UNCHANGED <<page, abandoned>>, NEW v, NEW l,
         \/ f.call \in Loading /\ l = Hide(loader)
         \/ f.call \notin Loading /\ l = loader,
         f.live => page = "users",
         ~f.live => v = view,
         \A c : Spins(page, v, Sent(Returned(flights, f), c), abandoned),
         HideDialogs(f, v, l, Returned(flights, f))
  PROVE  WaitOK'
<1>1. loader' = Show(l)
  BY DEF HideDialogs
<1>2. CASE ~f.live
  <2> DEFINE c == [LoadUsers(f.arg.query, 0) EXCEPT !.live = FALSE]
  <2>1. flights' = Sent(Returned(flights, f), c) /\ view' = v
    BY <1>2 DEF HideDialogs
  <2>2. ~c.live
    BY ListingCall
  <2>3. c.call = "loadUsers"
    BY DEF LoadUsers, Flight
  <2> HIDE DEF c
  <2>4. c.call \in Loading
    BY <2>3 DEF Loading, Awaits
  <2>5. Spins(page, view', flights', abandoned)
    BY <2>1
  <2> QED
    BY <1>1, <2>1, <2>2, <2>4, <2>5, WaitsForNext
<1>3. CASE f.live
  <2> DEFINE n == v.asked + 1
             c == LoadUsers(f.arg.query, n)
  <2>1. /\ flights' = Sent(Returned(flights, f), c)
        /\ view' = [v EXCEPT !.inviting = FALSE, !.asked = @ + 1,
                             !.status = IF f.arg.query = v.query THEN "waiting" ELSE "upset"]
    BY <1>3 DEF HideDialogs
  <2> HIDE DEF n
  <2>2. c.call = "loadUsers"
    BY ListingFields
  <2> HIDE DEF c
  <2>3. Belongs(page, c.call) /\ c.call \in Loading
    BY <1>3, <2>2 DEF Belongs, UsersPageCalls, Loading, Awaits
  <2>4. Spins(page, v, flights', abandoned)
    BY <2>1
  <2>5. "row" \in DOMAIN v /\ RowFields \subseteq DOMAIN v.row
    BY <1>3, <2>4 DEF Spins, SpinnersOK
  <2>6. SameSpinners(page, v, view')
    BY <1>3, <2>1, <2>5 DEF SameSpinners
  <2>7. Spins(page, view', flights', abandoned)
    BY <2>4, <2>6, SpinsOn
  <2> QED
    BY <1>1, <2>1, <2>3, <2>7, WaitsForNext
<1> QED
  BY <1>2, <1>3

(* The creation of an invited user, after which the users reload.          *)
LEMMA UserCreatedWaits ==
  ASSUME BusyOK, NEW f \in BagToSet(flights), NEW outcome, UserCreated(f, outcome)
  PROVE  WaitOK'
<1> DEFINE v == IF f.live THEN [view EXCEPT !.form = NewForm] ELSE view
<1>1. f.call = "createUserAccountAPICall" /\ UNCHANGED <<page, abandoned>>
  BY DEF UserCreated
<1>2. f.call \in Loading /\ ~Spinning(f)
  BY <1>1 DEF Loading, Awaits, Spinning, RowCallHere
<1>3. CASE flights' = Returned(flights, f) /\ loader' = Hide(loader) /\ UNCHANGED view
  <2>1. SameSpinners(page, view, view')
    BY <1>3, BusyNow
  <2> QED
    BY <1>1, <1>2, <1>3, <2>1, WaitsBesideAnswer
<1>4. CASE HideDialogs(f, v, Hide(loader), Returned(flights, f))
  <2>1. f.live => page = "users"
    BY <1>1, PageOfCall DEF UsersPageCalls
  <2>2. ~f.live => v = view
    OBVIOUS
  <2>3. SameSpinners(page, view, v)
    <3>1. CASE f.live
      <4>1. "row" \in DOMAIN view /\ RowFields \subseteq DOMAIN view.row
        BY <2>1, <3>1, RowNow
      <4> QED
        BY <2>1, <3>1, <4>1 DEF SameSpinners
    <3>2. CASE ~f.live
      BY <2>2, <3>2, BusyNow
    <3> QED
      BY <3>1, <3>2
  <2> HIDE DEF v
  <2>4. \A c : Spins(page, v, Sent(Returned(flights, f), c), abandoned)
    BY <1>2, <2>3, SpinsBesideAnswer
  <2> QED
    BY <1>1, <1>2, <1>4, <2>1, <2>2, <2>4, HideDialogsWaits
<1> QED
  BY <1>3, <1>4 DEF UserCreated

(* The spinner of the row, when one of its handlers has its answer: the    *)
(* timer that ends it runs.                                                *)
LEMMA EndingSpins ==
  ASSUME BusyOK, NEW f \in BagToSet(flights), f.call \in HttpClientHandlers,
         NEW gs, BagToSet(flights) \ {f} \subseteq BagToSet(gs)
  PROVE  /\ Spins(page, Ending(f, view), gs, abandoned)
         /\ f.live /\ f.arg.here =>
              /\ Spins(page, [Ending(f, view) EXCEPT !.row.taken = TRUE], gs, abandoned)
              /\ Spins(page, [Ending(f, view) EXCEPT !.row.open = ~@], gs, abandoned)
<1> DEFINE w == Ending(f, view)
<1>1. CASE f.live /\ f.arg.here
  <2>1. page = "users"
    BY <1>1, PageOfCall DEF UsersPageCalls, HttpClientHandlers
  <2>2. "row" \in DOMAIN view /\ RowFields \subseteq DOMAIN view.row /\ view.row.hides \in Nat
    BY <2>1, RowNow
  <2>3. w = [view EXCEPT !.row.hides = @ + 1]
    BY <1>1 DEF Ending
  <2>4. /\ "row" \in DOMAIN w /\ RowFields \subseteq DOMAIN w.row
        /\ w.row.hides \in Nat /\ w.row.hides > 0
    BY <2>2, <2>3 DEF RowFields
  <2> HIDE DEF w
  <2>5. Spins(page, w, gs, abandoned)
    BY <2>1, <2>4 DEF Spins, SpinnersOK, Awaited
  <2>6. /\ SameSpinners(page, w, [w EXCEPT !.row.taken = TRUE])
        /\ SameSpinners(page, w, [w EXCEPT !.row.open = ~@])
    BY <2>1, <2>4 DEF SameSpinners, RowFields
  <2>7. /\ Spins(page, [w EXCEPT !.row.taken = TRUE], gs, abandoned)
        /\ Spins(page, [w EXCEPT !.row.open = ~@], gs, abandoned)
    BY <2>5, <2>6, SpinsOn
  <2> QED
    BY <2>5, <2>7 DEF w
<1>2. CASE ~(f.live /\ f.arg.here)
  <2>1. w = view
    BY <1>2 DEF Ending
  <2>2. ~Spinning(f)
    BY <1>2 DEF Spinning, RowCallHere, HttpClientHandlers
  <2> QED
    BY <1>2, <2>1, <2>2, BusyNow, SpinsOn
<1> QED
  BY <1>1, <1>2

(* A handler of the row that ends, and one whose change is done.           *)
LEMMA RowEndsWaits ==
  ASSUME BusyOK, NEW f \in BagToSet(flights), f.call \in HttpClientHandlers,
         UNCHANGED <<page, abandoned>>, RowFailed(f) \/ RowDone(f)
  PROVE  WaitOK'
<1>1. f.call \notin Loading
  BY DEF Loading, Awaits, HttpClientHandlers
<1>2. CASE RowFailed(f)
  <2>1. /\ view' = Ending(f, view) /\ flights' = Returned(flights, f) /\ loader' = loader
    BY <1>2 DEF RowFailed
  <2>2. Spins(page, view', flights', abandoned)
    BY <2>1, EndingSpins, OthersOut
  <2> QED
    BY <1>1, <2>1, <2>2, WaitsAfterAnswer
<1>3. CASE RowDone(f)
  <2> DEFINE v == IF f.live /\ f.arg.here
                  THEN [Ending(f, view) EXCEPT !.row.open = ~@] ELSE view
  <2>1. HideDialogs(f, v, loader, Returned(flights, f))
    BY <1>3 DEF RowDone
  <2>2. f.live => page = "users"
    BY PageOfCall DEF UsersPageCalls, HttpClientHandlers
  <2>3. ~f.live => v = view
    OBVIOUS
  <2>4. ASSUME NEW c PROVE Spins(page, v, Sent(Returned(flights, f), c), abandoned)
    <3>1. BagToSet(flights) \ {f} \subseteq BagToSet(Sent(Returned(flights, f), c))
      BY OthersOut
    <3>2. CASE f.live /\ f.arg.here
      BY <3>1, <3>2, EndingSpins
    <3>3. CASE ~(f.live /\ f.arg.here)
      <4>1. v = Ending(f, view)
        BY <3>3 DEF Ending
      <4> HIDE DEF v
      <4> QED
        BY <3>1, <4>1, EndingSpins
    <3> QED
      BY <3>2, <3>3
  <2> HIDE DEF v
  <2> QED
    BY <1>1, <2>1, <2>2, <2>3, <2>4, HideDialogsWaits
<1> QED
  BY <1>2, <1>3

(* The check of a new address passes the spinner to the change that        *)
(* follows, or ends it.                                                    *)
LEMMA RowValidatedWaits ==
  ASSUME BusyOK, NEW f \in BagToSet(flights), NEW outcome, RowValidated(f, outcome)
  PROVE  WaitOK'
<1>1. f.call = "valiateUser" /\ UNCHANGED <<page, abandoned>>
  BY DEF RowValidated, RowAnswered
<1>2. f.call \in HttpClientHandlers /\ f.call \notin Loading
  BY <1>1 DEF Loading, Awaits, HttpClientHandlers
<1>3. CASE RowFailed(f)
  BY <1>1, <1>2, <1>3, RowEndsWaits
<1>4. CASE /\ view' = IF f.live /\ f.arg.here
                      THEN [Ending(f, view) EXCEPT !.row.taken = TRUE] ELSE view
           /\ flights' = Returned(flights, f)
           /\ loader' = loader
  <2>1. BagToSet(flights) \ {f} \subseteq BagToSet(flights')
    BY <1>4, OthersOut
  <2>2. CASE f.live /\ f.arg.here
    <3>1. Spins(page, view', flights', abandoned)
      BY <1>2, <1>4, <2>1, <2>2, EndingSpins
    <3> QED
      BY <1>1, <1>2, <1>4, <3>1, WaitsAfterAnswer
  <2>3. CASE ~(f.live /\ f.arg.here)
    <3>1. view' = Ending(f, view)
      BY <1>4, <2>3 DEF Ending
    <3>2. Spins(page, view', flights', abandoned)
      BY <1>2, <2>1, <3>1, EndingSpins
    <3> QED
      BY <1>1, <1>2, <1>4, <3>2, WaitsAfterAnswer
  <2> QED
    BY <2>2, <2>3
<1>5. CASE /\ flights' = Sent(Returned(flights, f),
                              GoesOn(f, "updateUserAccount", <<f.arg.email>>))
           /\ UNCHANGED <<view, loader>>
  <2> DEFINE c == GoesOn(f, "updateUserAccount", <<f.arg.email>>)
  <2>1. flights' = Sent(Returned(flights, f), c)
    BY <1>5
  <2>2. c.call = "updateUserAccount" /\ c.live = f.live /\ c.arg = f.arg
    BY FollowingFlight DEF BusyOK, ConsoleOK, FlightsOK
  <2> HIDE DEF c
  <2>3. c.call \notin Loading
    BY <2>2 DEF Loading, Awaits
  <2>4. c.live => Belongs(page, c.call)
    BY <1>1, <2>2, PageOfCall DEF Belongs, UsersPageCalls
  <2>5. Spins(page, view', flights', abandoned)
    <3>1. BagToSet(flights) \ {f} \subseteq BagToSet(flights')
      BY <2>1, OthersOut
    <3>2. CASE f.live /\ f.arg.here
      <4>1. page = "users"
        BY <1>1, <3>2, PageOfCall DEF UsersPageCalls
      <4>2. RowCallHere(c)
        BY <2>2, <3>2 DEF RowCallHere
      <4>3. BagToSet(flights') = BagToSet(Returned(flights, f)) \cup {c}
        BY <2>1, CallsOutNow
      <4>4. SpinnersOK(page, view')
        BY <1>5, BusyNow
      <4> QED
        BY <4>1, <4>2, <4>3, <4>4 DEF Spins, Awaited
    <3>3. CASE ~(f.live /\ f.arg.here)
      <4>1. view' = Ending(f, view)
        BY <1>5, <3>3 DEF Ending
      <4> QED
        BY <1>2, <3>1, <4>1, EndingSpins
    <3> QED
      BY <3>2, <3>3
  <2> QED
    BY <1>1, <1>2, <1>5, <2>1, <2>3, <2>4, <2>5, WaitsForNext
<1> QED
  BY <1>3, <1>4, <1>5 DEF RowValidated

(* The answers on the namespaces page.                                     *)
LEMMA NamespacesAnswersWait ==
  ASSUME BusyOK, NEW f \in BagToSet(flights), NEW outcome,
         NamespacesListed(f, outcome) \/ NamespaceSaved(f, outcome)
  PROVE  WaitOK'
<1>1. /\ f.call \in {"loadNamespaces", "saveNamespace"}
      /\ flights' = Returned(flights, f) /\ loader' = Hide(loader)
      /\ UNCHANGED <<page, abandoned>>
  BY DEF NamespacesListed, NamespaceSaved
<1>2. f.call \in Loading /\ ~Spinning(f)
  BY <1>1 DEF Loading, Awaits, Spinning, RowCallHere
<1>3. SameSpinners(page, view, view')
  <2>1. CASE f.live
    <3>1. page = "namespaces"
      BY <1>1, <2>1, PageOfCall
    <3>2. "searching" \in DOMAIN view
      BY <3>1, BusyNow DEF SpinnersOK
    <3>3. "searching" \in DOMAIN view' /\ view'.searching = view.searching
      BY <2>1, <3>2 DEF NamespacesListed, NamespaceSaved
    <3> QED
      BY <3>1, <3>3 DEF SameSpinners
  <2>2. CASE ~f.live
    <3>1. view' = view
      BY <2>2 DEF NamespacesListed, NamespaceSaved
    <3> QED
      BY <3>1, BusyNow
  <2> QED
    BY <2>1, <2>2
<1> QED
  BY <1>1, <1>2, <1>3, WaitsBesideAnswer

(* The check of a namespace's name, and the creation that follows it.      *)
LEMMA NameValidatedWaits ==
  ASSUME BusyOK, NEW f \in BagToSet(flights), NEW outcome, NameValidated(f, outcome)
  PROVE  WaitOK'
<1>1. f.call = "validateNamespaceAvailability" /\ UNCHANGED <<page, view, abandoned>>
  BY DEF NameValidated
<1>2. f.call \in Loading /\ ~Spinning(f)
  BY <1>1 DEF Loading, Awaits, Spinning, RowCallHere
<1>3. SameSpinners(page, view, view')
  BY <1>1, BusyNow
<1>4. CASE flights' = Returned(flights, f) /\ loader' = Hide(loader)
  BY <1>1, <1>2, <1>3, <1>4, WaitsBesideAnswer
<1>5. CASE /\ flights' = Sent(Returned(flights, f), GoesOn(f, "saveNamespace", <<f.arg.name>>))
           /\ loader' = Show(Hide(loader))
  <2> DEFINE c == GoesOn(f, "saveNamespace", <<f.arg.name>>)
  <2>1. flights' = Sent(Returned(flights, f), c)
    BY <1>5
  <2>2. c.call = "saveNamespace" /\ c.live = f.live
    BY FollowingFlight DEF BusyOK, ConsoleOK, FlightsOK
  <2> HIDE DEF c
  <2>3. c.call \in Loading
    BY <2>2 DEF Loading, Awaits
  <2>4. c.live => Belongs(page, c.call)
    BY <1>1, <2>2, PageOfCall DEF Belongs
  <2>5. Spins(page, view', flights', abandoned)
    BY <1>2, <1>3, <2>1, SpinsBesideAnswer
  <2> QED
    BY <1>1, <1>2, <1>5, <2>1, <2>3, <2>4, <2>5, WaitsForNext
<1> QED
  BY <1>4, <1>5 DEF NameValidated

(* The first answer takes the spinner away that all searches share.        *)
LEMMA MaintainersFoundWaits ==
  ASSUME BusyOK, NEW f \in BagToSet(flights), NEW outcome, MaintainersFound(f, outcome)
  PROVE  WaitOK'
<1>1. /\ f.call = "searchMaintainers" /\ f.call \notin Loading
      /\ flights' = Returned(flights, f) /\ UNCHANGED <<page, loader, abandoned>>
  BY DEF MaintainersFound, Loading
<1>2. CASE f.live
  <2>1. page = "namespaces"
    BY <1>1, <1>2, PageOfCall
  <2>2. "searching" \in DOMAIN view
    BY <2>1, BusyNow DEF SpinnersOK
  <2>3. "searching" \in DOMAIN view' /\ view'.searching = FALSE
    BY <1>2, <2>2 DEF MaintainersFound
  <2>4. Spins(page, view', flights', abandoned)
    BY <2>1, <2>3 DEF Spins, SpinnersOK, Awaited
  <2> QED
    BY <1>1, <2>4, WaitsAfterAnswer
<1>3. CASE ~f.live
  <2>1. view' = view
    BY <1>3 DEF MaintainersFound
  <2>2. ~Spinning(f) /\ SameSpinners(page, view, view')
    BY <1>3, <2>1, BusyNow DEF Spinning, RowCallHere
  <2> QED
    BY <1>1, <2>2, WaitsBesideAnswer
<1> QED
  BY <1>2, <1>3

(* A handler that ends at its await: what it would have taken away stays,  *)
(* and is counted.                                                         *)
LEMMA RejectedWaits ==
  ASSUME BusyOK, NEW f \in BagToSet(flights), Rejected(f)
  PROVE  WaitOK'
<1>1. /\ f.call \in DOMAIN Awaits
      /\ flights' = Returned(flights, f) /\ abandoned' = BagAdd(abandoned, f.call)
      /\ UNCHANGED <<page, view, loader>>
  BY DEF Rejected
<1>2. Counts(loader', flights', abandoned')
  BY <1>1, BusyNow, CountsRejected
<1>3. MountedBelong(page, flights')
  BY <1>1, BusyNow, BelongReturned
<1>4. BagToSet(abandoned') = BagToSet(abandoned) \cup {f.call}
  BY <1>1, BusyNow, HandlerEnds DEF Counts
<1>5. BagToSet(flights) \ {f} \subseteq BagToSet(flights')
  BY <1>1, OthersOut
<1>6. ~RowCallHere(f)
  BY <1>1 DEF Awaits, RowCallHere
<1>7. Spins(page, view', flights', abandoned')
  <2>1. SpinnersOK(page, view') /\ Awaited(page, view', flights, abandoned)
    BY <1>1, BusyNow DEF Spins
  <2>2. ASSUME NEW call, MountedCall(flights, call) \/ call \in BagToSet(abandoned)
        PROVE  MountedCall(flights', call) \/ call \in BagToSet(abandoned')
    BY <1>4, <1>5, <2>2 DEF MountedCall
  <2>3. (\E g \in BagToSet(flights) : RowCallHere(g)) =>
          \E g \in BagToSet(flights') : RowCallHere(g)
    BY <1>5, <1>6
  <2> QED
    BY <2>1, <2>2, <2>3 DEF Spins, Awaited
<1> QED
  BY <1>1, <1>2, <1>3, <1>7 DEF WaitOK

(* Whatever is answered.                                                   *)
LEMMA AnswerWaits ==
  ASSUME BusyOK, Answer
  PROVE  WaitOK'
<1>1. PICK f \in BagToSet(flights) : Answers(f)
  BY DEF Answer
<1>2. CASE Rejected(f)
  BY <1>2, RejectedWaits
<1>3. ASSUME NEW outcome, RowUpdated(f, outcome) \/ RowDeleted(f, outcome) PROVE WaitOK'
  <2>1. /\ UNCHANGED page /\ (RowFailed(f) \/ RowDone(f))
        /\ f.call \in HttpClientHandlers /\ UNCHANGED abandoned
    BY <1>3 DEF RowUpdated, RowDeleted, RowAnswered, HttpClientHandlers
  <2> QED
    BY <2>1, RowEndsWaits
<1>4. ASSUME NEW outcome,
             \/ LoginAnswered(f, outcome)
             \/ LoggedOut(f, outcome)
             \/ OnboardingDataFetched(f, outcome)
             \/ SetupAnswered(f, outcome)
             \/ UsersListed(f, outcome)
             \/ UserValidated(f, outcome)
      PROVE  WaitOK'
  BY <1>4, LoginAnswerWaits, LogoutAnswerWaits, SetupAnswersWait, UsersListedWaits,
     UserValidatedWaits
<1>5. ASSUME NEW outcome,
             \/ UserCreated(f, outcome)
             \/ NamespacesListed(f, outcome)
             \/ NameValidated(f, outcome)
             \/ NamespaceSaved(f, outcome)
             \/ MaintainersFound(f, outcome)
             \/ RowValidated(f, outcome)
      PROVE  WaitOK'
  BY <1>5, UserCreatedWaits, NamespacesAnswersWait, NameValidatedWaits, MaintainersFoundWaits,
     RowValidatedWaits
<1> QED
  BY <1>1, <1>2, <1>3, <1>4, <1>5, ZenonT(60) DEF Answers

(* The timers.                                                             *)
LEMMA TimersWait ==
  ASSUME BusyOK, Timer \/ RedirectDue \/ LoadLogin
  PROVE  WaitOK'
<1>1. CASE SearchDue
  BY <1>1, ControlsWait
<1>2. CASE MaintainerSearchDue
  <2>1. PICK term : flights' = Sent(flights, Flight("searchMaintainers",
                                                    [request |-> MaintainersRequest(term)]))
    BY <1>2 DEF MaintainerSearchDue
  <2> DEFINE c == Flight("searchMaintainers", [request |-> MaintainersRequest(term)])
  <2>2. c.live /\ c.call = "searchMaintainers" /\ flights' = Sent(flights, c)
    BY <2>1, NewFlight
  <2> HIDE DEF c
  <2>3. /\ page = "namespaces" /\ UNCHANGED <<page, loader, abandoned>>
        /\ view' = [view EXCEPT !.pending = {}, !.searching = TRUE]
    BY <1>2 DEF MaintainerSearchDue
  <2>4. Belongs(page, c.call)
    BY <2>2, <2>3 DEF Belongs
  <2>5. MountedCall(flights', "searchMaintainers")
    <3>1. BagToSet(Sent(flights, c)) = BagToSet(flights) \cup {c}
      BY CallsOutNow
    <3> QED
      BY <2>2, <3>1 DEF MountedCall
  <2>6. "searching" \in DOMAIN view'
    BY <2>3, BusyNow DEF SpinnersOK
  <2>7. Spins(page, view', flights', abandoned)
    BY <2>3, <2>5, <2>6 DEF Spins, SpinnersOK, Awaited
  <2> QED
    BY <2>2, <2>3, <2>4, <2>7, WaitsForCall
<1>3. CASE HideProgress
  <2>1. /\ page = "users" /\ UNCHANGED <<page, loader, flights, abandoned>>
        /\ view.row.hides > 0
        /\ view' = [view EXCEPT !.row.hides = @ - 1, !.row.progress = FALSE]
    BY <1>3 DEF HideProgress
  <2>2. "row" \in DOMAIN view /\ RowFields \subseteq DOMAIN view.row /\ view.row.hides \in Nat
    BY <2>1, RowNow
  <2>3. /\ "row" \in DOMAIN view' /\ RowFields \subseteq DOMAIN view'.row
        /\ view'.row.hides \in Nat /\ view'.row.progress = FALSE
    <3> DEFINE w == [view EXCEPT !.row.hides = @ - 1]
    <3>1. /\ "row" \in DOMAIN w /\ RowFields \subseteq DOMAIN w.row
          /\ w.row.hides \in Nat
      BY <2>1, <2>2 DEF RowFields
    <3>2. view' = [w EXCEPT !.row.progress = FALSE]
      BY <2>1
    <3> HIDE DEF w
    <3> QED
      BY <3>1, <3>2 DEF RowFields
  <2>4. Spins(page, view', flights, abandoned)
    BY <2>1, <2>3 DEF Spins, SpinnersOK, Awaited
  <2> QED
    BY <2>1, <2>4, BusyNow DEF WaitOK
<1>4. CASE RedirectDue
  BY <1>4, BusyNow, WaitsAtLogin DEF RedirectDue
<1>5. CASE LoadLogin
  <2>1. /\ page' = "login" /\ view' = LoginView /\ loader' = 0
        /\ flights' = EmptyBag /\ abandoned' = EmptyBag
    BY <1>5 DEF LoadLogin
  <2>2. Counts(0, EmptyBag, EmptyBag)
    BY NoCalls DEF Counts
  <2>3. MountedBelong("login", EmptyBag)
    BY DEF MountedBelong, EmptyBag, SetToBag, BagToSet
  <2>4. Spins("login", LoginView, EmptyBag, EmptyBag)
    BY NothingSpins
  <2> QED
    BY <2>1, <2>2, <2>3, <2>4 DEF WaitOK
<1> QED
  BY <1>1, <1>2, <1>3, <1>4, <1>5 DEF Timer
-----------------------------------------------------------------------------
(* Theorems                                                                *)

(* A page that is loaded.                                                  *)
LEMMA ConsoleStarts ==
  ASSUME Init
  PROVE  ConsoleOK
<1>1. ASSUME NEW p, NEW initial, NEW calls, Loaded(p, initial, calls),
             \A c \in calls : FlightOK(c), p # "users"
      PROVE  ConsoleOK
  <2>1. page = p /\ flights = SetToBag(calls)
    BY <1>1 DEF Loaded
  <2>2. BagToSet(flights) = calls
    BY <2>1, CallsOutNow
  <2> QED
    BY <1>1, <2>1, <2>2 DEF ConsoleOK, FlightsOK
<1>2. CASE Loaded("users", UsersView, UsersCalls)
  <2>1. page = "users" /\ view = UsersView /\ flights = SetToBag(UsersCalls)
    BY <1>2 DEF Loaded
  <2>2. BagToSet(flights) = UsersCalls
    BY <2>1, CallsOutNow
  <2>3. FlightsOK(flights)
    BY <2>2, MountingCalls DEF FlightsOK
  <2>4. TableOK(UsersView)
    BY DEF UsersView, TableOK
  <2>5. MountedOK(UsersView, LoadUsers(FirstUsersQuery, 1))
    BY FirstListing
  <2>6. UsersOK(view, flights)
    BY <2>1, <2>2, <2>4, <2>5 DEF UsersOK, UsersCalls
  <2> QED
    BY <2>3, <2>6 DEF ConsoleOK
<1> QED
  BY <1>1, <1>2, MountingCalls DEF Init

(* The invariant is kept by every step.                                    *)
LEMMA ConsoleStep ==
  ASSUME ConsoleOK, [Next]_vars
  PROVE  ConsoleOK'
<1>1. CASE UNCHANGED vars
  BY <1>1 DEF vars, ConsoleOK
<1>2. CASE Next
  BY <1>2, LoginSteps, SetupSteps, UsersSteps, NamespacesSteps, LayoutSteps, AnswerSteps,
     TimerSteps DEF Next
<1> QED
  BY <1>1, <1>2

(* The invariant holds throughout.                                         *)
THEOREM ConsoleInvariant == Spec => []ConsoleOK
<1>1. Init => ConsoleOK
  BY ConsoleStarts
<1>2. ConsoleOK /\ [Next]_vars => ConsoleOK'
  BY ConsoleStep
<1> QED
  BY <1>1, <1>2, PTL DEF Spec

(* What CreateUserAccount, UserAccountView and CreateNamespace send to be  *)
(* stored was checked with the same values, however the fields were edited *)
(* while the check was out.                                                *)
THEOREM StoredWasChecked == Spec => []SentAsChecked
<1>1. ConsoleOK => SentAsChecked
  BY DEF ConsoleOK, FlightsOK, FlightOK, Checked, SentAsChecked
<1> QED
  BY <1>1, ConsoleInvariant, PTL

(* Once the latest listing of UserAdministrationPage was answered, with no *)
(* older answer after it and no dialog's query, the table shows what the   *)
(* controls ask for.                                                       *)
THEOREM TableShowsAsked == Spec => []TableAsAsked
<1>1. ConsoleOK => TableAsAsked
  BY DEF ConsoleOK, UsersOK, TableOK, TableAsAsked
<1> QED
  BY <1>1, ConsoleInvariant, PTL

(* What the user waits for is under way from the start.                    *)
LEMMA WaitStarts ==
  ASSUME Init
  PROVE  WaitOK
<1>1. ASSUME NEW p, NEW initial, NEW calls, Loaded(p, initial, calls),
             MountsWith(calls), \A c \in calls : Belongs(p, c.call),
             \A fs, ended : Spins(p, initial, fs, ended)
      PROVE  WaitOK
  <2>1. /\ page = p /\ view = initial /\ abandoned = EmptyBag
        /\ flights = SetToBag(calls) /\ loader = Cardinality(calls)
    BY <1>1 DEF Loaded
  <2>2. Counts(0, EmptyBag, EmptyBag)
    BY NoCalls DEF Counts
  <2>3. CASE calls = {}
    <3>1. SetToBag(calls) = EmptyBag /\ Cardinality(calls) = 0
      BY <2>3, FS_EmptySet DEF EmptyBag
    <3>2. Counts(loader, flights, abandoned)
      BY <2>1, <2>2, <3>1
    <3>3. MountedBelong(page, flights)
      BY <1>1, <2>1, CallsOutNow DEF MountedBelong
    <3> QED
      BY <1>1, <2>1, <3>2, <3>3 DEF WaitOK
  <2>4. ASSUME NEW c, calls = {c}, c.call \in Loading PROVE WaitOK
    <3>1. flights = Sent(EmptyBag, c)
      BY <2>1, <2>4, NoCalls, MountSends
    <3>2. Cardinality(calls) = 1
      BY <2>4, FS_Singleton
    <3>3. loader = Show(0)
      BY <2>1, <3>2 DEF Show
    <3>4. Counts(loader, flights, abandoned)
      BY <2>1, <2>2, <2>4, <3>1, <3>3, CountsSent
    <3>5. MountedBelong(page, flights)
      BY <1>1, <2>1, CallsOutNow DEF MountedBelong
    <3> QED
      BY <1>1, <2>1, <3>4, <3>5 DEF WaitOK
  <2> QED
    BY <1>1, <2>3, <2>4 DEF MountsWith
<1> QED
  BY <1>1, NothingSpins, MountingHandlers DEF Init

(* Both invariants are kept by every step.                                 *)
LEMMA WaitStep ==
  ASSUME BusyOK, [Next]_vars
  PROVE  BusyOK'
<1>1. ConsoleOK'
  BY ConsoleStep DEF BusyOK
<1>2. CASE UNCHANGED vars
  BY <1>2 DEF vars, BusyOK, ConsoleOK, WaitOK
<1>3. CASE Next
  <2>1. WaitOK'
    BY <1>3, LoginWaits, SetupWaits, UsersWait, NamespacesWaits, LayoutWaits, AnswerWaits,
       TimersWait DEF Next
  <2> QED
    BY <1>1, <2>1 DEF BusyOK
<1> QED
  BY <1>2, <1>3

(* What the pages tell the user to wait for is under way: the count of     *)
(* LoaderProvider is covered by the handlers that are out and those a      *)
(* rejected promise ended, and the login's overlay, the row's spinner and  *)
(* the search's have each a handler or a timer that takes them away.       *)
THEOREM BusyOnlyWaiting == Spec => []BusyMeansWaiting
<1>1. Init => BusyOK
  BY ConsoleStarts, WaitStarts DEF BusyOK
<1>2. BusyOK /\ [Next]_vars => BusyOK'
  BY WaitStep
<1>3. BusyOK => BusyMeansWaiting
  <2> SUFFICES ASSUME BusyOK PROVE BusyMeansWaiting
    OBVIOUS
  <2>1. /\ Counts(loader, flights, abandoned) /\ Awaited(page, view, flights, abandoned)
    BY DEF BusyOK, WaitOK, Spins
  <2>2. HandlersOut = Handlers(flights) /\ HandlersEnded = Ended(abandoned)
    BY DEF HandlersOut, HandlersEnded, Handlers, HandlerFlights, Ended
  <2>3. \A call : MountedCall(flights, call) => Mounted({call}) # {}
    BY DEF MountedCall, Mounted, CallsOut
  <2>4. \A f \in BagToSet(flights) : RowCallHere(f) =>
          f \in Mounted({"valiateUser", "updateUserAccount"}) /\ f.arg.here
    BY DEF RowCallHere, Mounted, CallsOut
  <2> QED
    BY <2>1, <2>2, <2>3, <2>4 DEF BusyMeansWaiting, Counts, Awaited
<1> QED
  BY <1>1, <1>2, <1>3, PTL DEF Spec
=============================================================================
