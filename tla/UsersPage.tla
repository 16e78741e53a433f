----------------------------- MODULE UsersPage -----------------------------
(***************************************************************************)
(* The users page: the table and the controls that ask for its rows, the   *)
(* dialog that invites a user, and the dialog of one row's account.  The   *)
(* rows are named by the request they answered; of the rows, the model     *)
(* follows the first one's account, whose dialog is kept by the row and    *)
(* not by the account.                                                     *)
(***************************************************************************)
EXTENDS Shell

CONSTANTS
  Emails, Usernames,   \* what is typed, all well formed
  Terms,               \* what is searched for
  ChipChoices,         \* the filter options that are ticked
  SortKeys,            \* the columns that are sorted by
  Totals,              \* how many users a listing may count
  Accounts,            \* whose row may come first
  NoAccount            \* there is no row, or one of the padding

UserFilterOptions ==
  {"Role:Admin", "Role:Maintainer", "Role:Developer", "Role:Guest",
   "Status:locked", "Status:unlocked"}

UnselectedByDefault == {"Status:locked", "Status:unlocked"}

ASSUME UsersAssumption ==
  /\ "" \notin Emails \cup Usernames \cup Terms
  /\ ChipChoices \subseteq UserFilterOptions
  /\ Totals \subseteq Nat
  /\ NoAccount \notin Accounts

RoleOf == [o \in UserFilterOptions \ UnselectedByDefault |->
             CASE o = "Role:Admin"      -> "Admin"
               [] o = "Role:Maintainer" -> "Maintainer"
               [] o = "Role:Developer"  -> "Developer"
               [] o = "Role:Guest"      -> "Guest"]

--------------------------------------------------------------------------
(* What the controls ask for.                                              *)

FirstUsersQuery ==
  [page |-> 1, limit |-> 8, key |-> "username", order |-> 1, search |-> {},
   roles |-> {}, locked |-> FALSE]

\* The request for a query's rows: only TRUE is sent as locked, and no role
\* at all when none is ticked.
ListRequest(query) ==
  QuerySerialized(
    [limit |-> {query.limit}, page |-> {query.page}, sort_by |-> {query.key},
     order |-> {IF query.order = -1 THEN "desc" ELSE "asc"},
     search |-> query.search, role |-> query.roles,
     locked |-> IF query.locked THEN {TRUE} ELSE {}])

Filtered(query, chips) ==
  [query EXCEPT
     !.roles  = {RoleOf[o] : o \in chips \ UnselectedByDefault},
     !.locked = (chips \cap UnselectedByDefault = {"Status:locked"})]

\* The same column turns the order round, another one starts ascending.
SortedBy(query, key) ==
  [query EXCEPT
     !.key = key,
     !.order = IF key # query.key THEN 1
               ELSE CASE @ = 1  -> -1
                      [] @ = -1 -> 1
                      [] OTHER  -> 0]

\* The table counts its pages by its rows: those that came, and what the loop
\* pads, whose bound shrinks while it counts, half of those that did not.
Entities(query, total) ==
  LET before == (query.page - 1) * query.limit
  IN CASE total <= before                               -> 0
       [] before < total /\ total < before + query.limit -> total - before
       [] OTHER                                         -> query.limit

Padded(entities, total) == entities + (total - entities + 1) \div 2

PageCount(length, limit) == (length + limit - 1) \div limit

\* The event's pageCount, the number of pages, becomes the limit.
Paged(query, index, length) ==
  [query EXCEPT !.page = index + 1, !.limit = PageCount(length, query.limit)]

Searched(query, term) ==
  [query EXCEPT !.search = IF term = "" THEN {} ELSE {term}]

--------------------------------------------------------------------------
(* The page's state.                                                       *)

NewForm == [email |-> "", username |-> "", taken |-> {}]

ClosedRow == [open |-> FALSE, email |-> "own", changed |-> FALSE,
              taken |-> FALSE, progress |-> FALSE, hides |-> 0]

\* status: "settled" once the latest request was answered well, "waiting" before
\* that; "upset" when an older answer came after it, or when the latest request
\* was a dialog's, made with the query of when the dialog's handler began.
UsersView ==
  [query |-> FirstUsersQuery, asked |-> 1, rows |-> <<>>, status |-> "waiting",
   length |-> 0, due |-> <<>>, chips |-> UserFilterOptions \ UnselectedByDefault,
   inviting |-> FALSE, form |-> NewForm, account |-> NoAccount,
   row |-> ClosedRow]

LoadUsers(query, nr) == Flight("loadUsers", [query |-> query, nr |-> nr])

UsersCalls == {LoadUsers(FirstUsersQuery, 1)}

\* loadUsers: of the render that ran it, the page's query or an older one.
Reloading(v, query, fs) ==
  /\ view' = [v EXCEPT !.asked = @ + 1, !.status = "waiting"]
  /\ flights' = Sent(fs, LoadUsers(query, v.asked + 1))

\* The effect: a changed query loads its rows.
Asking(v, query) ==
  IF query = v.query
  THEN view' = v /\ UNCHANGED <<flights, loader>>
  ELSE /\ Reloading([v EXCEPT !.query = query], query, flights)
       /\ loader' = Show(loader)

\* The user works on the page itself, no modal dialog being open.
OnUsersPage ==
  /\ page = "users"
  /\ ~view.inviting
  /\ ~view.row.open

\* An answer is shown whatever has been asked meanwhile; each answer makes the
\* fields of the row's dialog those of the account now in the row.  A first row
\* of padding, on a page beyond the last account, is taken for no row: its dialog
\* would stay, for an account without an id.
Listed(v, f, account, total) ==
  LET latest == f.arg.nr = v.asked
      shown  == [v EXCEPT
        !.rows = ListRequest(f.arg.query),
        !.length = Padded(Entities(f.arg.query, total), total),
        !.status = CASE v.status = "waiting" /\ latest  -> "settled"
                     [] v.status = "settled" /\ ~latest -> "upset"
                     [] OTHER                           -> v.status,
        !.account = account]
  IN IF account = NoAccount
     THEN [shown EXCEPT !.row = ClosedRow]
     ELSE [shown EXCEPT !.row.email = "own", !.row.changed = FALSE]

\* The handlers of a row that is gone find no dialog to close.
OfNoRow(f) ==
  IF f.call \in HttpClientHandlers THEN [f EXCEPT !.arg.here = FALSE] ELSE f

Orphans(fs, account) ==
  IF account # NoAccount THEN fs
  ELSE [g \in {OfNoRow(f) : f \in BagToSet(fs)} |->
          Copies(g, fs) + IF g.call \in HttpClientHandlers
                          THEN Copies([g EXCEPT !.arg.here = TRUE], fs) ELSE 0]

UsersListed(f, outcome) ==
  /\ f.call = "loadUsers"
  /\ Answered(f, outcome)
  /\ loader' = Hide(loader)
  /\ \/ /\ f.live
        /\ outcome.kind = "data"
        /\ \E total \in Totals :
             \E account \in IF Entities(f.arg.query, total) = 0
                            THEN {NoAccount} ELSE Accounts :
               /\ view' = Listed(view, f, account, total)
               /\ flights' = Orphans(Returned(flights, f), account)
     \/ /\ ~f.live \/ outcome.kind # "data"
        /\ flights' = Returned(flights, f)
        /\ UNCHANGED view
  /\ UNCHANGED <<page, redirects, gestures, abandoned>>

--------------------------------------------------------------------------
(* The controls.                                                           *)

\* As written, but the load is that of the closure before the change.
ToggleChip_Stale(option) ==
  /\ OnUsersPage
  /\ Call
  /\ LET chips == IF option \in view.chips THEN view.chips \ {option}
                  ELSE view.chips \cup {option}
         query == Filtered(view.query, chips)
     IN Reloading([view EXCEPT !.chips = chips, !.query = query], view.query,
                  flights)
  /\ loader' = Show(loader)
  /\ UNCHANGED <<page, reload, redirects, abandoned>>

ToggleChip(option) ==
  /\ OnUsersPage
  /\ Call
  /\ LET chips == IF option \in view.chips THEN view.chips \ {option}
                  ELSE view.chips \cup {option}
         query == Filtered(view.query, chips)
     IN Reloading([view EXCEPT !.chips = chips, !.query = query], query, flights)
  /\ loader' = Show(loader)
  /\ UNCHANGED <<page, reload, redirects, abandoned>>

Sort(key) ==
  /\ OnUsersPage
  /\ Call
  /\ Asking(view, SortedBy(view.query, key))
  /\ UNCHANGED <<page, reload, redirects, abandoned>>

TurnPage ==
  /\ OnUsersPage
  /\ Call
  /\ \E index \in 0..(PageCount(view.length, view.query.limit) - 1) :
       Asking(view, Paged(view.query, index, view.length))
  /\ UNCHANGED <<page, reload, redirects, abandoned>>

\* Each change of the search field is applied 100 ms later, in order.
Search(term) ==
  /\ OnUsersPage
  /\ Call
  /\ view' = [view EXCEPT !.due = Append(@, term)]
  /\ UNCHANGED <<page, loader, flights, reload, redirects, abandoned>>

SearchDue ==
  /\ page = "users"
  /\ view.due # <<>>
  /\ Asking([view EXCEPT !.due = Tail(@)], Searched(view.query, Head(view.due)))
  /\ UNCHANGED <<page, reload, redirects, gestures, abandoned>>
=============================================================================
