--------------------------- MODULE NamespacesPage ---------------------------
(***************************************************************************)
(* The namespaces page: its table, which is loaded once, the dialog that   *)
(* creates a namespace, and that dialog's search for maintainers.          *)
(***************************************************************************)
EXTENDS Shell

CONSTANTS
  Names,         \* what is typed as a name, all well formed
  Maintainers,   \* the users a search may suggest
  SearchTerms    \* what is searched for among them

ASSUME NamespacesAssumption == "" \notin Names \cup SearchTerms

\* Nothing on the page changes what it asks for.
NamespacesRequest ==
  QuerySerialized([limit |-> {8}, page |-> {1}, sort_by |-> {"name"},
                   order |-> {"asc"}, search |-> {}])

\* The search among maintainers: FALSE is sent as locked, unlike the users
\* page, which leaves it out.
MaintainersRequest(term) ==
  QuerySerialized([limit |-> {50}, page |-> {1}, sort_by |-> {"username"},
                   order |-> {"asc"}, search |-> {term} \ {""},
                   role |-> {"Maintainer"}, locked |-> {FALSE}])

NewNamespace ==
  [name |-> "", description |-> FALSE, maintainers |-> {}, suggestions |-> {}]

\* pending: the debounce timer's term; searching: the spinner in the field.
NamespacesView ==
  [rows |-> <<>>, creating |-> FALSE, form |-> NewNamespace, pending |-> {},
   searching |-> FALSE]

NamespacesCalls == {Flight("loadNamespaces", [query |-> NamespacesRequest])}

NamespacesListed(f, outcome) ==
  /\ f.call = "loadNamespaces"
  /\ Answered(f, outcome)
  /\ flights' = Returned(flights, f)
  /\ loader' = Hide(loader)
  /\ view' = IF f.live /\ outcome.kind = "data"
             THEN [view EXCEPT !.rows = f.arg.query] ELSE view
  /\ UNCHANGED <<page, redirects, gestures, abandoned>>

--------------------------------------------------------------------------
(* The dialog.                                                             *)

OpenCreation ==
  /\ page = "namespaces"
  /\ ~view.creating
  /\ view' = [view EXCEPT !.creating = TRUE]
  /\ UNCHANGED <<page, loader, flights, reload, redirects, gestures, abandoned>>

Creating == page = "namespaces" /\ view.creating

\* Closing resets the fields, and unmounts the search with its timer.
CloseCreation ==
  /\ Creating
  /\ view' = [view EXCEPT !.creating = FALSE, !.form = NewNamespace,
                          !.pending = {}]
  /\ UNCHANGED <<page, loader, flights, reload, redirects, gestures, abandoned>>

ChangeName(name) ==
  /\ Creating
  /\ view' = [view EXCEPT !.form.name = name]
  /\ UNCHANGED <<page, loader, flights, reload, redirects, gestures, abandoned>>

ChangeDescription ==
  /\ Creating
  /\ view' = [view EXCEPT !.form.description = ~@]
  /\ UNCHANGED <<page, loader, flights, reload, redirects, gestures, abandoned>>

\* A suggestion is ticked or unticked.
ToggleMaintainer(m) ==
  /\ Creating
  /\ m \in view.form.suggestions
  /\ view' = [view EXCEPT !.form.maintainers = IF m \in @ THEN @ \ {m}
                                               ELSE @ \cup {m}]
  /\ UNCHANGED <<page, loader, flights, reload, redirects, gestures, abandoned>>

\* Each change of the search field starts the timer anew.
SearchForMaintainers(term) ==
  /\ Creating
  /\ Call
  /\ view' = [view EXCEPT !.pending = {term}]
  /\ UNCHANGED <<page, loader, flights, reload, redirects, abandoned>>

MaintainerSearchDue ==
  /\ page = "namespaces"
  /\ \E term \in view.pending :
       flights' = Sent(flights, Flight("searchMaintainers",
                                       [request |-> MaintainersRequest(term)]))
  /\ view' = [view EXCEPT !.pending = {}, !.searching = TRUE]
  /\ UNCHANGED <<page, loader, reload, redirects, gestures, abandoned>>

\* Answers are taken as they come.  An error with a message empties the
\* suggestions; no match, or an error without one, leaves them.
MaintainersFound(f, outcome) ==
  /\ f.call = "searchMaintainers"
  /\ Answered(f, outcome)
  /\ flights' = Returned(flights, f)
  /\ \E found \in SUBSET Maintainers :
       view' = IF ~f.live THEN view
               ELSE [view EXCEPT
                 !.searching = FALSE,
                 !.form.suggestions =
                   CASE outcome.kind = "message"               -> {}
                     [] outcome.kind = "data" /\ found # {}    -> found
                     [] OTHER                                  -> @]
  /\ UNCHANGED <<page, loader, redirects, gestures, abandoned>>

FormComplete ==
  view.form.name # "" /\ view.form.description /\ view.form.maintainers # {}

CreateNamespace ==
  /\ Creating
  /\ Call
  /\ FormComplete
  /\ flights' = Sent(flights, Flight("validateNamespaceAvailability",
                                     [name |-> view.form.name,
                                      maintainers |-> view.form.maintainers]))
  /\ loader' = Show(loader)
  /\ UNCHANGED <<page, view, reload, redirects, abandoned>>

\* As below, but an error leaves before the loader is hidden.
NameValidated_Shown(f, outcome) ==
  /\ f.call = "validateNamespaceAvailability"
  /\ Answered(f, outcome)
  /\ \/ /\ Failed(outcome)
        /\ flights' = Returned(flights, f)
        /\ UNCHANGED loader
     \/ /\ ~Failed(outcome)
        /\ loader' = Show(Hide(loader))
        /\ flights' = Sent(Returned(flights, f),
                           GoesOn(f, "saveNamespace", <<f.arg.name>>))
  /\ UNCHANGED <<page, view, redirects, gestures, abandoned>>

\* The answer comes as text, whose "available" is undefined: the name is
\* reported taken, and created all the same.  Only an error stops it.
NameValidated(f, outcome) ==
  /\ f.call = "validateNamespaceAvailability"
  /\ Answered(f, outcome)
  /\ \/ /\ Failed(outcome)
        /\ loader' = Hide(loader)
        /\ flights' = Returned(flights, f)
     \/ /\ ~Failed(outcome)
        /\ loader' = Show(Hide(loader))
        /\ flights' = Sent(Returned(flights, f),
                           GoesOn(f, "saveNamespace", <<f.arg.name>>))
  /\ UNCHANGED <<page, view, redirects, gestures, abandoned>>

\* Success empties the form, whatever has been typed since; the dialog stays
\* open and the table is not loaded again.
NamespaceSaved(f, outcome) ==
  /\ f.call = "saveNamespace"
  /\ Answered(f, outcome)
  /\ flights' = Returned(flights, f)
  /\ loader' = Hide(loader)
  /\ view' = IF f.live /\ ~Failed(outcome)
             THEN [view EXCEPT !.form = NewNamespace] ELSE view
  /\ UNCHANGED <<page, redirects, gestures, abandoned>>
=============================================================================
