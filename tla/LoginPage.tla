----------------------------- MODULE LoginPage -----------------------------
(***************************************************************************)
(* The login page.  Its two fields are blank or not; the message is shown  *)
(* or not.  The page has no loader: an overlay of its own (processing)     *)
(* covers the form, which the Enter key reaches all the same.              *)
(***************************************************************************)
EXTENDS Shell

LoginView == [filled |-> {}, processing |-> FALSE, errorMsg |-> FALSE]

ToLogin(l, fs) == Enter("login", LoginView, {}, l, fs)

isFormValid == view.filled = {"username", "password"}

\* Typing into a field takes the message away.
ChangeCredential(field) ==
  /\ page = "login"
  /\ \E blank \in BOOLEAN :
       view' = [view EXCEPT !.errorMsg = FALSE,
                            !.filled = IF blank THEN @ \ {field}
                                       ELSE @ \cup {field}]
  /\ UNCHANGED <<page, loader, flights, reload, redirects, gestures, abandoned>>

\* A blank field is only reported.
RefuseLogin ==
  /\ ~isFormValid
  /\ view' = [view EXCEPT !.errorMsg = TRUE]
  /\ UNCHANGED <<flights, gestures>>

SendLogin ==
  /\ isFormValid
  /\ Call
  /\ view' = [view EXCEPT !.processing = TRUE, !.errorMsg = FALSE]
  /\ flights' = Sent(flights, Flight("handleLogin", NoArguments))

\* The button is disabled for blank fields and while a login is processed...
SignIn ==
  /\ page = "login"
  /\ ~view.processing
  /\ SendLogin
  /\ UNCHANGED <<page, loader, reload, redirects, abandoned>>

\* ... the Enter key is not.
PressEnterToLogin ==
  /\ page = "login"
  /\ RefuseLogin \/ SendLogin
  /\ UNCHANGED <<page, loader, reload, redirects, abandoned>>

\* After the await.  An error without a message shows none; a good answer
\* leads home from wherever the console is by then.
LoginAnswered(f, outcome) ==
  /\ f.call = "handleLogin"
  /\ Answered(f, outcome)
  /\ \/ /\ Failed(outcome)
        /\ view' = IF f.live
                   THEN [view EXCEPT !.processing = FALSE,
                                     !.errorMsg = (outcome.kind = "message")]
                   ELSE view
        /\ flights' = Returned(flights, f)
        /\ UNCHANGED <<page, loader>>
     \/ /\ ~Failed(outcome)
        /\ Enter("home", HomeView, {}, loader, Returned(flights, f))
  /\ UNCHANGED <<redirects, gestures, abandoned>>
=============================================================================
