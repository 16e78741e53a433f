---------------------------- MODULE AccountSetup ----------------------------
(***************************************************************************)
(* The page of the invitation link, where an invited user chooses a        *)
(* password.  A password is reduced to its length and the kinds of its     *)
(* characters.                                                             *)
(***************************************************************************)
EXTENDS LoginPage

CONSTANT Passwords   \* what is typed into the two password fields

\* A password: its length and the kinds of characters in it, "symbol" being
\* one of !@#$%^&* and "other" a character of no other kind.
Kinds == {"upper", "lower", "digit", "symbol", "other"}

NoPassword == [length |-> 0, kinds |-> {}]

ASSUME PasswordsAssumption ==
  Passwords \subseteq [length : Nat \ {0}, kinds : SUBSET Kinds]

isValidPassword(pw) ==
  /\ pw.length \in 12..64
  /\ {"upper", "lower", "digit", "symbol"} \subseteq pw.kinds

\* The list of requirements the page ticks off; any character that is no
\* letter and no digit counts as special.
RequirementsMet(pw) ==
  ({"lower", "upper", "digit"} \cap pw.kinds)
    \cup (IF pw.kinds \cap {"symbol", "other"} # {} THEN {"special"} ELSE {})
    \cup (IF pw.length >= 12 THEN {"length"} ELSE {})

PasswordStrength(pw) ==
  LET score == Cardinality(RequirementsMet(pw))
                 + (IF pw.length >= 8 THEN 1 ELSE 0)
  IN IF pw = NoPassword THEN ""
     ELSE CASE score <= 2     -> "Weak"
            [] score \in 3..4 -> "Medium"
            [] score > 4      -> "Strong"

\* The messages under the two fields, each once its field was left.
PasswordMessages(pw, pw1, touched) ==
  (IF "password" \in touched /\ pw # NoPassword /\ ~isValidPassword(pw)
   THEN {"password"} ELSE {})
    \cup (IF "password1" \in touched /\ pw1 # NoPassword /\ pw # pw1
          THEN {"match"} ELSE {})

ReadyMessage(pw, pw1, touched) ==
  /\ PasswordMessages(pw, pw1, touched) = {}
  /\ touched = {"password", "password1"}
  /\ pw # NoPassword
  /\ pw = pw1

\* A password the page lets through is one it has ticked off, calls strong and
\* reports ready; none else is reported ready.
ASSUME ValidPasswordsAreStrong ==
  \A length \in {0, 7, 8, 11, 12, 64, 65}, kinds \in SUBSET Kinds :
    LET pw == [length |-> length, kinds |-> kinds]
    IN /\ isValidPassword(pw) =>
            /\ RequirementsMet(pw)
                 = {"lower", "upper", "digit", "special", "length"}
            /\ PasswordStrength(pw) = "Strong"
       /\ ReadyMessage(pw, pw, {"password", "password1"})
            <=> isValidPassword(pw)

--------------------------------------------------------------------------

SetupView ==
  [userId |-> FALSE, displayName |-> FALSE, password |-> NoPassword,
   password1 |-> NoPassword, generalError |-> FALSE, completed |-> FALSE]

SetupCalls == {Flight("fetchOnboardingData", NoArguments)}

isSetupValid ==
  /\ view.userId
  /\ view.displayName
  /\ view.password # NoPassword
  /\ view.password = view.password1
  /\ isValidPassword(view.password)
  /\ ~view.generalError

\* The invitation's details.  An error without a message leaves the page as
\* it is, its fields disabled.
OnboardingDataFetched(f, outcome) ==
  /\ f.call = "fetchOnboardingData"
  /\ Answered(f, outcome)
  /\ flights' = Returned(flights, f)
  /\ loader' = Hide(loader)
  /\ \E named \in BOOLEAN :
       view' = CASE f.live /\ outcome.kind = "message" ->
                      [view EXCEPT !.generalError = TRUE]
                 [] f.live /\ outcome.kind = "data" ->
                      [view EXCEPT !.userId = TRUE, !.displayName = named]
                 [] OTHER -> view
  /\ UNCHANGED <<page, redirects, gestures, abandoned>>

\* The fields take input once the details have come.
ChangeDisplayName ==
  /\ page = "setup"
  /\ view.userId
  /\ view' = [view EXCEPT !.displayName = ~@]
  /\ UNCHANGED <<page, loader, flights, reload, redirects, gestures, abandoned>>

ChangePassword(field) ==
  /\ page = "setup"
  /\ view.userId
  /\ \E pw \in Passwords : view' = [view EXCEPT ![field] = pw]
  /\ UNCHANGED <<page, loader, flights, reload, redirects, gestures, abandoned>>

SendSetup ==
  /\ isSetupValid
  /\ Call
  /\ flights' = Sent(flights, Flight("handleUserAccountComplete", NoArguments))
  /\ loader' = Show(loader)
  /\ UNCHANGED view

\* The button is disabled once completed; the Enter key is not.
CompleteSetup ==
  /\ page = "setup"
  /\ ~view.completed
  /\ SendSetup
  /\ UNCHANGED <<page, reload, redirects, abandoned>>

PressEnterToComplete ==
  /\ page = "setup"
  /\ SendSetup
  /\ UNCHANGED <<page, reload, redirects, abandoned>>

\* Only an error that has a message is one: any other outcome counts as
\* completed, and starts an interval nobody clears.
SetupAnswered(f, outcome) ==
  /\ f.call = "handleUserAccountComplete"
  /\ Answered(f, outcome)
  /\ flights' = Returned(flights, f)
  /\ loader' = Hide(loader)
  /\ \/ /\ outcome.kind = "message"
        /\ view' = IF f.live THEN [view EXCEPT !.generalError = TRUE] ELSE view
        /\ UNCHANGED redirects
     \/ /\ outcome.kind # "message"
        /\ view' = IF f.live THEN [view EXCEPT !.completed = TRUE] ELSE view
        /\ redirects' = redirects + 1
  /\ UNCHANGED <<page, gestures, abandoned>>

\* The link of the message of success.
LoginNow ==
  /\ page = "setup"
  /\ view.completed
  /\ ToLogin(loader, flights)
  /\ UNCHANGED <<reload, redirects, gestures, abandoned>>

\* As below, but the interval stands still while an error is on display.
RedirectDue_NoError ==
  /\ redirects > 0
  /\ page = "setup" => ~view.generalError
  /\ redirects' = redirects - 1
  /\ ToLogin(loader, flights)
  /\ UNCHANGED <<reload, gestures, abandoned>>

\* An interval has counted its ten seconds down.
RedirectDue ==
  /\ redirects > 0
  /\ redirects' = redirects - 1
  /\ ToLogin(loader, flights)
  /\ UNCHANGED <<reload, gestures, abandoned>>
=============================================================================
