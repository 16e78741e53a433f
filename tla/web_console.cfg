SPECIFICATION Spec

CONSTANTS
  MaxGestures = 2
  MaxFlights = 3
  MaxRejections = 1
  Passwords <- MCPasswords
  Emails = {"ann@x.org"}
  Usernames = {"ann"}
  Terms = {"an"}
  ChipChoices = {"Status:locked"}
  SortKeys = {"email"}
  Totals = {0, 12}
  Accounts = {a1}
  NoAccount = NoAccount
  Names = {"ns1"}
  Maintainers = {m1, m2}
  SearchTerms = {"an"}

INVARIANTS
  BusyMeansWaiting
  TableAsAsked
  SentAsChecked

PROPERTIES
  SetupReachesLogin
  SessionLossReachesLogin

CHECK_DEADLOCK FALSE
