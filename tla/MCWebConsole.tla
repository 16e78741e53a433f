---------------------------- MODULE MCWebConsole ----------------------------
(***************************************************************************)
(* A small instance of the web console: one address besides an account's   *)
(* own, one user name, one search term, one account and two maintainers, a *)
(* few of the controls.                                                    *)
(***************************************************************************)
EXTENDS WebConsole, WebContracts

StrongPassword ==
  [length |-> 12, kinds |-> {"upper", "lower", "digit", "symbol"}]
WeakPassword == [length |-> 8, kinds |-> {"lower", "digit"}]

MCPasswords == {StrongPassword, WeakPassword}
=============================================================================
