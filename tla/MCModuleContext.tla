---------------------------- MODULE MCModuleContext ----------------------------
(***************************************************************************)
(* Values for the constants of ModuleContext: two files, one of which      *)
(* names the output table, the other the account twice, the second time    *)
(* without a text; and a context given to the manager that names the       *)
(* account, with the empty text no file can give.                          *)
(***************************************************************************)
EXTENDS ModuleContext, TLC

Element(key, text) == [key |-> key, text |-> text]

TwoTexts == {
    <<Element("output", "a")>>,
    <<Element("account", "a"), Element("account", "")>> }

OneArgument == {[k \in {"account"} |-> ""]}

AnyKey == {"account", "output"}
EmptyOrNot == {"", "a"}

Interchangeable == Permutations(Run) \cup Permutations(Caller)
================================================================================
