--------------------------- MODULE MCModuleController ---------------------------
(***************************************************************************)
(* Values for the constants of ModuleController.  Versions 1.020 and 1.021 *)
(* print alike; 2.100 and 1.020 are torn into 1.00 or 2.12.                *)
(***************************************************************************)
EXTENDS ModuleController, TLC

Module(name, version, type) ==
    [ plugin_name |-> name, plugin_version |-> version, plugin_type |-> type,
      plugin_stage |-> "FirstInput", plugin_input_stream |-> "",
      plugin_context |-> "" ]

Library == Module("Library", 1020, "DynamicLibrary")
LibraryFix == Module("Library", 1021, "DynamicLibrary")
LibraryNext == Module("Library", 2100, "DynamicLibrary")
Script == Module("Script", 1020, "PythonScript")

Libraries == {Library, LibraryFix, LibraryNext, DefaultSpec}
LibraryAndScript == {LibraryNext, Script}
OnlyLibrary == {Library}

NoTorn == {}
TornInTwo == {100, 212}

NoFaults == {}
LinkAndCrash == {"link", "crash"}
AnyFault == FaultKind

Interchangeable == Permutations(Run) \cup Permutations(Process)
=================================================================================
