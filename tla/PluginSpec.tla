------------------------------- MODULE PluginSpec -------------------------------
(***************************************************************************)
(* The description of an algorithm module, struct PluginSpec of            *)
(* plugin_api/plugin_spec.h, as far as the other modules depend on it.     *)
(*                                                                         *)
(* Versions are counted in thousandths (1.02 is 1020): the code keeps a    *)
(* double, and the only thing done to it is to print it with two decimals. *)
(* Of plugin_context, a map of properties, only the database it names is   *)
(* kept, or "" if it names none.                                           *)
(***************************************************************************)
EXTENDS Naturals

ModuleType == {"DynamicLibrary", "PythonScript", "SystemProcess", "UnknownModule"}

ModuleStage == {"FirstInput", "ProcessingInput", "UnknownInput"}

PluginSpec ==
    [ plugin_name         : STRING,
      plugin_version      : Nat,
      plugin_type         : ModuleType,
      plugin_stage        : ModuleStage,
      plugin_input_stream : STRING,
      plugin_context      : STRING ]

\* A value-initialised PluginSpec(): what std::map::operator[] inserts.
DefaultSpec ==
    [ plugin_name |-> "", plugin_version |-> 0, plugin_type |-> "UnknownModule",
      plugin_stage |-> "UnknownInput", plugin_input_stream |-> "",
      plugin_context |-> "" ]

\* PluginSpec::is_valid.
IsValid(spec) ==
    /\ spec.plugin_stage = "ProcessingInput" => spec.plugin_input_stream # ""
    /\ spec.plugin_name # ""
    /\ spec.plugin_type # "UnknownModule"
    /\ spec.plugin_version > 0
=================================================================================
