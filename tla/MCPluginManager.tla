----------------------------- MODULE MCPluginManager -----------------------------
(***************************************************************************)
(* Values for the constants of PluginManager: files with a name twice, an  *)
(* invalid spec, another database, no properties or nothing at all; a      *)
(* library without a name and one that cannot be loaded.                   *)
(***************************************************************************)
EXTENDS PluginManager

Module(name, version, type, context) ==
    [ plugin_name |-> name, plugin_version |-> version, plugin_type |-> type,
      plugin_stage |-> "FirstInput", plugin_input_stream |-> "",
      plugin_context |-> context ]

First == Module("First", 1020, "SystemProcess", "")
FirstAgain == Module("First", 2000, "PythonScript", "third")
Second == Module("Second", 1020, "PythonScript", "")
NoVersion == Module("First", 0, "SystemProcess", "")
NoStream == [Second EXCEPT !.plugin_stage = "ProcessingInput"]

Names == {"First", "Second", "Library", "unloaded", ""}

File(specs, properties, server) ==
    [specs |-> specs, properties |-> properties, server |-> server]

TheFiles ==
    { File(<<First, NoVersion, Second, FirstAgain, NoStream>>, TRUE, "one"),
      File(<<Second>>, TRUE, "two"),
      File(<<First>>, FALSE, ""),
      File(<< >>, FALSE, "") }

TheSpecs == {First, FirstAgain, NoVersion, NoStream}

TheLibraries ==
    { NotLoaded,
      [ plugin_name |-> "Library", plugin_version |-> 1020,
        plugin_type |-> "DynamicLibrary", plugin_stage |-> "FirstInput" ],
      [ plugin_version |-> 1020, plugin_type |-> "DynamicLibrary" ],
      [ plugin_name |-> "Library", plugin_version |-> 1020 ] }

TheScripts == {[name |-> "Second", version |-> 1020], [name |-> "", version |-> 1020]}

TheContexts == {"", "third"}

\* A program that loads one configuration and then another.
TwoConfigurations == {File(<<First>>, TRUE, "one"), File(<<First>>, TRUE, "two")}
Nothing == {}
NoDatabase == {""}
=================================================================================
