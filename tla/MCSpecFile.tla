------------------------------ MODULE MCSpecFile ------------------------------
(***************************************************************************)
(* Values for the constants of SpecFile.  Complete files and specs have a  *)
(* text wherever the code writes one; a file without a Description is one  *)
(* that fromXml reads as well.                                             *)
(***************************************************************************)
EXTENDS SpecFile

Module(type, stage, stream, context) ==
    [ plugin_name |-> "Module", plugin_file_path |-> "path",
      plugin_description |-> "text", plugin_version |-> 1020, plugin_type |-> type,
      plugin_stage |-> stage, plugin_input_stream |-> stream,
      plugin_input_stream_version |-> 0, plugin_context |-> context ]

CompleteSpecs ==
    { Module("DynamicLibrary", "FirstInput", "", {}),
      Module("SystemProcess", "ProcessingInput", "Module", {[CreatedAt |-> "today", Author |-> ""]}),
      Module("DynamicLibrary", "ProcessingInput", "", {}),
      Module("UnknownModule", "UnknownInput", "", {}) }

Element(texts, properties) ==
    [text |-> texts, version |-> 1020, stream_version |-> 1020, properties |-> properties]

Texts(type) ==
    [ Name |-> "Other", FilePath |-> "path", Description |-> "text", Type |-> type,
      Stage |-> "ProcessingInput", InputStream |-> "Module" ]

NoDescription ==
    [Name |-> "Other", FilePath |-> "path", Type |-> "PythonScript"]

NoDescriptionText == [Description |-> "", Name |-> "Other", FilePath |-> "path", Type |-> "PythonScript"]

CompleteFiles ==
    { <<Element(Texts("PythonScript"), {[CreatedAt |-> "today"]}),
        Element(Texts("Executable"), {})>>,
      <<Element(Texts("SystemProcess"), {[CreatedAt |-> "", Author |-> "me"]})>> }

\* With a file that cannot be read at all.
AnyFiles == CompleteFiles \cup {<<Element(NoDescriptionText, {})>>}

BriefFiles == {<<Element(NoDescription, {})>>}
=================================================================================
