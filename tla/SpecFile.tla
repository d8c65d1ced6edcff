------------------------------- MODULE SpecFile -------------------------------
(***************************************************************************)
(* PluginSpecController (plugin_spec.cpp): a list of module specs that is  *)
(* read from a configuration file and written to one, through              *)
(* PluginSpec::toXml and fromXml, and those of ModuleContext.              *)
(*                                                                         *)
(* A PluginSpec element is the texts of its child elements, of those it    *)
(* has, with "" for a child without text; its numbers; and the properties, *)
(* none or one.  An optional value is a set of at most one element.        *)
(***************************************************************************)
EXTENDS PluginSpec, Sequences

CONSTANTS
    Specs,          \* given to PluginSpecController::add
    HandWritten,    \* files somebody wrote: sequences of PluginSpec elements
    MaxSpecs        \* the longest list (bounds the model)

\* A type is an enumerator, a file a sequence.
ASSUME FileAssumption ==
    /\ MaxSpecs \in Nat
    /\ \A spec \in Specs : spec.plugin_type \in ModuleType
    /\ \A f \in HandWritten : f \in Seq({f[i] : i \in DOMAIN f})

VARIABLES
    list,           \* PluginSpecController::_list
    file,           \* the elements in the file
    written,        \* the file is the controller's own
    crashed         \* the process was ended by a read

vars == <<list, file, written, crashed>>

---------------------------------------------------------------------------------

\* Mutant: one type of module is missing from the comparisons.
ParseTypeWithoutProcess(text) ==
    IF text \in ModuleType \ {"SystemProcess"} THEN text ELSE "UnknownModule"

ParseType(text) == IF text \in ModuleType THEN text ELSE "UnknownModule"

ParseStage(text) == IF text \in ModuleStage THEN text ELSE "UnknownInput"

\* ModuleContext::fromXml: a property without text is left out.
NonEmpty(properties) ==
    [k \in {key \in DOMAIN properties : properties[key] # ""} |-> properties[k]]

Always(spec) ==
    [ Name |-> spec.plugin_name, FilePath |-> spec.plugin_file_path,
      Description |-> spec.plugin_description, Type |-> spec.plugin_type ]

\* Mutant: Stage and InputStream are inserted, without a look at the latter.
ToXmlWithAll(spec) ==
    [ text |-> [ tag \in DOMAIN Always(spec) \cup {"Stage", "InputStream"} |->
                   CASE tag = "Stage" -> spec.plugin_stage
                     [] tag = "InputStream" -> spec.plugin_input_stream
                     [] OTHER -> Always(spec)[tag] ],
      version |-> spec.plugin_version,
      stream_version |-> spec.plugin_input_stream_version,
      properties |-> spec.plugin_context ]

\* PluginSpec::toXml.  Elements for the stage and the input stream are made,
\* but inserted nowhere.
ToXml(spec) ==
    [ text |-> Always(spec),
      version |-> spec.plugin_version,
      stream_version |-> 0,
      properties |-> spec.plugin_context ]

\* Constructing a std::string from GetText() of a child without text, which is
\* nullptr, ends the process.  A text that was set to "" is no text any more
\* when it comes out of a file.
Readable(element) == \A tag \in DOMAIN element.text : element.text[tag] # ""

\* PluginSpec::fromXml of a readable element.
FromXml(element) ==
    LET Value(tag) == IF tag \in DOMAIN element.text THEN element.text[tag] ELSE ""
    IN  [ plugin_name |-> Value("Name"),
          plugin_file_path |-> Value("FilePath"),
          plugin_description |-> Value("Description"),
          plugin_version |-> element.version,
          plugin_type |-> ParseType(Value("Type")),
          plugin_stage |-> ParseStage(Value("Stage")),
          plugin_input_stream |-> Value("InputStream"),
          plugin_input_stream_version |-> element.stream_version,
          plugin_context |-> {NonEmpty(p) : p \in element.properties} ]

---------------------------------------------------------------------------------

\* A file that is not there reads like one without elements.
Init ==
    /\ list = << >>
    /\ file \in HandWritten \cup {<< >>}
    /\ written = FALSE
    /\ crashed = FALSE

\* PluginSpecController::add.
Add(spec) ==
    /\ Len(list) < MaxSpecs
    /\ list' = Append(list, spec)
    /\ UNCHANGED <<file, written>>

\* PluginSpecController::write.
Write ==
    /\ file' = [i \in DOMAIN list |-> ToXml(list[i])]
    /\ written' = TRUE
    /\ UNCHANGED list

\* PluginSpecController::read.
Read ==
    /\ \A i \in DOMAIN file : Readable(file[i])
    /\ list' = [i \in DOMAIN file |-> FromXml(file[i])]
    /\ UNCHANGED <<file, written>>

\* Somebody replaces the file.
Edit ==
    /\ file' \in HandWritten
    /\ written' = FALSE
    /\ UNCHANGED list

Crash ==
    /\ \E i \in DOMAIN file : ~Readable(file[i])
    /\ crashed' = TRUE
    /\ UNCHANGED <<list, file, written>>

Next ==
    /\ ~crashed
    /\ \/ /\ \/ \E spec \in Specs : Add(spec)
             \/ Write
             \/ Read
             \/ Edit
          /\ UNCHANGED crashed
       \/ Crash

Spec == Init /\ [][Next]_vars

---------------------------------------------------------------------------------
(* Properties. *)

\* What survives of a spec that is written and read back: everything but its
\* stage, its input stream and the empty ones of its properties.  A valid spec
\* stays valid; an invalid one becomes valid only if what made it so, that its
\* stage asks for a stream it does not name, is lost with the stage.
Survives ==
    \A i \in DOMAIN list : Readable(ToXml(list[i])) =>
        LET spec == list[i]
            back == FromXml(ToXml(spec))
        IN  /\ back.plugin_name = spec.plugin_name
            /\ back.plugin_file_path = spec.plugin_file_path
            /\ back.plugin_description = spec.plugin_description
            /\ back.plugin_version = spec.plugin_version
            /\ back.plugin_type = spec.plugin_type
            /\ back.plugin_context = {NonEmpty(p) : p \in spec.plugin_context}
            /\ IsValid(spec) => IsValid(back)
            /\ IsValid(back) =>
                  \/ IsValid(spec)
                  \/ spec.plugin_stage = "ProcessingInput" /\ spec.plugin_input_stream = ""

\* A file that write has written can be read.
WrittenCanBeRead == written => ~crashed
=================================================================================
