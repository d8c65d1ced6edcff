------------------------------ MODULE PluginManager ------------------------------
(***************************************************************************)
(* PluginManager (plugin_manager.cpp): the map of module specs, filled by  *)
(* configuration files and by registering single modules, and the call of  *)
(* a module by name.  With it, as much of ModuleController and             *)
(* BaseConnection as decides which database a call meets: the connection   *)
(* keeps the parameters of a configuration, and its session keeps those it *)
(* logged in with.                                                         *)
(*                                                                         *)
(* A database is named by its host and its name, the parameters no module  *)
(* is given a value of its own for.  A call is joined before the next one; *)
(* what happens inside it is the subject of ModuleController.              *)
(***************************************************************************)
EXTENDS PluginSpec, Sequences

CONSTANTS
    Name,       \* names of modules
    Specs,      \* given to register_module
    Libraries,  \* given to register_dynamic: what a library exports
    Scripts,    \* given to register_script: names and versions
    Files,      \* given to load
    Contexts    \* given to execute, and to the manager's constructor: the
                \* database the context names

VARIABLES
    modules,    \* PluginManagerPrivate::modules, a std::map
    settings,   \* BaseConnection::_context and the members refresh copies
    session,    \* BaseConnection::_c: where it is logged in
    task        \* the task recorded last: its module, the database it was
                \* recorded in and the one the module was told

vars == <<modules, settings, session, task>>

\* A library that cannot be loaded exports nothing.
NotLoaded == << >>

\* DynamicLibraryModulePrivate's _spec.  Its functions are asked for their
\* values; one that is missing leaves a default.
LibrarySpec(library) ==
    LET Exported(field, default) ==
            IF field \in DOMAIN library THEN library[field] ELSE default
    IN  IF library = NotLoaded THEN DefaultSpec
        ELSE [ plugin_name |-> Exported("plugin_name", "unloaded"),
               plugin_version |-> Exported("plugin_version", 0),
               plugin_type |-> Exported("plugin_type", "UnknownModule"),
               plugin_stage |-> Exported("plugin_stage", "UnknownInput"),
               plugin_input_stream |-> "", plugin_context |-> "" ]

ScriptSpec(script) ==
    [ plugin_name |-> script.name, plugin_version |-> script.version,
      plugin_type |-> "PythonScript", plugin_stage |-> "UnknownInput",
      plugin_input_stream |-> "", plugin_context |-> "" ]

\* Everything a single registration can bring; register_dynamic opens the
\* library only for its spec.
Offered ==
    Specs \cup {LibrarySpec(l) : l \in Libraries} \cup {ScriptSpec(s) : s \in Scripts}

\* Those, and what files contain.
Known == Offered \cup UNION {{f.specs[i] : i \in DOMAIN f.specs} : f \in Files}

\* A database, or "" for none: libpq then connects to a default of its own.
Setting == {f.server : f \in Files} \cup Contexts \cup {s.plugin_context : s \in Known} \cup {""}

ASSUME ManagerAssumption ==
    /\ Known \subseteq PluginSpec
    /\ {s.plugin_name : s \in Known} \subseteq Name
    /\ \A f \in Files : f.specs \in Seq(Known) /\ f.properties \in BOOLEAN
    /\ Setting \cap {"closed", "bad"} = {}

---------------------------------------------------------------------------------

NoTask == << >>

TypeOK ==
    /\ DOMAIN modules \subseteq Name
    /\ \A n \in DOMAIN modules : modules[n] \in Known \cup {DefaultSpec}
    /\ settings \in Setting
    /\ session \in Setting \cup {"closed", "bad"}
    /\ task = NoTask \/ task \in [module : Name, database : Setting, told : Setting]

\* The parameters are those of the context that is given to the constructor, or
\* of none.
Init ==
    /\ modules = [n \in {} |-> DefaultSpec]
    /\ settings \in Contexts \cup {""}
    /\ session = "closed"
    /\ task = NoTask

Contains(n) == n \in DOMAIN modules /\ IsValid(modules[n])

\* Mutant: the map's key is another field of the spec.
PutUnderType(n, spec) ==
    [m \in DOMAIN modules \cup {spec.plugin_type} |-> IF m = spec.plugin_type THEN spec ELSE modules[m]]

\* modules[n] = spec
Put(n, spec) == [m \in DOMAIN modules \cup {n} |-> IF m = n THEN spec ELSE modules[m]]

\* Mutant: whatever is registered is kept.
AcceptedUnseen(spec) == TRUE

Accepted(spec) == IsValid(spec)

\* The map after register_module of each spec of a file, in order.
Places(specs, n) == {i \in DOMAIN specs : Accepted(specs[i]) /\ specs[i].plugin_name = n}

LastPlace(specs, n) ==
    CHOOSE i \in Places(specs, n) : \A j \in Places(specs, n) : j <= i

\* Mutant: what was there before the load stays there.
RegisteredOver(specs) ==
    [n \in DOMAIN modules \cup {m \in Name : Places(specs, m) # {}} |->
        IF Places(specs, n) # {} THEN specs[LastPlace(specs, n)] ELSE modules[n]]

Registered(specs) == [n \in {m \in Name : Places(specs, m) # {}} |-> specs[LastPlace(specs, n)]]

\* register_module, and register_dynamic and register_script that end in it.
Register(spec) ==
    /\ Accepted(spec)
    /\ modules' = Put(spec.plugin_name, spec)
    /\ UNCHANGED <<settings, session, task>>

\* ModuleController::load: a file's properties replace the connection's.
Configured(file) == IF file.properties THEN file.server ELSE settings

\* PluginManager::load: the specs first, then the connection's parameters; the
\* session stays as it is.  A file that cannot be read has neither.
Load(file) ==
    /\ modules' = Registered(file.specs)
    /\ settings' = Configured(file)
    /\ UNCHANGED <<session, task>>

\* execute of a name that is not there: operator[] inserts an empty spec.
ExecuteUnknown(n) ==
    /\ ~Contains(n)
    /\ modules' = IF n \in DOMAIN modules THEN modules ELSE Put(n, DefaultSpec)
    /\ UNCHANGED <<settings, session, task>>

Over(layer, below) == IF layer = "" THEN below ELSE layer

\* The module's context: the connection's, under the caller's, under the spec's.
Told(n, context) == Over(modules[n].plugin_context, Over(context, settings))

\* ModuleController::execute of a valid spec.  A session that is not good is
\* reopened; the task is recorded where the session is, if it can be at all.
Execute(n, context) ==
    /\ Contains(n)
    /\ \/ session \in Setting /\ UNCHANGED session
       \/ session \notin Setting /\ session' \in {settings, "bad"}
    /\ \/ /\ session' \in Setting
          /\ task' = [module |-> n, database |-> session', told |-> Told(n, context)]
       \/ UNCHANGED task
    /\ UNCHANGED <<modules, settings>>

\* The server, or the network, ends the session.
Disconnect ==
    /\ session \in Setting
    /\ session' = "bad"
    /\ UNCHANGED <<modules, settings, task>>

Next ==
    \/ \E spec \in Offered : Register(spec)
    \/ \E file \in Files : Load(file)
    \/ \E n \in Name : ExecuteUnknown(n)
    \/ \E n \in Name, context \in Contexts : Execute(n, context)
    \/ Disconnect

Spec == Init /\ [][Next]_vars

---------------------------------------------------------------------------------
(* Properties. *)

\* An entry of the map is either a valid module under its own name, or what
\* execute left under a name it did not find.
EntryIsOwnOrEmpty ==
    \A n \in DOMAIN modules :
        \/ IsValid(modules[n]) /\ modules[n].plugin_name = n
        \/ modules[n] = DefaultSpec

\* The output table the module is told of, "Database.Stream.Output", is in the
\* database it is told of, unless the caller or the spec names another.
OutputTableReachable == task # NoTask => task.database = task.told

---------------------------------------------------------------------------------

\* PluginManager::spec.
SpecOf(n) == IF Contains(n) THEN modules[n] ELSE DefaultSpec

Catalog == INSTANCE PluginCatalog WITH
    catalog <- [n \in Name |-> SpecOf(n)],
    Contents <- {f.specs : f \in Files}

\* The manager implements the catalog.
CatalogSpec == Catalog!Spec
=================================================================================
