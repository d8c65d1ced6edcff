------------------------------ MODULE ModuleContext ------------------------------
(***************************************************************************)
(* ModuleContext (plugin_api.cpp): the properties a module is called with, *)
(* and the contexts that ModuleController::execute and module_call make    *)
(* for a run out of three others: the connection's, the caller's and the   *)
(* spec's.  Contexts are shared through pointers, a std::map has no lock,  *)
(* and the threads of module_call run beside the caller; what keeps them   *)
(* apart is that each run has a context of its own.                        *)
(*                                                                         *)
(* The threads are detached, which allows everything a join does.  One     *)
(* account of a run, its user name, password and schema, is one value.  No *)
(* code makes a context with a parent, and copy_to does not follow one:    *)
(* parents are left out.                                                   *)
(***************************************************************************)
EXTENDS Naturals, Sequences

CONSTANTS
    Caller,     \* contexts of the caller: its own, and those in its specs
    Run,        \* calls of ModuleController::execute, and the account of each
    Key, Value, \* what the caller sets; "" is a value
    Account,    \* Database_Username, Database_Password and Database_Schema
    Output,     \* Database_Stream_Output
    Arguments,  \* what contexts given to PluginManager's constructor hold
    Texts       \* the children of "Properties" elements that are read

ASSUME ContextAssumption ==
    /\ {Account, Output} \subseteq Key /\ Account # Output
    /\ Texts \subseteq Seq([key : Key, text : Value])
    /\ "" \in Value
    /\ Arguments \subseteq UNION {[S -> Value] : S \in SUBSET Key}
    /\ Value \cap Run = {} /\ Caller \cap Run = {}
    /\ {"connection", "null"} \cap (Caller \cup Run) = {}

VARIABLES
    made,       \* the caller's contexts that exist
    properties, \* _properties of every context
    given,      \* the context each run's thread holds
    step,       \* where each run is
    seen        \* what the dictionary of a script, or the environment of a
                \* program, was made of

vars == <<made, properties, given, step, seen>>

Connection == "connection"  \* BaseConnection::_context
Null == "null"

Object == Caller \cup Run \cup {Connection}

Entries == UNION {[S -> Value \cup Run] : S \in SUBSET Key}

Step == {"idle", "prepared", "registering", "executing", "done"}

TypeOK ==
    /\ made \subseteq Caller
    /\ properties \in [Object -> Entries]
    /\ given \in [Run -> Object \cup {Null}]
    /\ step \in [Run -> Step]
    /\ seen \in [Run -> Entries]

NoEntries == [k \in {} |-> ""]

\* The connection's context is a copy of the one that was given to the
\* manager, or of none.
Init ==
    /\ made = {}
    /\ \E entries \in Arguments \cup {NoEntries} :
          properties = [o \in Object |-> IF o = Connection THEN entries ELSE NoEntries]
    /\ given = [r \in Run |-> Null]
    /\ step = [r \in Run |-> "idle"]
    /\ seen = [r \in Run |-> NoEntries]

---------------------------------------------------------------------------------
(* The operations of a context. *)

\* copy_to: each property of upper is set in lower.
CopyTo(upper, lower) ==
    [k \in DOMAIN upper \cup DOMAIN lower |-> IF k \in DOMAIN upper THEN upper[k] ELSE lower[k]]

\* set_property.
With(entries, k, v) == [j \in DOMAIN entries \cup {k} |-> IF j = k THEN v ELSE entries[j]]

\* The last element of a name that has a text.
IsLast(elements, k, i) ==
    LET HasText(j) == elements[j].key = k /\ elements[j].text # ""
    IN  HasText(i) /\ \A j \in DOMAIN elements : HasText(j) => j <= i

\* fromXml after _properties.clear().
Parsed(elements) ==
    [k \in {j \in Key : \E i \in DOMAIN elements : IsLast(elements, j, i)} |->
        elements[CHOOSE i \in DOMAIN elements : IsLast(elements, k, i)].text]

\* Mutant: fromXml does not clear.
ParsedOver(elements, old) == CopyTo(Parsed(elements), old)

\* fromXml.
FromXml(elements, old) == Parsed(elements)

---------------------------------------------------------------------------------
(* The caller. *)

Construct(c) ==
    /\ c \notin made
    /\ made' = made \cup {c}
    /\ UNCHANGED <<properties, given, step, seen>>

SetProperty(c, k, v) ==
    /\ c \in made
    /\ properties' = [properties EXCEPT ![c] = With(@, k, v)]
    /\ UNCHANGED <<made, given, step, seen>>

\* A spec's context is read from a file, or the connection's.
Read(o, elements) ==
    /\ o \in made \cup {Connection}
    /\ properties' = [properties EXCEPT ![o] = FromXml(elements, @)]
    /\ UNCHANGED <<made, given, step, seen>>

\* Mutants: the run's context is the caller's; and copy_context hands out the
\* connection's.
Shared(r, c) == c
NotCopied(r, c) == Connection

\* The connection's properties, under the caller's, under the spec's.
Layered(c, s) ==
    LET callers == CopyTo(properties[c], properties[Connection])
    IN  IF s = Null THEN callers ELSE CopyTo(properties[s], callers)

\* copy_context: a context of its own for each run.
Fresh(r, c) == r

\* ModuleController::execute with context c, of a spec with context s.
Execute(r, c, s) ==
    /\ step[r] = "idle"
    /\ c \in made /\ s \in made \cup {Null}
    /\ given' = [given EXCEPT ![r] = Fresh(r, c)]
    /\ properties' = [properties EXCEPT ![given'[r]] = Layered(c, s)]
    /\ step' = [step EXCEPT ![r] = "prepared"]
    /\ UNCHANGED <<made, seen>>

---------------------------------------------------------------------------------
(* module_call, on the run's thread. *)

\* The run has an account: its own, whatever the layers say.
TellAccount(r) ==
    /\ step[r] = "prepared"
    /\ properties' = [properties EXCEPT ![given[r]] = With(@, Account, r)]
    /\ step' = [step EXCEPT ![r] = "registering"]
    /\ UNCHANGED <<made, given, seen>>

\* Mutant: the output table is only named if the layers do not name one.
ToldIfUnset(entries, r) == IF Output \in DOMAIN entries THEN entries ELSE With(entries, Output, r)

Told(entries, r) == With(entries, Output, r)

\* The task is registered; the module is executed.  A script gets a
\* dictionary, and a program an environment, of the entries of this moment.
Start(r) ==
    /\ step[r] = "registering"
    /\ properties' = [properties EXCEPT ![given[r]] = Told(@, r)]
    /\ seen' = [seen EXCEPT ![r] = properties'[given[r]]]
    /\ step' = [step EXCEPT ![r] = "executing"]
    /\ UNCHANGED <<made, given>>

\* A library's module has the context itself.
ModuleSets(r, k, v) ==
    /\ step[r] = "executing"
    /\ properties' = [properties EXCEPT ![given[r]] = With(@, k, v)]
    /\ UNCHANGED <<made, given, step, seen>>

\* The module returns; or there is no connection, no account or no task for it.
Return(r) ==
    /\ step[r] \in {"prepared", "registering", "executing"}
    /\ step' = [step EXCEPT ![r] = "done"]
    /\ UNCHANGED <<made, properties, given, seen>>

Next ==
    \/ \E c \in Caller : Construct(c)
    \/ \E c \in Caller, k \in Key, v \in Value : SetProperty(c, k, v)
    \/ \E o \in Caller \cup {Connection}, elements \in Texts : Read(o, elements)
    \/ \E r \in Run, c \in Caller, s \in Caller \cup {Null} : Execute(r, c, s)
    \/ \E r \in Run : TellAccount(r) \/ Start(r) \/ Return(r)
    \/ \E r \in Run, k \in Key, v \in Value : ModuleSets(r, k, v)

Spec == Init /\ [][Next]_vars

---------------------------------------------------------------------------------
(* Properties. *)

\* No account gets into a context but that of its run: not into the caller's,
\* the connection's, or another run's.
AccountsStayPrivate ==
    \A o \in Object : \A k \in DOMAIN properties[o] :
        properties[o][k] \in Run => properties[o][k] = o

\* What a module is started with is its own account and its own table, though
\* every layer should name others, such as the account of the connection.
OwnAccountSeen ==
    \A r \in Run : step[r] = "executing" =>
        /\ {Account, Output} \subseteq DOMAIN seen[r]
        /\ seen[r][Account] = r /\ seen[r][Output] = r

\* The connection's properties are all of one file, or of the context the
\* manager was made with: never of two.
OneFile ==
    LET Named(elements) == {k \in Key : \E i \in DOMAIN elements :
                                elements[i].key = k /\ elements[i].text # ""}
    IN  \/ properties[Connection] \in Arguments \cup {NoEntries}
        \/ \E elements \in Texts :
              /\ DOMAIN properties[Connection] = Named(elements)
              /\ \A k \in Named(elements) : \E i \in DOMAIN elements :
                    elements[i] = [key |-> k, text |-> properties[Connection][k]]

\* From execute until its module is started nothing but the run's own thread
\* writes the run's context: neither what the caller sets meanwhile, nor a
\* load, nor another run's module reaches a run that was prepared.
UntouchedUntilStart ==
    [][ \A r \in Run :
          step[r] \in {"prepared", "registering"} /\ step'[r] = step[r] =>
              properties'[given[r]] = properties[given[r]] ]_vars
=================================================================================
