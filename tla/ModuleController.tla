---------------------------- MODULE ModuleController ----------------------------
(***************************************************************************)
(* The controller that runs an algorithm module as a recorded task:        *)
(* ModuleController::execute and module_call of plugin_controller.cpp, the *)
(* ControllerService they drive and the BaseConnection they share          *)
(* (plugin_controller_service.cpp), over the system database of            *)
(* scripts/system_schema.sql.                                              *)
(*                                                                         *)
(* A run is one call of ModuleController::execute: first on the caller's   *)
(* thread, then on the std::thread that executes module_call.  A process   *)
(* holds one ModuleController, hence one BaseConnection.  Runs of several  *)
(* processes meet only in the database; runs of one process meet in the    *)
(* connection and in a static buffer as well, but overlap only in a build  *)
(* without ENABLE_WAIT_THREAD_COMPLETE.                                    *)
(*                                                                         *)
(* Every SQL statement is a step of its own.  A run carries out each       *)
(* INSERT, and asks for each UUID, at most once, so the run itself stands  *)
(* for the ids and UUIDs made on its behalf.                               *)
(***************************************************************************)
EXTENDS PluginSpec

CONSTANTS
    Process,            \* processes that host a PluginManager
    Run,                \* calls of ModuleController::execute (bounds the model)
    PluginSpecs,        \* the modules that are called
    SystemUser,         \* the database user BaseConnection logs in as
    WaitThreadComplete, \* ENABLE_WAIT_THREAD_COMPLETE: join, not detach
    TornTexts,          \* what racing sprintf calls can leave in the buffer
    Faults              \* the kinds of failure that occur, see FaultKind

\* "reject": the server refuses a statement it could have carried out;
\* "link":   the connection breaks, or a login fails;
\* "uuid":   UuidCreate does not answer RPC_S_OK;
\* "script": a Python script does not compile, or raises while its top level
\*           is executed, and the process dies of it;
\* "crash":  a process dies.
FaultKind == {"reject", "link", "uuid", "script", "crash"}

ASSUME ControllerAssumption ==
    /\ "" \notin Process
    /\ "" \notin Run
    /\ PluginSpecs \subseteq PluginSpec
    /\ WaitThreadComplete \in BOOLEAN
    /\ TornTexts \subseteq Nat
    /\ Faults \subseteq FaultKind

VARIABLES
    pc,                 \* what each run does next
    host,               \* the process it runs in
    spec,               \* the module it was asked to execute
    module_name,        \* ControllerService::module_name
    user_password,      \* ControllerService::user_password
    module_id,          \* ControllerService::module_id
    output_table,       \* ControllerService::output_table
    ret,                \* the runs whose ret (create_user's, module_call's) is TRUE
    verdict,            \* how the module itself fared
    buffer,             \* static char buffer[20] of __module_name, per process
    conn,               \* BaseConnection::_c: nullptr, or its PQstatus
    pg_roles,           \* the database's roles and their passwords
    schemata,           \* the database's module schemas
    tables,             \* the output tables and their owners
    user_module,        \* rows of "processing"."user_module"
    processing_module   \* rows of "processing"."processing_module"

call == <<host, spec>>
account == <<user_password, module_id>>
outcome == <<ret, verdict>>
service == <<call, module_name, account, output_table, outcome>>
database == <<pg_roles, schemata, tables, user_module, processing_module>>
vars == <<pc, service, buffer, conn, database>>

---------------------------------------------------------------------------------
(* Values. *)

\* sprintf("%02.2f") of a version: hundredths.
VersionText(version) == (version + 5) \div 10

PluginName == {s.plugin_name : s \in PluginSpecs} \cup {""}

VersionTexts == {VersionText(s.plugin_version) : s \in PluginSpecs} \cup TornTexts

\* ControllerService::__module_name.  With the prefix "Module_" it is the
\* name of the role and of the schema, so all three are this one value.
ModuleName ==
    [ version : VersionTexts \cup {0}, name : PluginName ]

NoName == [version |-> 0, name |-> ""]

\* Before a run is called, its spec is of no interest.
CalledSpec == PluginSpecs \cup {DefaultSpec}

Verdict == {"none", "passed", "failed", "absent"}

Role == [rolname : ModuleName, password : Run \cup {""}]

Table == [name : Run, schema : ModuleName, owner : ModuleName \cup {SystemUser}]

UserModule ==
    [ id : Run, user_name : ModuleName, user_password : Run \cup {""},
      module_name : PluginName, module_version : Nat, schema_name : ModuleName ]

ProcessingModule ==
    [ id : Run, module_id : Run \cup {""}, table_name : Run \cup {""},
      status : {"STARTING", "SUCCESS", "FAILURE"} ]

CallerStep == {"reconnect"}

WorkerStep ==
    { "load", "named", "is_user_exists", "create_user", "insert_user",
      "clear_twice", "create_schema", "update_password", "create_table",
      "alter_table", "insert_processing", "execute", "complete" }

Ended == {"done", "dead"}

Steps == {"idle"} \cup CallerStep \cup WorkerStep \cup Ended

ConnState == {"null", "ok", "bad"}

TypeOK ==
    /\ pc \in [Run -> Steps]
    /\ host \in [Run -> Process \cup {""}]
    /\ spec \in [Run -> CalledSpec]
    /\ module_name \in [Run -> ModuleName]
    /\ user_password \in [Run -> Run \cup {""}]
    /\ module_id \in [Run -> Run \cup {""}]
    /\ output_table \in [Run -> Run \cup {""}]
    /\ ret \subseteq Run
    /\ verdict \in [Run -> Verdict]
    /\ buffer \in [Process -> VersionTexts \cup {0}]
    /\ conn \in [Process -> ConnState]
    /\ pg_roles \subseteq Role
    /\ schemata \subseteq ModuleName
    /\ tables \subseteq Table
    /\ user_module \subseteq UserModule
    /\ processing_module \subseteq ProcessingModule

Init ==
    /\ pc = [r \in Run |-> "idle"]
    /\ host = [r \in Run |-> ""]
    /\ spec = [r \in Run |-> DefaultSpec]
    /\ module_name = [r \in Run |-> NoName]
    /\ user_password = [r \in Run |-> ""]
    /\ module_id = [r \in Run |-> ""]
    /\ output_table = [r \in Run |-> ""]
    /\ ret = {}
    /\ verdict = [r \in Run |-> "none"]
    /\ buffer = [p \in Process |-> 0]
    /\ conn = [p \in Process |-> "null"]
    /\ pg_roles = {}
    /\ schemata = {}
    /\ tables = {}
    /\ user_module = {}
    /\ processing_module = {}

---------------------------------------------------------------------------------
(* The connection. *)

\* What the server answers to a statement it received, and whether it
\* carried the statement out.
Answer(legal, applied, result) ==
    \/ /\ legal /\ applied
       /\ result = "ok"
    \/ /\ ~legal \/ "reject" \in Faults
       /\ ~applied
       /\ result = "error"

\* BaseConnection::reconnect: the old connection is closed and the new one
\* is good, bad, or not even allocated.
Login(p, c) ==
    /\ c = "ok" \/ "link" \in Faults
    /\ conn' = [conn EXCEPT ![p] = c]

\* BaseConnection::execute of one statement, under the connection's mutex.
\* PQexec on a dead connection and a failed reconnect give nullptr; a link
\* that breaks during the statement gives an error, and nobody knows whether
\* the server carried it out.  Only a null connection is reopened here, and
\* its new link can break during the statement too.
Statement(p, legal, applied, result) ==
    \/ /\ conn[p] = "ok"
       /\ Answer(legal, applied, result)
       /\ UNCHANGED conn
    \/ /\ conn[p] \in {"ok", "null"} /\ "link" \in Faults
       /\ conn' = [conn EXCEPT ![p] = "bad"]
       /\ \/ result = "error" /\ (applied => legal)
          \/ result = "null" /\ ~applied
    \/ /\ conn[p] = "bad"
       /\ result = "null" /\ ~applied
       /\ UNCHANGED conn
    \/ /\ conn[p] = "null"
       /\ Login(p, "ok")
       /\ Answer(legal, applied, result)
    \/ /\ conn[p] = "null"
       /\ \E c \in ConnState \ {"ok"} : Login(p, c)
       /\ result = "null" /\ ~applied

Results == {"ok", "error", "null"}

When(condition, rows) == IF condition THEN rows ELSE {}

SetRet(r, value) == IF value THEN ret \cup {r} ELSE ret \ {r}

Goto(r, step) == pc' = [pc EXCEPT ![r] = step]

GeneratedUuid(r) == {r} \cup When("uuid" \in Faults, {""})

RoleExists(name) == \E role \in pg_roles : role.rolname = name

\* Mutant: the caller's code runs on past a statement that failed.
ContinueAnyway(result, step) == step

\* After a statement: the next one only if this one succeeded.
Continue(result, step) == IF result = "ok" THEN step ELSE "done"

\* Mutant: an UPDATE without its WHERE.
EveryTaskRow(id) == processing_module

TaskRow(id) == {m \in processing_module : m.id = id}

WithStatus(row, status) == [row EXCEPT !.status = status]

---------------------------------------------------------------------------------
(* ModuleController::execute, on the caller's thread. *)

Active(r) == pc[r] \in CallerStep \cup WorkerStep

\* Mutant: the thread is never joined.
CallerFreeUnjoined(p) == \A r \in Run : host[r] = p => pc[r] \notin CallerStep

\* With ENABLE_WAIT_THREAD_COMPLETE the caller joins the thread it starts,
\* otherwise it detaches it and can call again.
CallerFree(p) ==
    \A r \in Run : host[r] = p =>
        IF WaitThreadComplete THEN ~Active(r) ELSE pc[r] \notin CallerStep

\* Up to is_connected.  An invalid spec, or no context, is refused.
Call(p, r, plugin, context) ==
    /\ pc[r] = "idle"
    /\ CallerFree(p)
    /\ host' = [host EXCEPT ![r] = p]
    /\ spec' = [spec EXCEPT ![r] = plugin]
    /\ Goto(r, IF ~(IsValid(plugin) /\ context) THEN "done"
               ELSE IF conn[p] = "ok" THEN "load" ELSE "reconnect")
    /\ UNCHANGED <<module_name, account, output_table, outcome, buffer, conn, database>>

\* The thread is started whether or not the login succeeds.
Reconnect(r) ==
    /\ pc[r] = "reconnect"
    /\ \E c \in ConnState : Login(host[r], c)
    /\ Goto(r, "load")
    /\ UNCHANGED <<service, buffer, database>>

---------------------------------------------------------------------------------
(* module_call, on the worker's thread.  load_from_spec gives a module for *)
(* every valid spec, even when its library or script cannot be opened.     *)

\* Mutant: a format that keeps every digit.
OwnTextInFull(r) == spec[r].plugin_version

\* What __module_name makes of the version of the run's module.
OwnText(r) == VersionText(spec[r].plugin_version)

\* Another thread of the process that is between its sprintf and the end of
\* its read of the buffer, for a version with another text.
Formatting(r) ==
    \E q \in Run \ {r} :
        /\ host[q] = host[r]
        /\ pc[q] \in {"load", "named"}
        /\ OwnText(q) # OwnText(r)

\* __module_name formats the version into the process-wide buffer.  Two
\* threads that do so at once race: any mixture of their bytes may result.
FormatName(r) ==
    /\ pc[r] = "load"
    /\ \E text \in IF Formatting(r) THEN VersionTexts ELSE {OwnText(r)} :
           buffer' = [buffer EXCEPT ![host[r]] = text]
    /\ Goto(r, "named")
    /\ UNCHANGED <<service, conn, database>>

\* ... and reads it back into the name of module, role and schema.  Then
\* module_call asks the service whether the connection is good.
ReadName(r) ==
    /\ pc[r] = "named"
    /\ \E text \in IF Formatting(r) THEN VersionTexts ELSE {buffer[host[r]]} :
           module_name' = [module_name EXCEPT ![r] =
                              [version |-> text, name |-> spec[r].plugin_name]]
    /\ Goto(r, IF conn[host[r]] = "ok" THEN "is_user_exists" ELSE "done")
    /\ UNCHANGED <<call, account, output_table, outcome, buffer, conn, database>>

\* Mutant: the account table is asked for the role.
RoleFoundInAccounts(name) == \E u \in user_module : u.user_name = name

\* SELECT 1 FROM pg_roles.
RoleFound(name) == RoleExists(name)

\* A statement that fails counts as "the role does not exist".  The member
\* user_exists is what the run does next, here and below.
IsUserExists(r) ==
    /\ pc[r] = "is_user_exists"
    /\ \E applied \in BOOLEAN, result \in Results :
        /\ Statement(host[r], TRUE, applied, result)
        /\ Goto(r, IF result = "ok" /\ RoleFound(module_name[r])
                   THEN "update_password" ELSE "create_user")
    /\ UNCHANGED <<service, buffer, database>>

\* create_user, first statement: CREATE USER.  Its failure only leaves ret
\* FALSE: the next statement is carried out all the same.
CreateUser(r) ==
    LET name == module_name[r]
    IN  /\ pc[r] = "create_user"
        /\ \E uuid \in GeneratedUuid(r), applied \in BOOLEAN, result \in Results :
            /\ Statement(host[r], ~RoleExists(name), applied, result)
            /\ pg_roles' = pg_roles \cup
                  When(applied, {[rolname |-> name, password |-> uuid]})
            /\ user_password' = [user_password EXCEPT ![r] = uuid]
            /\ ret' = SetRet(r, result = "ok")
        /\ Goto(r, "insert_user")
        /\ UNCHANGED <<call, module_name, module_id, output_table, verdict, buffer>>
        /\ UNCHANGED <<schemata, tables, user_module, processing_module>>

\* Second statement: INSERT INTO user_module.  Its success sets ret, its
\* failure does not reset it.  When both have failed, create_user clears the
\* result of this one a second time, which is harmless only for nullptr.
InsertUserModule(r) ==
    LET row == [ id |-> r, user_name |-> module_name[r],
                 user_password |-> user_password[r],
                 module_name |-> spec[r].plugin_name,
                 module_version |-> spec[r].plugin_version,
                 schema_name |-> module_name[r] ]
    IN  /\ pc[r] = "insert_user"
        /\ \E applied \in BOOLEAN, result \in Results :
            /\ Statement(host[r], TRUE, applied, result)
            /\ user_module' = user_module \cup When(applied, {row})
            /\ \/ /\ result = "ok"
                  /\ module_id' = [module_id EXCEPT ![r] = r]
                  /\ ret' = SetRet(r, TRUE)
                  /\ Goto(r, "create_schema")
               \/ /\ result # "ok"
                  /\ UNCHANGED <<module_id, ret>>
                  /\ Goto(r, IF r \in ret THEN "create_schema"
                             ELSE IF result = "error" THEN "clear_twice" ELSE "done")
        /\ UNCHANGED <<call, module_name, user_password, output_table, verdict, buffer>>
        /\ UNCHANGED <<pg_roles, schemata, tables, processing_module>>

\* Third statement: CREATE SCHEMA IF NOT EXISTS ... AUTHORIZATION.
CreateSchema(r) ==
    LET name == module_name[r]
    IN  /\ pc[r] = "create_schema"
        /\ \E applied \in BOOLEAN, result \in Results :
            /\ Statement(host[r], RoleExists(name), applied, result)
            /\ schemata' = schemata \cup When(applied, {name})
            /\ Goto(r, Continue(result, "create_table"))
        /\ UNCHANGED <<service, buffer, pg_roles, tables, user_module, processing_module>>

\* Mutant: a SELECT that looks for the version as INSERT wrote it
\* (std::to_string) in the form of the name (%02.2f).
AccountsOfVersion(name) ==
    {u \in user_module : u.module_name = name.name /\ u.module_version = name.version}

\* SELECT id, user_password FROM user_module.
Accounts(name) == {u \in user_module : u.user_name = name}

\* update_password: whichever row of the role the server returns first.
UpdatePassword(r) ==
    /\ pc[r] = "update_password"
    /\ \E applied \in BOOLEAN, result \in Results :
        /\ Statement(host[r], TRUE, applied, result)
        /\ \/ /\ result = "ok"
              /\ \E u \in Accounts(module_name[r]) :
                    /\ user_password' = [user_password EXCEPT ![r] = u.user_password]
                    /\ module_id' = [module_id EXCEPT ![r] = u.id]
              /\ Goto(r, "create_table")
           \/ /\ result # "ok" \/ Accounts(module_name[r]) = {}
              /\ UNCHANGED account
              /\ Goto(r, "done")
    /\ UNCHANGED <<call, module_name, output_table, outcome, buffer, database>>

\* register_module_processing, first statement: CREATE TABLE.
CreateTable(r) ==
    LET name == module_name[r]
    IN  /\ pc[r] = "create_table"
        /\ \E uuid \in GeneratedUuid(r), applied \in BOOLEAN, result \in Results :
            /\ Statement(host[r], uuid # "" /\ name \in schemata, applied, result)
            /\ tables' = tables \cup
                  When(applied, {[name |-> uuid, schema |-> name, owner |-> SystemUser]})
            /\ output_table' = [output_table EXCEPT ![r] = IF result = "ok" THEN uuid ELSE ""]
            /\ Goto(r, Continue(result, "alter_table"))
        /\ UNCHANGED <<call, module_name, account, outcome, buffer>>
        /\ UNCHANGED <<pg_roles, schemata, user_module, processing_module>>

\* Second statement: ALTER TABLE ... OWNER TO.
AlterTable(r) ==
    LET name == module_name[r]
        old == {t \in tables : t.name = output_table[r] /\ t.schema = name}
        new == [name |-> output_table[r], schema |-> name, owner |-> name]
    IN  /\ pc[r] = "alter_table"
        /\ \E applied \in BOOLEAN, result \in Results :
            /\ Statement(host[r], RoleExists(name) /\ old # {}, applied, result)
            /\ tables' = IF applied THEN (tables \ old) \cup {new} ELSE tables
            /\ output_table' = [output_table EXCEPT ![r] = IF result = "ok" THEN @ ELSE ""]
            /\ Goto(r, Continue(result, "insert_processing"))
        /\ UNCHANGED <<call, module_name, account, outcome, buffer>>
        /\ UNCHANGED <<pg_roles, schemata, user_module, processing_module>>

\* Third statement: INSERT INTO processing_module, whose module_id is a
\* foreign key.
InsertProcessing(r) ==
    LET row == [ id |-> r, module_id |-> module_id[r], table_name |-> output_table[r],
                 status |-> "STARTING" ]
    IN  /\ pc[r] = "insert_processing"
        /\ \E applied \in BOOLEAN, result \in Results :
            /\ Statement(host[r], \E u \in user_module : u.id = module_id[r], applied, result)
            /\ processing_module' = processing_module \cup When(applied, {row})
            /\ output_table' = [output_table EXCEPT ![r] = IF result = "ok" THEN @ ELSE ""]
            /\ Goto(r, Continue(result, "execute"))
        /\ UNCHANGED <<call, module_name, account, outcome, buffer>>
        /\ UNCHANGED <<pg_roles, schemata, tables, user_module>>

\* What Module::execute makes of what the module did.  A library's
\* plugin_call says itself; a script counts as successful once its main was
\* called, an executable once it was started; what cannot be opened fails.
Returned(type, fared) ==
    IF type = "DynamicLibrary" THEN fared = "passed" ELSE fared # "absent"

\* The module runs, with the credentials and the output table of the service.
Execute(r) ==
    /\ pc[r] = "execute"
    /\ \E fared \in Verdict \ {"none"} :
        /\ verdict' = [verdict EXCEPT ![r] = fared]
        /\ ret' = SetRet(r, Returned(spec[r].plugin_type, fared))
    /\ Goto(r, "complete")
    /\ UNCHANGED <<call, module_name, account, output_table, buffer, conn, database>>

\* update_complete: UPDATE processing_module ... WHERE id.
UpdateComplete(r) ==
    LET status == IF r \in ret THEN "SUCCESS" ELSE "FAILURE"
    IN  /\ pc[r] = "complete"
        /\ \E applied \in BOOLEAN, result \in Results :
            /\ Statement(host[r], TRUE, applied, result)
            /\ processing_module' =
                  IF applied
                  THEN (processing_module \ TaskRow(r))
                          \cup {WithStatus(m, status) : m \in TaskRow(r)}
                  ELSE processing_module
            /\ output_table' = [output_table EXCEPT ![r] = IF result = "ok" THEN @ ELSE ""]
        /\ Goto(r, "done")
        /\ UNCHANGED <<call, module_name, account, outcome, buffer>>
        /\ UNCHANGED <<pg_roles, schemata, tables, user_module>>

---------------------------------------------------------------------------------
(* The end of a process, and the next-state relation. *)

\* All threads of a process end with it; what they did to the database stays.
Stop(p) ==
    /\ pc' = [r \in Run |-> IF host[r] = p /\ Active(r) THEN "dead" ELSE pc[r]]
    /\ buffer' = [buffer EXCEPT ![p] = 0]
    /\ conn' = [conn EXCEPT ![p] = "null"]
    /\ UNCHANGED <<service, database>>

\* A crash; or, when the thread was detached, main returning before it.
Die(p) ==
    /\ \E r \in Run : host[r] = p /\ Active(r)
    /\ "crash" \in Faults \/ ~WaitThreadComplete
    /\ Stop(p)

\* A result freed twice: nothing may come of it, or the end of the process.
ClearTwice(r) ==
    /\ pc[r] = "clear_twice"
    /\ \/ Goto(r, "done") /\ UNCHANGED <<service, buffer, conn, database>>
       \/ Stop(host[r])

\* A script that does not compile, whose null code object is executed, or one
\* that raises at its top level, whose null module is added to.
ScriptCrash(r) ==
    /\ pc[r] = "execute"
    /\ "script" \in Faults
    /\ spec[r].plugin_type = "PythonScript"
    /\ Stop(host[r])

Step(r) ==
    \/ Reconnect(r)
    \/ FormatName(r)
    \/ ReadName(r)
    \/ IsUserExists(r)
    \/ CreateUser(r)
    \/ InsertUserModule(r)
    \/ ClearTwice(r)
    \/ CreateSchema(r)
    \/ UpdatePassword(r)
    \/ CreateTable(r)
    \/ AlterTable(r)
    \/ InsertProcessing(r)
    \/ Execute(r)
    \/ ScriptCrash(r)
    \/ UpdateComplete(r)

\* Every call was made and has ended: the bounded model stops here.
Finished ==
    /\ \A r \in Run : pc[r] \in Ended
    /\ UNCHANGED vars

Next ==
    \/ \E p \in Process, r \in Run, plugin \in PluginSpecs, context \in BOOLEAN :
           Call(p, r, plugin, context)
    \/ \E r \in Run : Step(r)
    \/ \E p \in Process : Die(p)
    \/ Finished

Spec == Init /\ [][Next]_vars

\* A thread that was started is scheduled, and a module that was started
\* returns.  Nobody owes a call.
FairSpec == Spec /\ \A r \in Run : WF_vars(Step(r))

---------------------------------------------------------------------------------
(* Properties. *)

\* The query "list of tasks" in plugin_controller_service.h finds, for every
\* recorded task, an account (its LEFT JOIN never gives nulls), and in that
\* account's schema the task's table, owned by the account's role.
TaskListSound ==
    \A m \in processing_module : \E u \in user_module :
        /\ u.id = m.module_id
        /\ [name |-> m.table_name, schema |-> u.schema_name, owner |-> u.user_name] \in tables

\* Why TaskListSound holds.  Before its account a run has no module_id ...
BeforeAccount ==
    { "idle", "reconnect", "load", "named", "is_user_exists", "create_user",
      "insert_user", "update_password" }

NoAccountYet == \A r \in Run : pc[r] \in BeforeAccount => module_id[r] = ""

\* ... an account's row names the role and schema of the run that inserted it,
\* whose name does not change any more ...
PastAccount ==
    { "clear_twice", "create_schema", "create_table", "alter_table",
      "insert_processing", "execute", "complete" } \cup Ended

AccountNamed ==
    \A u \in user_module :
        /\ u.user_name = module_name[u.id]
        /\ u.schema_name = module_name[u.id]
        /\ pc[u.id] \in PastAccount

\* ... the account a run goes on with is one of its own name ...
Registering == {"create_schema", "create_table", "alter_table", "insert_processing"}

AccountFound ==
    \A r \in Run : pc[r] \in Registering /\ module_id[r] # "" =>
        \E u \in user_module : u.id = module_id[r] /\ u.user_name = module_name[r]

\* ... its table is named after nobody else, and is the role's own before the
\* task is recorded ...
TableOwned ==
    \A r \in Run :
        /\ pc[r] \in {"alter_table", "insert_processing"} => output_table[r] = r
        /\ pc[r] = "insert_processing" =>
              [name |-> r, schema |-> module_name[r], owner |-> module_name[r]] \in tables

\* ... and a recorded task is past all that.
TaskNamed ==
    \A m \in processing_module :
        /\ m.table_name = m.id
        /\ pc[m.id] \in {"execute", "complete"} \cup Ended

TaskListInv ==
    /\ NoAccountYet
    /\ AccountNamed
    /\ AccountFound
    /\ TableOwned
    /\ TaskNamed
    /\ TaskListSound

\* A task is recorded under an account that was made for the module it runs:
\* same name, and a version that prints the same.
TaskIsItsOwnModule ==
    \A m \in processing_module, u \in user_module : u.id = m.module_id =>
        /\ u.module_name = spec[m.id].plugin_name
        /\ VersionText(u.module_version) = OwnText(m.id)

\* When a module starts, the role and the password it was handed open the
\* database: a role of that name exists and has exactly that password.
CredentialsOpenDatabase ==
    \A r \in Run : pc[r] = "execute" =>
        /\ user_password[r] # ""
        /\ [rolname |-> module_name[r], password |-> user_password[r]] \in pg_roles

\* A task is recorded as SUCCESS only when the module did what it was for.
VerdictRecorded ==
    \A m \in processing_module :
        m.status = "SUCCESS" => verdict[m.id] = "passed"

\* An account of which the role was made, but not the row or not the schema:
\* the connection broke, or the process died, and nobody can still make them.
HalfMade(name) ==
    /\ RoleExists(name)
    /\ (\A u \in user_module : u.user_name # name) \/ name \notin schemata
    /\ \A r \in Run :
          pc[r] \in {"create_user", "insert_user", "create_schema"} /\ module_name[r] = name
             => conn[host[r]] = "bad"

\* No later call repairs such an account: is_user_exists finds the role, so
\* create_user is never entered again, and update_password finds no row.
HalfMadeStays == [][\A name \in ModuleName : HalfMade(name) => HalfMade(name)']_vars

LinkLost(p) == p # "" /\ conn[p] # "ok"

\* A run's task is there, and says how the run ended.
IsRecorded(r) == \E m \in processing_module : m.id = r /\ m.status \in {"SUCCESS", "FAILURE"}

\* A call with a valid spec that finds a good connection ends with a task that
\* is recorded and has a final status, unless its link breaks, its process
\* dies, or a call before it has left its account half made.
EveryCallIsRecorded ==
    \A r \in Run :
        pc[r] = "load" ~>
            \/ IsRecorded(r)
            \/ LinkLost(host[r])
            \/ HalfMade(module_name[r])

\* The same of the step in which a run ends: none of its early returns drops the
\* call without one of these reasons.
NoCallIsDropped ==
    [][\A r \in Run : pc[r] \in WorkerStep /\ pc'[r] = "done" =>
          IsRecorded(r)' \/ LinkLost(host[r])' \/ HalfMade(module_name[r])']_vars

---------------------------------------------------------------------------------
(* What a caller may rely on: the ledger of tasks. *)

status ==
    [r \in Run |->
        IF \E m \in processing_module : m.id = r
        THEN (CHOOSE m \in processing_module : m.id = r).status ELSE "none"]

returned ==
    [r \in Run |->
        IF verdict[r] = "none" THEN "none"
        ELSE IF r \in ret THEN "true" ELSE "false"]

Ledger == INSTANCE TaskLedger WITH Task <- Run

\* The controller implements the ledger.
LedgerSpec == Ledger!Spec
=================================================================================
