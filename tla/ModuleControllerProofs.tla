------------------------- MODULE ModuleControllerProofs -------------------------
(***************************************************************************)
(* Theorems about ModuleController, for any processes, calls, modules,     *)
(* faults and builds: the types, the list of tasks, and the ledger that    *)
(* the controller implements; then what holds of joined calls only, and    *)
(* of one process that is alone with its database.                         *)
(***************************************************************************)
EXTENDS ModuleController, TLAPS

---------------------------------------------------------------------------------
(* A statement. *)

\* Whatever the server does, the connection ends up in a state PQstatus can
\* report.
LEMMA ConnTyped ==
    ASSUME NEW p, NEW legal, NEW applied, NEW result,
           conn \in [Process -> ConnState], Statement(p, legal, applied, result)
    PROVE  conn' \in [Process -> ConnState]
  BY DEF Statement, Answer, Login, ConnState

\* What is carried out was legal, and an answer "ok" means carried out.
LEMMA StatementFacts ==
    ASSUME NEW p, NEW legal, NEW applied \in BOOLEAN, NEW result,
           Statement(p, legal, applied, result)
    PROVE  /\ applied => legal
           /\ result = "ok" => applied
  BY Zenon DEF Statement, Answer

\* A generated UUID stands for the run it was made for, or is empty.
LEMMA UuidTyped ==
    ASSUME NEW r \in Run, NEW uuid \in GeneratedUuid(r)
    PROVE  uuid \in Run \cup {""}
  BY DEF GeneratedUuid, When

\* The name of a role, a schema and a module is made of known parts.
LEMMA OwnTextFacts ==
    ASSUME NEW r \in Run, TypeOK
    PROVE  /\ OwnText(r) \in VersionTexts \cup {0}
           /\ spec[r].plugin_name \in PluginName
           /\ spec[r].plugin_version \in Nat
<1>1. spec[r] \in PluginSpecs \cup {DefaultSpec}
  BY DEF TypeOK, CalledSpec
<1>2. CASE spec[r] \in PluginSpecs
  <2>1. spec[r] \in PluginSpec
    BY <1>2, ControllerAssumption DEF ControllerAssumption
  <2> QED
    BY <1>2, <2>1 DEF OwnText, VersionTexts, PluginSpec, PluginName
<1>3. CASE spec[r] = DefaultSpec
  <2>1. VersionText(DefaultSpec.plugin_version) = 0
    BY DEF VersionText, DefaultSpec
  <2>2. DefaultSpec.plugin_name = "" /\ DefaultSpec.plugin_version = 0
    BY DEF DefaultSpec
  <2>3. OwnText(r) = 0
    BY <1>3, <2>1 DEF OwnText
  <2>4. spec[r].plugin_name = "" /\ spec[r].plugin_version = 0
    BY <1>3, <2>2, Zenon
  <2>5. OwnText(r) \in VersionTexts \cup {0}
    BY <2>3
  <2>6. spec[r].plugin_name \in PluginName
    BY <2>4 DEF PluginName
  <2>7. spec[r].plugin_version \in Nat
    <3>1. 0 \in Nat
      OBVIOUS
    <3> QED
      BY <2>4, <3>1, Zenon
  <2> QED
    BY <2>5, <2>6, <2>7
<1> QED
  BY <1>1, <1>2, <1>3

\* A changed status changes nothing else.
LEMMA WithStatusFacts ==
    ASSUME NEW row \in ProcessingModule, NEW value \in {"STARTING", "SUCCESS", "FAILURE"}
    PROVE  /\ WithStatus(row, value) \in ProcessingModule
           /\ WithStatus(row, value).id = row.id
           /\ WithStatus(row, value).module_id = row.module_id
           /\ WithStatus(row, value).table_name = row.table_name
           /\ WithStatus(row, value).status = value
  BY Zenon DEF WithStatus, ProcessingModule

---------------------------------------------------------------------------------
(* Types. *)

\* Before the first call every variable has its type.
LEMMA TypeInit == Init => TypeOK
<1> SUFFICES ASSUME Init PROVE TypeOK
  OBVIOUS
<1>1. NoName \in ModuleName /\ DefaultSpec \in CalledSpec
  BY DEF NoName, ModuleName, PluginName, CalledSpec
<1>2. spec \in [Run -> CalledSpec]
  BY <1>1, Zenon DEF Init
<1>3. module_name \in [Run -> ModuleName]
  BY <1>1, Zenon DEF Init
<1> QED
  BY <1>2, <1>3 DEF Init, TypeOK, Steps, ConnState, Verdict

\* The end of a process changes no types.
LEMMA TypeStop ==
    ASSUME NEW p \in Process \cup {""}, TypeOK, Stop(p)
    PROVE  TypeOK'
<1>1. pc' \in [Run -> Steps]
  BY DEF Stop, TypeOK, Steps, Ended
<1>2. buffer' \in [Process -> VersionTexts \cup {0}] /\ conn' \in [Process -> ConnState]
  BY DEF Stop, TypeOK, ConnState
<1> QED
  BY <1>1, <1>2 DEF Stop, TypeOK, service, call, account, outcome, database

\* A run that was called has a process: what the run reads through it (its
\* buffer, its connection) is defined.
Hosted == \A r \in Run : pc[r] # "idle" => host[r] \in Process

\* ... nor does it move a run that was called off its process.
LEMMA StopHosted ==
    ASSUME NEW p, TypeOK, Hosted, Stop(p)
    PROVE  Hosted'
<1>1. \A r \in Run : pc'[r] # "idle" => pc[r] # "idle"
  BY DEF Stop, Active, CallerStep, WorkerStep
<1> QED
  BY <1>1 DEF Stop, Hosted, service, call

\* A step of a run is the end of its process or leaves the other runs alone.
LEMMA StepMoves ==
    ASSUME NEW r \in Run, TypeOK, Step(r)
    PROVE  \/ \E p : Stop(p)
           \/ pc[r] # "idle" /\ UNCHANGED host /\ \A q \in Run \ {r} : pc'[q] = pc[q]
<1> USE DEF TypeOK, Goto, service, call
<1>1. CASE Reconnect(r)        BY <1>1 DEF Reconnect
<1>2. CASE FormatName(r)       BY <1>2 DEF FormatName
<1>3. CASE ReadName(r)         BY <1>3 DEF ReadName
<1>4. CASE IsUserExists(r)     BY <1>4 DEF IsUserExists
<1>5. CASE CreateUser(r)       BY <1>5 DEF CreateUser
<1>6. CASE InsertUserModule(r) BY <1>6 DEF InsertUserModule
<1>7. CASE ClearTwice(r)       BY <1>7 DEF ClearTwice
<1>8. CASE CreateSchema(r)     BY <1>8 DEF CreateSchema
<1>9. CASE UpdatePassword(r)   BY <1>9 DEF UpdatePassword
<1>10. CASE CreateTable(r)     BY <1>10 DEF CreateTable
<1>11. CASE AlterTable(r)      BY <1>11 DEF AlterTable
<1>12. CASE InsertProcessing(r) BY <1>12 DEF InsertProcessing
<1>13. CASE Execute(r)         BY <1>13 DEF Execute
<1>14. CASE ScriptCrash(r)     BY <1>14 DEF ScriptCrash
<1>15. CASE UpdateComplete(r)  BY <1>15 DEF UpdateComplete
<1> QED
  BY <1>1, <1>2, <1>3, <1>4, <1>5, <1>6, <1>7, <1>8, <1>9, <1>10, <1>11, <1>12, <1>13,
     <1>14, <1>15 DEF Step

\* So a step of a run leaves every run that was called on its process.
LEMMA StepHosted ==
    ASSUME NEW r \in Run, TypeOK, Hosted, Step(r)
    PROVE  Hosted'
<1>1. CASE \E p : Stop(p)
  BY <1>1, StopHosted
<1>2. CASE pc[r] # "idle" /\ UNCHANGED host /\ \A q \in Run \ {r} : pc'[q] = pc[q]
  BY <1>2 DEF Hosted
<1> QED
  BY <1>1, <1>2, StepMoves

\* No step of module_call or of the reconnect before it breaks a type.
LEMMA TypeStep ==
    ASSUME NEW r \in Run, TypeOK, Hosted, Step(r)
    PROVE  TypeOK'
<1>1. CASE Reconnect(r)
  <2>1. pc' \in [Run -> Steps]
    BY <1>1 DEF TypeOK, Goto, Reconnect, Steps, WorkerStep
  <2>2. conn' \in [Process -> ConnState]
    BY <1>1 DEF TypeOK, Reconnect, Login
  <2> QED
    BY <1>1, <2>1, <2>2 DEF TypeOK, service, call, account, outcome, database, Reconnect
<1>2. CASE FormatName(r)
  <2>1. pc' \in [Run -> Steps]
    BY <1>2 DEF TypeOK, Goto, FormatName, Steps, WorkerStep
  <2>2. buffer' \in [Process -> VersionTexts \cup {0}]
    BY <1>2, OwnTextFacts DEF TypeOK, FormatName
  <2> QED
    BY <1>2, <2>1, <2>2 DEF TypeOK, service, call, account, outcome, database, FormatName
<1>3. CASE ReadName(r)
  <2>1. pc' \in [Run -> Steps]
    BY <1>3 DEF TypeOK, Goto, ReadName, Steps, WorkerStep, Ended
  <2>2. buffer[host[r]] \in VersionTexts \cup {0}
    BY <1>3 DEF TypeOK, Hosted, ReadName
  <2>3. PICK text \in IF Formatting(r) THEN VersionTexts ELSE {buffer[host[r]]} :
           module_name' = [module_name EXCEPT ![r] =
                              [version |-> text, name |-> spec[r].plugin_name]]
    BY <1>3, Zenon DEF ReadName
  <2>4. text \in VersionTexts \cup {0}
    BY <2>2
  <2>5. [version |-> text, name |-> spec[r].plugin_name] \in ModuleName
    BY <2>4, OwnTextFacts DEF ModuleName
  <2>6. module_name' \in [Run -> ModuleName]
    BY <2>3, <2>5 DEF TypeOK
  <2> QED
    BY <1>3, <2>1, <2>6 DEF TypeOK, service, call, account, outcome, database, ReadName
<1>4. CASE IsUserExists(r)
  <2>1. pc' \in [Run -> Steps]
    BY <1>4 DEF TypeOK, Goto, IsUserExists, Steps, WorkerStep
  <2>2. conn' \in [Process -> ConnState]
    BY <1>4, ConnTyped DEF TypeOK, IsUserExists
  <2> QED
    BY <1>4, <2>1, <2>2 DEF TypeOK, service, call, account, outcome, database, IsUserExists
<1>5. CASE CreateUser(r)
  <2>1. PICK uuid \in GeneratedUuid(r), applied \in BOOLEAN, result \in Results :
           /\ Statement(host[r], ~RoleExists(module_name[r]), applied, result)
           /\ pg_roles' = pg_roles \cup
                 When(applied, {[rolname |-> module_name[r], password |-> uuid]})
           /\ user_password' = [user_password EXCEPT ![r] = uuid]
    BY <1>5, Zenon DEF CreateUser
  <2>2. pc' \in [Run -> Steps]
    BY <1>5 DEF TypeOK, Goto, CreateUser, Steps, WorkerStep
  <2>3. conn' \in [Process -> ConnState]
    BY <2>1, ConnTyped DEF TypeOK
  <2>4. [rolname |-> module_name[r], password |-> uuid] \in Role
    BY UuidTyped DEF TypeOK, Role
  <2>5. pg_roles' \subseteq Role
    BY <2>1, <2>4 DEF TypeOK, When
  <2>6. user_password' \in [Run -> Run \cup {""}]
    BY <2>1, UuidTyped DEF TypeOK
  <2>7. ret' \subseteq Run
    BY <1>5 DEF TypeOK, CreateUser, SetRet
  <2> QED
    BY <1>5, <2>2, <2>3, <2>5, <2>6, <2>7
       DEF TypeOK, service, call, account, outcome, database, CreateUser
<1>6. CASE InsertUserModule(r)
  <2> DEFINE row == [ id |-> r, user_name |-> module_name[r],
                      user_password |-> user_password[r],
                      module_name |-> spec[r].plugin_name,
                      module_version |-> spec[r].plugin_version,
                      schema_name |-> module_name[r] ]
  <2>1. PICK applied \in BOOLEAN, result \in Results :
           /\ Statement(host[r], TRUE, applied, result)
           /\ user_module' = user_module \cup When(applied, {row})
    BY <1>6, Zenon DEF InsertUserModule
  <2>2. pc' \in [Run -> Steps]
    BY <1>6 DEF TypeOK, Goto, InsertUserModule, Steps, WorkerStep, Ended
  <2>3. conn' \in [Process -> ConnState]
    BY <2>1, ConnTyped DEF TypeOK
  <2>4. row \in UserModule
    BY OwnTextFacts DEF TypeOK, UserModule
  <2>5. user_module' \subseteq UserModule
    BY <2>1, <2>4 DEF TypeOK, When
  <2>6. module_id' \in [Run -> Run \cup {""}]
    BY <1>6 DEF TypeOK, InsertUserModule
  <2>7. ret' \subseteq Run
    BY <1>6 DEF TypeOK, InsertUserModule, SetRet
  <2> QED
    BY <1>6, <2>2, <2>3, <2>5, <2>6, <2>7
       DEF TypeOK, service, call, account, outcome, database, InsertUserModule
<1>7. CASE ClearTwice(r)
  <2>1. CASE Goto(r, "done") /\ UNCHANGED <<service, buffer, conn, database>>
    BY <2>1 DEF TypeOK, Goto, service, call, account, outcome, database, Steps, Ended
  <2>2. CASE Stop(host[r])
    <3>1. host[r] \in Process \cup {""}
      BY DEF TypeOK
    <3> QED
      BY <2>2, <3>1, TypeStop
  <2> QED
    BY <1>7, <2>1, <2>2 DEF ClearTwice
<1>8. CASE CreateSchema(r)
  <2>1. PICK applied \in BOOLEAN, result \in Results :
           /\ Statement(host[r], RoleExists(module_name[r]), applied, result)
           /\ schemata' = schemata \cup When(applied, {module_name[r]})
    BY <1>8, Zenon DEF CreateSchema
  <2>2. pc' \in [Run -> Steps]
    BY <1>8 DEF TypeOK, Goto, CreateSchema, Steps, WorkerStep, Continue, Ended
  <2>3. conn' \in [Process -> ConnState]
    BY <2>1, ConnTyped DEF TypeOK
  <2>4. schemata' \subseteq ModuleName
    BY <2>1 DEF TypeOK, When
  <2> QED
    BY <1>8, <2>2, <2>3, <2>4
       DEF TypeOK, service, call, account, outcome, database, CreateSchema
<1>9. CASE UpdatePassword(r)
  <2>1. PICK applied \in BOOLEAN, result \in Results :
           /\ Statement(host[r], TRUE, applied, result)
    BY <1>9, Zenon DEF UpdatePassword
  <2>2. pc' \in [Run -> Steps]
    BY <1>9 DEF TypeOK, Goto, UpdatePassword, Steps, WorkerStep, Ended
  <2>3. conn' \in [Process -> ConnState]
    BY <2>1, ConnTyped DEF TypeOK
  <2>4. \A u \in Accounts(module_name[r]) : u.id \in Run /\ u.user_password \in Run \cup {""}
    BY DEF TypeOK, Accounts, UserModule
  <2>5. user_password' \in [Run -> Run \cup {""}]
    BY <1>9, <2>4 DEF TypeOK, UpdatePassword, account
  <2>6. module_id' \in [Run -> Run \cup {""}]
    BY <1>9, <2>4 DEF TypeOK, UpdatePassword, account
  <2> QED
    BY <1>9, <2>2, <2>3, <2>5, <2>6
       DEF TypeOK, service, call, account, outcome, database, UpdatePassword
<1>10. CASE CreateTable(r)
  <2>1. PICK uuid \in GeneratedUuid(r), applied \in BOOLEAN, result \in Results :
           /\ Statement(host[r], uuid # "" /\ module_name[r] \in schemata, applied, result)
           /\ tables' = tables \cup When(applied,
                 {[name |-> uuid, schema |-> module_name[r], owner |-> SystemUser]})
           /\ output_table' = [output_table EXCEPT ![r] = IF result = "ok" THEN uuid ELSE ""]
    BY <1>10, Zenon DEF CreateTable
  <2>2. pc' \in [Run -> Steps]
    BY <1>10 DEF TypeOK, Goto, CreateTable, Steps, WorkerStep, Continue, Ended
  <2>3. conn' \in [Process -> ConnState]
    BY <2>1, ConnTyped DEF TypeOK
  <2>4. output_table' \in [Run -> Run \cup {""}]
    BY <2>1, UuidTyped DEF TypeOK
  <2>5. applied => uuid \in Run
    BY <2>1, StatementFacts, UuidTyped
  <2>6. applied => [name |-> uuid, schema |-> module_name[r], owner |-> SystemUser] \in Table
    BY <2>5 DEF TypeOK, Table
  <2>7. tables' \subseteq Table
    BY <2>1, <2>6 DEF TypeOK, When
  <2> QED
    BY <1>10, <2>2, <2>3, <2>4, <2>7
       DEF TypeOK, service, call, account, outcome, database, CreateTable
<1>11. CASE AlterTable(r)
  <2> DEFINE old == {t \in tables : t.name = output_table[r] /\ t.schema = module_name[r]}
             new == [ name |-> output_table[r], schema |-> module_name[r],
                      owner |-> module_name[r] ]
  <2>1. PICK applied \in BOOLEAN, result \in Results :
           /\ Statement(host[r], RoleExists(module_name[r]) /\ old # {}, applied, result)
           /\ tables' = IF applied THEN (tables \ old) \cup {new} ELSE tables
    BY <1>11, Zenon DEF AlterTable
  <2>2. pc' \in [Run -> Steps]
    BY <1>11 DEF TypeOK, Goto, AlterTable, Steps, WorkerStep, Continue, Ended
  <2>3. conn' \in [Process -> ConnState]
    BY <2>1, ConnTyped DEF TypeOK
  <2>4. output_table' \in [Run -> Run \cup {""}]
    BY <1>11 DEF TypeOK, AlterTable
  <2>5. applied => old # {}
    BY <2>1, StatementFacts, Zenon
  <2>6. old # {} => output_table[r] \in Run
    BY DEF TypeOK, Table
  <2>7. applied => new \in Table
    BY <2>5, <2>6 DEF TypeOK, Table
  <2>8. tables' \subseteq Table
    BY <2>1, <2>7 DEF TypeOK
  <2> QED
    BY <1>11, <2>2, <2>3, <2>4, <2>8
       DEF TypeOK, service, call, account, outcome, database, AlterTable
<1>12. CASE InsertProcessing(r)
  <2> DEFINE row == [ id |-> r, module_id |-> module_id[r], table_name |-> output_table[r],
                      status |-> "STARTING" ]
  <2>1. PICK applied \in BOOLEAN, result \in Results :
           /\ Statement(host[r], \E u \in user_module : u.id = module_id[r], applied, result)
           /\ processing_module' = processing_module \cup When(applied, {row})
    BY <1>12, Zenon DEF InsertProcessing
  <2>2. pc' \in [Run -> Steps]
    BY <1>12 DEF TypeOK, Goto, InsertProcessing, Steps, WorkerStep, Continue, Ended
  <2>3. conn' \in [Process -> ConnState]
    BY <2>1, ConnTyped DEF TypeOK
  <2>4. output_table' \in [Run -> Run \cup {""}]
    BY <1>12 DEF TypeOK, InsertProcessing
  <2>5. row \in ProcessingModule
    BY DEF TypeOK, ProcessingModule
  <2>6. processing_module' \subseteq ProcessingModule
    BY <2>1, <2>5 DEF TypeOK, When
  <2> QED
    BY <1>12, <2>2, <2>3, <2>4, <2>6
       DEF TypeOK, service, call, account, outcome, database, InsertProcessing
<1>13. CASE Execute(r)
  <2>1. pc' \in [Run -> Steps]
    BY <1>13 DEF TypeOK, Goto, Execute, Steps, WorkerStep
  <2>2. ret' \subseteq Run
    BY <1>13 DEF TypeOK, Execute, SetRet
  <2>3. verdict' \in [Run -> Verdict]
    BY <1>13 DEF TypeOK, Execute
  <2> QED
    BY <1>13, <2>1, <2>2, <2>3
       DEF TypeOK, service, call, account, outcome, database, Execute
<1>14. CASE ScriptCrash(r)
  <2>1. host[r] \in Process \cup {""}
    BY DEF TypeOK
  <2> QED
    BY <1>14, <2>1, TypeStop DEF ScriptCrash
<1>15. CASE UpdateComplete(r)
  <2> DEFINE status_text == IF r \in ret THEN "SUCCESS" ELSE "FAILURE"
  <2>1. PICK applied \in BOOLEAN, result \in Results :
           /\ Statement(host[r], TRUE, applied, result)
           /\ processing_module' =
                IF applied
                THEN (processing_module \ TaskRow(r))
                        \cup {WithStatus(m, status_text) : m \in TaskRow(r)}
                ELSE processing_module
    BY <1>15, Zenon DEF UpdateComplete
  <2>2. pc' \in [Run -> Steps]
    BY <1>15 DEF TypeOK, Goto, UpdateComplete, Steps, Ended
  <2>3. conn' \in [Process -> ConnState]
    BY <2>1, ConnTyped DEF TypeOK
  <2>4. output_table' \in [Run -> Run \cup {""}]
    BY <1>15 DEF TypeOK, UpdateComplete
  <2>5. \A m \in TaskRow(r) : WithStatus(m, status_text) \in ProcessingModule
    BY WithStatusFacts DEF TypeOK, TaskRow
  <2>6. processing_module' \subseteq ProcessingModule
    BY <2>1, <2>5 DEF TypeOK
  <2> QED
    BY <1>15, <2>2, <2>3, <2>4, <2>6
       DEF TypeOK, service, call, account, outcome, database, UpdateComplete
<1> QED
  BY <1>1, <1>2, <1>3, <1>4, <1>5, <1>6, <1>7, <1>8, <1>9, <1>10, <1>11, <1>12, <1>13,
     <1>14, <1>15 DEF Step

\* Types, and that a run which was called has a process, are inductive.
LEMMA TypeNext == TypeOK /\ Hosted /\ [Next]_vars => TypeOK' /\ Hosted'
<1> SUFFICES ASSUME TypeOK, Hosted, [Next]_vars PROVE TypeOK' /\ Hosted'
  OBVIOUS
<1>1. ASSUME NEW p \in Process, NEW r \in Run, NEW plugin \in PluginSpecs,
             NEW context \in BOOLEAN, Call(p, r, plugin, context)
      PROVE  TypeOK' /\ Hosted'
  <2>1. TypeOK'
    BY <1>1 DEF Call, CalledSpec, TypeOK, account, outcome, database, Goto, Steps,
                CallerStep, WorkerStep, Ended
  <2>2. Hosted'
    BY <1>1 DEF Call, Hosted, TypeOK, Goto
  <2> QED
    BY <2>1, <2>2
<1>2. ASSUME NEW p \in Process, Die(p) PROVE TypeOK' /\ Hosted'
  BY <1>2, TypeStop, StopHosted DEF Die
<1>3. ASSUME NEW r \in Run, Step(r) PROVE TypeOK' /\ Hosted'
  BY <1>3, TypeStep, StepHosted
<1>4. CASE UNCHANGED vars
  BY <1>4 DEF TypeOK, Hosted, vars, service, call, account, outcome, database
<1> QED
  BY <1>1, <1>2, <1>3, <1>4 DEF Next, Finished

\* Every variable keeps its type, whatever the constants are.
THEOREM TypeCorrect == Spec => []TypeOK
<1>1. Init => Hosted
  BY DEF Init, Hosted
<1> QED
  BY <1>1, TypeInit, TypeNext, PTL DEF Spec

---------------------------------------------------------------------------------
(* The list of tasks. *)

\* There are no accounts and no tasks before the first call.
LEMMA TaskListInit == Init => TaskListInv
  BY DEF Init, TaskListInv, NoAccountYet, AccountNamed, AccountFound, TableOwned, TaskNamed,
         TaskListSound, Registering

\* What the invariant reads, besides pc.
read == <<module_name, module_id, output_table, tables, user_module, processing_module>>

\* What a process leaves in the database when it ends is as sound as before.
LEMMA TaskListStop ==
    ASSUME NEW p, TypeOK, TaskListInv, Stop(p)
    PROVE  TaskListInv'
<1>1. UNCHANGED read
  BY DEF Stop, read, service, account, database
<1>2. \A r \in Run : pc'[r] = pc[r] \/ (pc'[r] = "dead" /\ pc[r] \notin Ended)
  <2>1. \A r \in Run : pc'[r] = pc[r] \/ (pc'[r] = "dead" /\ Active(r))
    BY DEF Stop
  <2>2. \A r \in Run : Active(r) => pc[r] \notin Ended
    BY DEF Active, CallerStep, WorkerStep, Ended
  <2> QED
    BY <2>1, <2>2
<1>3. NoAccountYet'
  BY <1>1, <1>2 DEF TaskListInv, NoAccountYet, BeforeAccount, read
<1>4. AccountNamed'
  BY <1>1, <1>2 DEF TaskListInv, AccountNamed, PastAccount, Ended, read, TypeOK, UserModule
<1>5. AccountFound'
  BY <1>1, <1>2 DEF TaskListInv, AccountFound, Registering, read
<1>6. TableOwned'
  BY <1>1, <1>2 DEF TaskListInv, TableOwned, read
<1>7. TaskNamed'
  BY <1>1, <1>2 DEF TaskListInv, TaskNamed, Ended, read, TypeOK, ProcessingModule
<1>8. TaskListSound'
  BY <1>1 DEF TaskListInv, TaskListSound, read
<1> QED
  BY <1>3, <1>4, <1>5, <1>6, <1>7, <1>8 DEF TaskListInv

\* A run that only goes on, without losing what it owes at its new step.
LEMMA TaskListGoto ==
    ASSUME NEW r \in Run, NEW step, TypeOK, TaskListInv, Goto(r, step), UNCHANGED read,
           pc[r] \notin Ended,
           pc[r] \in PastAccount => step \in PastAccount,
           step \in BeforeAccount => pc[r] \in BeforeAccount,
           step \in Registering => pc[r] \in Registering,
           step \notin {"alter_table", "insert_processing"},
           pc[r] \in {"execute", "complete"} => step \in {"execute", "complete"} \cup Ended
    PROVE  TaskListInv'
<1>1. pc'[r] = step /\ \A q \in Run \ {r} : pc'[q] = pc[q]
  BY DEF Goto, TypeOK
<1>3. NoAccountYet'
  BY <1>1 DEF TaskListInv, NoAccountYet, read
<1>4. AccountNamed'
  BY <1>1 DEF TaskListInv, AccountNamed, read, TypeOK, UserModule
<1>5. AccountFound'
  BY <1>1 DEF TaskListInv, AccountFound, read
<1>6. TableOwned'
  BY <1>1 DEF TaskListInv, TableOwned, read
<1>7. TaskNamed'
  BY <1>1 DEF TaskListInv, TaskNamed, read, TypeOK, ProcessingModule
<1>8. TaskListSound'
  BY DEF TaskListInv, TaskListSound, read
<1> QED
  BY <1>3, <1>4, <1>5, <1>6, <1>7, <1>8 DEF TaskListInv

\* Rows are named after the runs that inserted them.
LEMMA RowIds ==
    ASSUME TypeOK
    PROVE  /\ \A u \in user_module : u.id \in Run
           /\ \A m \in processing_module : m.id \in Run
  BY DEF TypeOK, UserModule, ProcessingModule

\* A run gets its name while nothing is recorded under it.
LEMMA TaskListReadName ==
    ASSUME NEW r \in Run, TypeOK, TaskListInv, ReadName(r)
    PROVE  TaskListInv'
<1>1. /\ pc[r] = "named"
      /\ pc'[r] \in {"is_user_exists", "done"}
      /\ \A q \in Run \ {r} : pc'[q] = pc[q] /\ module_name'[q] = module_name[q]
  BY DEF ReadName, Goto, TypeOK
<1>2. UNCHANGED <<module_id, output_table, tables, user_module, processing_module>>
  BY DEF ReadName, account, database
<1>3. NoAccountYet'
  BY <1>1, <1>2 DEF TypeOK, TaskListInv, NoAccountYet, BeforeAccount
<1>4. AccountNamed'
  BY <1>1, <1>2, RowIds
  DEF TypeOK, TaskListInv, AccountNamed, PastAccount, Ended
<1>5. AccountFound'
  BY <1>1, <1>2 DEF TypeOK, TaskListInv, AccountFound, Registering
<1>6. TableOwned'
  BY <1>1, <1>2 DEF TypeOK, TaskListInv, TableOwned
<1>7. TaskNamed'
  BY <1>1, <1>2, RowIds
  DEF TypeOK, TaskListInv, TaskNamed, Ended
<1>8. TaskListSound'
  BY <1>1, <1>2 DEF TypeOK, TaskListInv, TaskListSound
<1> QED
  BY <1>3, <1>4, <1>5, <1>6, <1>7, <1>8 DEF TaskListInv

\* The row a run inserts bears its name; the run goes on with that row or,
\* when only its role was made, with none.
LEMMA TaskListInsertUserModule ==
    ASSUME NEW r \in Run, TypeOK, TaskListInv, InsertUserModule(r)
    PROVE  TaskListInv'
<1> DEFINE row == [ id |-> r, user_name |-> module_name[r],
                    user_password |-> user_password[r],
                    module_name |-> spec[r].plugin_name,
                    module_version |-> spec[r].plugin_version,
                    schema_name |-> module_name[r] ]
<1>1. /\ pc[r] = "insert_user"
      /\ pc'[r] \in {"create_schema", "clear_twice", "done"}
      /\ \A q \in Run \ {r} : pc'[q] = pc[q] /\ module_id'[q] = module_id[q]
  BY DEF InsertUserModule, Goto, TypeOK
<1>2. UNCHANGED <<module_name, output_table, tables, processing_module>>
  BY DEF InsertUserModule
<1>9. PICK applied \in BOOLEAN, result \in Results :
         /\ Statement(host[r], TRUE, applied, result)
         /\ user_module' = user_module \cup When(applied, {row})
         /\ \/ result = "ok" /\ module_id' = [module_id EXCEPT ![r] = r]
            \/ module_id' = module_id
  BY Zenon DEF InsertUserModule
<1>10. user_module' \in {user_module, user_module \cup {row}}
  BY <1>9 DEF When
<1>11. module_id'[r] = module_id[r] \/ (module_id'[r] = r /\ row \in user_module')
  <2>1. result = "ok" => applied
    BY <1>9, StatementFacts
  <2>2. applied => row \in user_module'
    BY <1>9 DEF When
  <2> QED
    BY <1>9, <2>1, <2>2 DEF TypeOK
<1>12. row.id = r /\ row.user_name = module_name[r] /\ row.schema_name = module_name[r]
  OBVIOUS
<1> HIDE DEF row
<1>3. NoAccountYet'
  BY <1>1, <1>2, <1>10, <1>11, <1>12 DEF TypeOK, TaskListInv, NoAccountYet, BeforeAccount
<1>4. AccountNamed'
  <2>1. ASSUME NEW u \in user_module
        PROVE  /\ u.user_name = module_name'[u.id]
               /\ u.schema_name = module_name'[u.id]
               /\ pc'[u.id] \in PastAccount
    BY <1>1, <1>2, RowIds DEF TaskListInv, AccountNamed, PastAccount, Ended
  <2>2. /\ row.user_name = module_name'[row.id]
        /\ row.schema_name = module_name'[row.id]
        /\ pc'[row.id] \in PastAccount
    BY <1>1, <1>2, <1>12 DEF PastAccount, Ended
  <2> QED
    BY <1>10, <2>1, <2>2 DEF AccountNamed
<1>5. AccountFound'
  <2>1. user_module \subseteq user_module'
    BY <1>10
  <2>2. ASSUME NEW q \in Run, q # r, pc'[q] \in Registering, module_id'[q] # ""
        PROVE  \E u \in user_module' : u.id = module_id'[q] /\ u.user_name = module_name'[q]
    BY <1>1, <1>2, <2>1, <2>2 DEF TaskListInv, AccountFound
  <2>3. module_id[r] = ""
    BY <1>1 DEF TaskListInv, NoAccountYet, BeforeAccount
  <2>4. ASSUME module_id'[r] # ""
        PROVE  \E u \in user_module' : u.id = module_id'[r] /\ u.user_name = module_name'[r]
    BY <1>2, <1>11, <1>12, <2>3, <2>4
  <2> QED
    BY <2>2, <2>4 DEF AccountFound
<1>6. TableOwned'
  BY <1>1, <1>2, <1>10, <1>11, <1>12 DEF TypeOK, TaskListInv, TableOwned
<1>7. TaskNamed'
  BY <1>1, <1>2, <1>10, <1>11, <1>12, RowIds
  DEF TypeOK, TaskListInv, TaskNamed, Ended
<1>8. TaskListSound'
  BY <1>1, <1>2, <1>10, <1>11, <1>12 DEF TypeOK, TaskListInv, TaskListSound
<1> QED
  BY <1>3, <1>4, <1>5, <1>6, <1>7, <1>8 DEF TaskListInv

\* A run that found its role goes on with a row of its own name.
LEMMA TaskListUpdatePassword ==
    ASSUME NEW r \in Run, TypeOK, TaskListInv, UpdatePassword(r)
    PROVE  TaskListInv'
<1>1. /\ pc[r] = "update_password"
      /\ pc'[r] \in {"create_table", "done"}
      /\ \A q \in Run \ {r} : pc'[q] = pc[q] /\ module_id'[q] = module_id[q]
  BY DEF UpdatePassword, Goto, account, TypeOK
<1>2. UNCHANGED <<module_name, output_table, tables, user_module, processing_module>>
  BY DEF UpdatePassword, database
<1>9. pc'[r] = "create_table" =>
         \E u \in user_module : u.id = module_id'[r] /\ u.user_name = module_name[r]
  BY DEF UpdatePassword, Accounts, Goto, TypeOK
<1>3. NoAccountYet'
  BY <1>1, <1>2, <1>9 DEF TypeOK, TaskListInv, NoAccountYet, BeforeAccount
<1>4. AccountNamed'
  BY <1>1, <1>2, <1>9, RowIds
  DEF TypeOK, TaskListInv, AccountNamed, PastAccount, Ended
<1>5. AccountFound'
  BY <1>1, <1>2, <1>9 DEF TypeOK, TaskListInv, AccountFound, Registering
<1>6. TableOwned'
  BY <1>1, <1>2, <1>9 DEF TypeOK, TaskListInv, TableOwned
<1>7. TaskNamed'
  BY <1>1, <1>2, <1>9, RowIds
  DEF TypeOK, TaskListInv, TaskNamed, Ended
<1>8. TaskListSound'
  BY <1>1, <1>2, <1>9 DEF TypeOK, TaskListInv, TaskListSound
<1> QED
  BY <1>3, <1>4, <1>5, <1>6, <1>7, <1>8 DEF TaskListInv

\* A new table is named after the run that asked for it.
LEMMA TaskListCreateTable ==
    ASSUME NEW r \in Run, TypeOK, TaskListInv, CreateTable(r)
    PROVE  TaskListInv'
<1>1. /\ pc[r] = "create_table"
      /\ pc'[r] \in {"alter_table", "done"}
      /\ \A q \in Run \ {r} : pc'[q] = pc[q] /\ output_table'[q] = output_table[q]
  BY DEF CreateTable, Goto, Continue, TypeOK
<1>2. UNCHANGED <<module_name, module_id, user_module, processing_module>>
  BY DEF CreateTable, account
<1>9. PICK uuid \in GeneratedUuid(r), applied \in BOOLEAN, result \in Results :
         /\ Statement(host[r], uuid # "" /\ module_name[r] \in schemata, applied, result)
         /\ tables' = tables \cup When(applied,
               {[name |-> uuid, schema |-> module_name[r], owner |-> SystemUser]})
         /\ output_table' = [output_table EXCEPT ![r] = IF result = "ok" THEN uuid ELSE ""]
         /\ pc' = [pc EXCEPT ![r] = IF result = "ok" THEN "alter_table" ELSE "done"]
  BY Zenon DEF CreateTable, Goto, Continue
<1>10. tables \subseteq tables'
  BY <1>9
<1>11. pc'[r] = "alter_table" => output_table'[r] = r
  <2>1. uuid \in {r, ""}
    BY DEF GeneratedUuid, When
  <2>2. result = "ok" => applied /\ (applied => uuid # "" /\ module_name[r] \in schemata)
    BY <1>9, StatementFacts, Zenon
  <2> QED
    BY <1>9, <2>1, <2>2 DEF TypeOK
<1>3. NoAccountYet'
  BY <1>1, <1>2, <1>10, <1>11 DEF TypeOK, TaskListInv, NoAccountYet, BeforeAccount
<1>4. AccountNamed'
  BY <1>1, <1>2, <1>10, <1>11, RowIds
  DEF TypeOK, TaskListInv, AccountNamed, PastAccount, Ended
<1>5. AccountFound'
  BY <1>1, <1>2, <1>10, <1>11 DEF TypeOK, TaskListInv, AccountFound, Registering
<1>6. TableOwned'
  BY <1>1, <1>2, <1>10, <1>11 DEF TypeOK, TaskListInv, TableOwned
<1>7. TaskNamed'
  BY <1>1, <1>2, <1>10, <1>11, RowIds
  DEF TypeOK, TaskListInv, TaskNamed, Ended
<1>8. TaskListSound'
  BY <1>1, <1>2, <1>10, <1>11 DEF TypeOK, TaskListInv, TaskListSound
<1> QED
  BY <1>3, <1>4, <1>5, <1>6, <1>7, <1>8 DEF TaskListInv

\* A run changes the owner of its own table only.
LEMMA TaskListAlterTable ==
    ASSUME NEW r \in Run, TypeOK, TaskListInv, AlterTable(r)
    PROVE  TaskListInv'
<1> DEFINE old == {t \in tables : t.name = output_table[r] /\ t.schema = module_name[r]}
           new == [ name |-> output_table[r], schema |-> module_name[r],
                    owner |-> module_name[r] ]
<1>1. /\ pc[r] = "alter_table"
      /\ pc'[r] \in {"insert_processing", "done"}
      /\ \A q \in Run \ {r} : pc'[q] = pc[q] /\ output_table'[q] = output_table[q]
  BY DEF AlterTable, Goto, Continue, TypeOK
<1>2. UNCHANGED <<module_name, module_id, user_module, processing_module>>
  BY DEF AlterTable, account
<1>9. PICK applied \in BOOLEAN, result \in Results :
         /\ Statement(host[r], RoleExists(module_name[r]) /\ old # {}, applied, result)
         /\ tables' = IF applied THEN (tables \ old) \cup {new} ELSE tables
         /\ output_table' = [output_table EXCEPT ![r] =
                                IF result = "ok" THEN output_table[r] ELSE ""]
         /\ pc' = [pc EXCEPT ![r] = IF result = "ok" THEN "insert_processing" ELSE "done"]
  BY Zenon DEF AlterTable, Goto, Continue
<1>10. output_table[r] = r
  BY <1>1 DEF TaskListInv, TableOwned
<1>11. \A t \in tables : t.name # r => t \in tables'
  BY <1>9, <1>10
<1>12. pc'[r] = "insert_processing" =>
          /\ output_table'[r] = r
          /\ [name |-> r, schema |-> module_name[r], owner |-> module_name[r]] \in tables'
  <2>1. result = "ok" => applied
    BY <1>9, StatementFacts, Zenon
  <2> QED
    BY <1>9, <1>10, <2>1 DEF TypeOK
<1>13. ASSUME NEW q \in Run, q # r, NEW n
       PROVE  [name |-> q, schema |-> n, owner |-> n] \in tables =>
                 [name |-> q, schema |-> n, owner |-> n] \in tables'
  BY <1>11, <1>13
<1>14. \A m \in processing_module : m.table_name # r
  BY <1>1 DEF TaskListInv, TaskNamed, Ended
<1> HIDE DEF old, new
<1>3. NoAccountYet'
  BY <1>1, <1>2 DEF TypeOK, TaskListInv, NoAccountYet, BeforeAccount
<1>4. AccountNamed'
  BY <1>1, <1>2, RowIds
  DEF TypeOK, TaskListInv, AccountNamed, PastAccount, Ended
<1>5. AccountFound'
  BY <1>1, <1>2 DEF TypeOK, TaskListInv, AccountFound, Registering
<1>6. TableOwned'
  BY <1>1, <1>2, <1>12, <1>13 DEF TypeOK, TaskListInv, TableOwned
<1>7. TaskNamed'
  BY <1>1, <1>2, RowIds
  DEF TypeOK, TaskListInv, TaskNamed, Ended
<1>8. TaskListSound'
  BY <1>2, <1>11, <1>14 DEF TaskListInv, TaskListSound
<1> QED
  BY <1>3, <1>4, <1>5, <1>6, <1>7, <1>8 DEF TaskListInv

\* A recorded task joins the account of its run, and its table is that role's.
LEMMA TaskListInsertProcessing ==
    ASSUME NEW r \in Run, TypeOK, TaskListInv, InsertProcessing(r)
    PROVE  TaskListInv'
<1> DEFINE row == [ id |-> r, module_id |-> module_id[r], table_name |-> output_table[r],
                    status |-> "STARTING" ]
<1>1. /\ pc[r] = "insert_processing"
      /\ pc'[r] \in {"execute", "done"}
      /\ \A q \in Run \ {r} : pc'[q] = pc[q] /\ output_table'[q] = output_table[q]
  BY DEF InsertProcessing, Goto, Continue, TypeOK
<1>2. UNCHANGED <<module_name, module_id, tables, user_module>>
  BY DEF InsertProcessing, account
<1>9. PICK applied \in BOOLEAN, result \in Results :
         /\ Statement(host[r], \E u \in user_module : u.id = module_id[r], applied, result)
         /\ processing_module' = processing_module \cup When(applied, {row})
  BY Zenon DEF InsertProcessing
<1>10. \/ processing_module' = processing_module
       \/ /\ processing_module' = processing_module \cup {row}
          /\ \E u \in user_module : u.id = module_id[r]
  <2>1. applied => \E u \in user_module : u.id = module_id[r]
    BY <1>9, StatementFacts, Zenon
  <2> QED
    BY <1>9, <2>1 DEF When
<1>11. row.id = r /\ row.module_id = module_id[r] /\ row.table_name = r
  BY <1>1 DEF TaskListInv, TableOwned
<1>12. (\E u \in user_module : u.id = module_id[r]) =>
          \E u \in user_module :
             /\ u.id = row.module_id
             /\ [name |-> row.table_name, schema |-> u.schema_name,
                 owner |-> u.user_name] \in tables
  <2> HAVE \E u \in user_module : u.id = module_id[r]
  <2>1. module_id[r] # ""
    BY ControllerAssumption DEF ControllerAssumption, TypeOK, UserModule
  <2>2. PICK u \in user_module : u.id = module_id[r] /\ u.user_name = module_name[r]
    BY <1>1, <2>1 DEF TaskListInv, AccountFound, Registering
  <2>3. u.schema_name = module_name[r]
    BY <2>2 DEF TaskListInv, AccountNamed
  <2>4. [name |-> r, schema |-> module_name[r], owner |-> module_name[r]] \in tables
    BY <1>1 DEF TaskListInv, TableOwned
  <2> QED
    BY <1>11, <2>2, <2>3, <2>4
<1> HIDE DEF row
<1>3. NoAccountYet'
  BY <1>1, <1>2 DEF TypeOK, TaskListInv, NoAccountYet, BeforeAccount
<1>4. AccountNamed'
  BY <1>1, <1>2, RowIds
  DEF TypeOK, TaskListInv, AccountNamed, PastAccount, Ended
<1>5. AccountFound'
  BY <1>1, <1>2 DEF TypeOK, TaskListInv, AccountFound, Registering
<1>6. TableOwned'
  BY <1>1, <1>2 DEF TypeOK, TaskListInv, TableOwned
<1>7. TaskNamed'
  BY <1>1, <1>10, <1>11, RowIds
  DEF TypeOK, TaskListInv, TaskNamed, Ended
<1>8. TaskListSound'
  BY <1>2, <1>10, <1>12 DEF TaskListInv, TaskListSound
<1> QED
  BY <1>3, <1>4, <1>5, <1>6, <1>7, <1>8 DEF TaskListInv

\* A final status changes neither account nor table.
LEMMA TaskListUpdateComplete ==
    ASSUME NEW r \in Run, TypeOK, TaskListInv, UpdateComplete(r)
    PROVE  TaskListInv'
<1> DEFINE status_text == IF r \in ret THEN "SUCCESS" ELSE "FAILURE"
<1>1. /\ pc[r] = "complete"
      /\ pc'[r] = "done"
      /\ \A q \in Run \ {r} : pc'[q] = pc[q] /\ output_table'[q] = output_table[q]
  BY DEF UpdateComplete, Goto, TypeOK
<1>2. UNCHANGED <<module_name, module_id, tables, user_module>>
  BY DEF UpdateComplete, account
<1>9. PICK applied \in BOOLEAN :
         processing_module' =
            IF applied
            THEN (processing_module \ TaskRow(r))
                    \cup {WithStatus(m, status_text) : m \in TaskRow(r)}
            ELSE processing_module
  BY Zenon DEF UpdateComplete
<1>10. \A m \in processing_module' : \E n \in processing_module :
          /\ m.id = n.id
          /\ m.module_id = n.module_id
          /\ m.table_name = n.table_name
  <2>1. \A n \in TaskRow(r) :
           /\ WithStatus(n, status_text).id = n.id
           /\ WithStatus(n, status_text).module_id = n.module_id
           /\ WithStatus(n, status_text).table_name = n.table_name
    BY WithStatusFacts DEF TypeOK, TaskRow
  <2>2. TaskRow(r) \subseteq processing_module
    BY DEF TaskRow
  <2> QED
    BY <1>9, <2>1, <2>2
<1> HIDE DEF status_text
<1>3. NoAccountYet'
  BY <1>1, <1>2 DEF TypeOK, TaskListInv, NoAccountYet, BeforeAccount
<1>4. AccountNamed'
  BY <1>1, <1>2, RowIds
  DEF TypeOK, TaskListInv, AccountNamed, PastAccount, Ended
<1>5. AccountFound'
  BY <1>1, <1>2 DEF TypeOK, TaskListInv, AccountFound, Registering
<1>6. TableOwned'
  BY <1>1, <1>2 DEF TypeOK, TaskListInv, TableOwned
<1>7. TaskNamed'
  <2>1. \A n \in processing_module :
           n.table_name = n.id /\ pc'[n.id] \in {"execute", "complete"} \cup Ended
    BY <1>1, RowIds DEF TaskListInv, TaskNamed, Ended
  <2> QED
    BY <1>10, <2>1 DEF TaskNamed
<1>8. TaskListSound'
  BY <1>2, <1>10 DEF TaskListInv, TaskListSound
<1> QED
  BY <1>3, <1>4, <1>5, <1>6, <1>7, <1>8 DEF TaskListInv

\* The list of tasks survives every step of a run ...
LEMMA TaskListStep ==
    ASSUME NEW r \in Run, TypeOK, TaskListInv, Step(r)
    PROVE  TaskListInv'
<1> USE DEF Ended, PastAccount, BeforeAccount, Registering
<1>1. CASE Reconnect(r)
  BY <1>1, TaskListGoto DEF Reconnect, read, service, account, database
<1>2. CASE FormatName(r)
  BY <1>2, TaskListGoto DEF FormatName, read, service, account, database
<1>3. CASE ReadName(r)
  BY <1>3, TaskListReadName
<1>4. CASE IsUserExists(r)
  <2>1. PICK step \in {"update_password", "create_user"} : Goto(r, step)
    BY <1>4 DEF IsUserExists
  <2> QED
    BY <1>4, <2>1, TaskListGoto DEF IsUserExists, read, service, account, database
<1>5. CASE CreateUser(r)
  BY <1>5, TaskListGoto DEF CreateUser, read
<1>6. CASE InsertUserModule(r)
  BY <1>6, TaskListInsertUserModule
<1>7. CASE ClearTwice(r)
  BY <1>7, TaskListGoto, TaskListStop DEF ClearTwice, read, service, account, database
<1>8. CASE CreateSchema(r)
  <2>1. PICK step \in {"create_table", "done"} : Goto(r, step)
    BY <1>8 DEF CreateSchema, Continue
  <2> QED
    BY <1>8, <2>1, TaskListGoto DEF CreateSchema, read, service, account
<1>9. CASE UpdatePassword(r)
  BY <1>9, TaskListUpdatePassword
<1>10. CASE CreateTable(r)
  BY <1>10, TaskListCreateTable
<1>11. CASE AlterTable(r)
  BY <1>11, TaskListAlterTable
<1>12. CASE InsertProcessing(r)
  BY <1>12, TaskListInsertProcessing
<1>13. CASE Execute(r)
  BY <1>13, TaskListGoto DEF Execute, read, account, database
<1>14. CASE ScriptCrash(r)
  BY <1>14, TaskListStop DEF ScriptCrash
<1>15. CASE UpdateComplete(r)
  BY <1>15, TaskListUpdateComplete
<1> QED
  BY <1>1, <1>2, <1>3, <1>4, <1>5, <1>6, <1>7, <1>8, <1>9, <1>10, <1>11, <1>12, <1>13,
     <1>14, <1>15 DEF Step

\* ... and every step of the system.
LEMMA TaskListNext == TypeOK /\ TaskListInv /\ [Next]_vars => TaskListInv'
<1> SUFFICES ASSUME TypeOK, TaskListInv, [Next]_vars PROVE TaskListInv'
  OBVIOUS
<1>1. ASSUME NEW p \in Process, NEW r \in Run, NEW plugin \in PluginSpecs,
             NEW context \in BOOLEAN, Call(p, r, plugin, context)
      PROVE  TaskListInv'
  <2>1. PICK step \in {"done", "load", "reconnect"} : Goto(r, step)
    BY <1>1 DEF Call
  <2> QED
    BY <1>1, <2>1, TaskListGoto
       DEF Call, read, account, database, Ended, PastAccount, BeforeAccount, Registering
<1>2. ASSUME NEW p \in Process, Die(p) PROVE TaskListInv'
  BY <1>2, TaskListStop DEF Die
<1>3. CASE UNCHANGED vars
  BY <1>3 DEF vars, service, account, database, TaskListInv, NoAccountYet, AccountNamed,
              AccountFound, TableOwned, TaskNamed, TaskListSound
<1> QED
  BY <1>1, <1>2, <1>3, TaskListStep DEF Next, Finished

\* Every recorded task joins an account whose schema holds its table, and
\* whose role owns it: for any number of processes and calls, in either build,
\* whatever statements fail and wherever processes die.
THEOREM TaskListCorrect == Spec => []TaskListSound
<1>1. TypeOK /\ TaskListInv => TaskListSound
  BY DEF TaskListInv
<1>2. Init => Hosted
  BY DEF Init, Hosted
<1> QED
  BY <1>1, <1>2, TypeInit, TypeNext, TaskListInit, TaskListNext, PTL DEF Spec

---------------------------------------------------------------------------------
(***************************************************************************)
(* The controller implements the ledger of tasks, for any processes,       *)
(* calls, modules, faults and builds: its initial states are the ledger's, *)
(* and each of its steps is Register, Return or Complete of one task, or   *)
(* leaves the ledger alone.                                                *)
(***************************************************************************)

(* The invariant.  A task has one row, and not before it is registered ... *)

Recorded == {"execute", "complete"} \cup Ended

OneRow == \A m, n \in processing_module : m.id = n.id => m = n

RowRecorded == \A m \in processing_module : pc[m.id] \in Recorded

\* ... its module runs only when it has that row, and has not run before ...
RowWhenRun ==
    \A r \in Run : pc[r] \in {"execute", "complete"} =>
        \E m \in processing_module : m.id = r

RunOnce ==
    \A r \in Run : pc[r] \notin {"complete"} \cup Ended => verdict[r] = "none"

\* ... and then its row still waits for what the module returns.
Waiting ==
    \A m \in processing_module :
        pc[m.id] \in {"execute", "complete"} => m.status = "STARTING"

VerdictWhenComplete ==
    \A r \in Run : pc[r] = "complete" => verdict[r] # "none"

LedgerInv ==
    /\ OneRow
    /\ RowRecorded
    /\ RowWhenRun
    /\ RunOnce
    /\ Waiting
    /\ VerdictWhenComplete

\* Before the first call no task is recorded and no module has run.
LEMMA LedgerInit == Init => LedgerInv /\ Ledger!Init
<1> SUFFICES ASSUME Init PROVE LedgerInv /\ Ledger!Init
  OBVIOUS
<1>1. LedgerInv
  BY DEF Init, LedgerInv, OneRow, RowRecorded, RowWhenRun, RunOnce, Waiting,
         VerdictWhenComplete
<1>2. Ledger!Init
  BY DEF Init, Ledger!Init, status, returned
<1> QED
  BY <1>1, <1>2

---------------------------------------------------------------------------------
(* The mapping. *)

\* The status of a task is that of its only row.
LEMMA StatusOfRow ==
    ASSUME NEW rows, NEW r, NEW m \in rows, m.id = r, \A n \in rows : n.id = r => n = m
    PROVE  (CHOOSE n \in rows : n.id = r) = m
  OBVIOUS

\* A task whose row is left alone keeps its status.
LEMMA StatusStays ==
    ASSUME NEW q \in Run, OneRow, OneRow',
           \A n \in processing_module : n.id = q => n \in processing_module',
           \A n \in processing_module' : n.id = q => n \in processing_module
    PROVE  status'[q] = status[q]
<1>1. CASE \E n \in processing_module : n.id = q
  <2>1. PICK n \in processing_module : n.id = q
    BY <1>1
  <2>2. n \in processing_module'
    BY <2>1
  <2>3. (CHOOSE k \in processing_module : k.id = q) = n
    BY <2>1, StatusOfRow DEF OneRow
  <2>4. (CHOOSE k \in processing_module' : k.id = q) = n
    BY <2>1, <2>2, StatusOfRow DEF OneRow
  <2>5. status[q] = n.status
    BY <2>1, <2>3 DEF status
  <2>6. status'[q] = n.status
    BY <2>1, <2>2, <2>4 DEF status
  <2> QED
    BY <2>5, <2>6
<1>2. CASE ~ \E n \in processing_module : n.id = q
  BY <1>2 DEF status
<1> QED
  BY <1>1, <1>2

\* A step that touches neither the rows nor a verdict, and changes ret only
\* for runs whose module has not run, is no step of the ledger.
LEMMA LedgerStutters ==
    ASSUME UNCHANGED <<processing_module, verdict>>,
           \A q \in Run : verdict[q] # "none" => (q \in ret' <=> q \in ret)
    PROVE  UNCHANGED <<status, returned>>
<1>1. status' = status
  BY DEF status
<1>2. returned' = returned
  BY DEF returned
<1> QED
  BY <1>1, <1>2

---------------------------------------------------------------------------------
(* The steps. *)

\* Moving a run on before it is registered, or ending it then.
LEMMA LedgerGoto ==
    ASSUME NEW r \in Run, NEW step, TypeOK, LedgerInv, Goto(r, step),
           pc[r] \notin Recorded, step \notin {"execute", "complete"},
           UNCHANGED <<processing_module, verdict>>
    PROVE  LedgerInv'
<1>1. /\ pc'[r] = step
      /\ \A q \in Run \ {r} : pc'[q] = pc[q]
  BY DEF TypeOK, Goto
<1>2. \A m \in processing_module : m.id \in Run /\ m.id # r
  BY DEF TypeOK, LedgerInv, RowRecorded, ProcessingModule
<1>3. verdict[r] = "none"
  BY DEF LedgerInv, RunOnce, Recorded
<1>4. OneRow' /\ RowRecorded'
  BY <1>1, <1>2 DEF LedgerInv, OneRow, RowRecorded
<1>5. RowWhenRun' /\ RunOnce'
  BY <1>1, <1>3 DEF LedgerInv, RowWhenRun, RunOnce
<1>6. Waiting' /\ VerdictWhenComplete'
  BY <1>1, <1>2 DEF LedgerInv, Waiting, VerdictWhenComplete
<1> QED
  BY <1>4, <1>5, <1>6 DEF LedgerInv

\* The end of a process changes no row and no verdict.
LEMMA LedgerStop ==
    ASSUME NEW p, TypeOK, LedgerInv, Stop(p)
    PROVE  LedgerInv' /\ UNCHANGED <<status, returned>>
<1>1. \A q \in Run : pc'[q] = pc[q] \/ pc'[q] = "dead"
  BY DEF TypeOK, Stop
<1>2. UNCHANGED <<processing_module, verdict, ret>>
  BY DEF Stop, service, outcome, database
<1>3. \A m \in processing_module : m.id \in Run
  BY DEF TypeOK, ProcessingModule
<1>4. OneRow' /\ RowRecorded'
  BY <1>1, <1>2, <1>3 DEF LedgerInv, OneRow, RowRecorded, Recorded, Ended
<1>5. RowWhenRun' /\ RunOnce'
  BY <1>1, <1>2 DEF LedgerInv, RowWhenRun, RunOnce, Ended
<1>6. Waiting' /\ VerdictWhenComplete'
  BY <1>1, <1>2, <1>3 DEF LedgerInv, Waiting, VerdictWhenComplete
<1> QED
  BY <1>2, <1>4, <1>5, <1>6, LedgerStutters DEF LedgerInv

\* INSERT INTO processing_module registers the task, whether or not the
\* server's answer arrives; or it is not carried out.
LEMMA LedgerInsertProcessing ==
    ASSUME NEW r \in Run, TypeOK, LedgerInv, InsertProcessing(r)
    PROVE  LedgerInv' /\ (Ledger!Register(r) \/ UNCHANGED <<status, returned>>)
<1> DEFINE row == [ id |-> r, module_id |-> module_id[r], table_name |-> output_table[r],
                    status |-> "STARTING" ]
<1>1. PICK applied \in BOOLEAN, result \in Results :
         /\ Statement(host[r], \E u \in user_module : u.id = module_id[r], applied, result)
         /\ processing_module' = processing_module \cup When(applied, {row})
         /\ pc' = [pc EXCEPT ![r] = IF result = "ok" THEN "execute" ELSE "done"]
  BY Zenon DEF InsertProcessing, Goto, Continue
<1>2. UNCHANGED <<verdict, ret>> /\ pc[r] = "insert_processing"
  BY DEF InsertProcessing, outcome
<1>3. \A m \in processing_module : m.id \in Run /\ m.id # r
  BY <1>2 DEF TypeOK, LedgerInv, RowRecorded, ProcessingModule, Recorded, Ended
<1>4. /\ pc'[r] \in {"execute", "done"}
      /\ \A q \in Run \ {r} : pc'[q] = pc[q]
  BY <1>1 DEF TypeOK
<1>5. CASE applied
  <2>1. processing_module' = processing_module \cup {row}
    BY <1>1, <1>5 DEF When
  <2>2. row.id = r /\ row.status = "STARTING"
    OBVIOUS
  <2> HIDE DEF row
  <2>3. OneRow'
    BY <1>3, <2>1, <2>2 DEF LedgerInv, OneRow
  <2>4. RowRecorded' /\ Waiting'
    BY <1>3, <1>4, <2>1, <2>2 DEF LedgerInv, RowRecorded, Waiting, Recorded, Ended
  <2>5. RowWhenRun' /\ RunOnce' /\ VerdictWhenComplete'
    BY <1>2, <1>4, <2>1, <2>2
       DEF LedgerInv, RowWhenRun, RunOnce, VerdictWhenComplete, Ended
  <2>6. returned' = returned
    BY <1>2 DEF returned
  <2>7. status[r] = "none"
    BY <1>3 DEF status
  <2>8. status' = [status EXCEPT ![r] = "STARTING"]
    <3>1. (CHOOSE n \in processing_module' : n.id = r) = row
      BY <1>3, <2>1, <2>2, StatusOfRow
    <3>2. \A q \in Run \ {r} : \A n \in processing_module' :
             n.id = q => n \in processing_module
      BY <2>1, <2>2
    <3>3. \A q \in Run \ {r} : status'[q] = status[q]
      BY <2>1, <2>3, <3>2, StatusStays DEF LedgerInv
    <3>4. status'[r] = "STARTING"
      <4>1. \E n \in processing_module' : n.id = r
        BY <2>1, <2>2
      <4> QED
        BY <2>2, <3>1, <4>1 DEF status
    <3>5. status = [q \in Run |-> status[q]] /\ status' = [q \in Run |-> status'[q]]
      BY DEF status
    <3> QED
      BY <3>3, <3>4, <3>5
  <2> QED
    BY <2>3, <2>4, <2>5, <2>6, <2>7, <2>8 DEF LedgerInv, Ledger!Register
<1>6. CASE ~applied
  <2>1. UNCHANGED processing_module
    BY <1>1, <1>6 DEF When
  <2>2. result # "ok"
    BY <1>1, <1>6, StatementFacts, Zenon
  <2>3. Goto(r, "done")
    BY <1>1, <2>2 DEF Goto
  <2> QED
    BY <1>2, <2>1, <2>3, LedgerGoto, LedgerStutters DEF Recorded, Ended
<1> QED
  BY <1>5, <1>6

\* Module::execute returns, once, for a task that is registered and waiting.
LEMMA LedgerExecute ==
    ASSUME NEW r \in Run, TypeOK, LedgerInv, Execute(r)
    PROVE  LedgerInv' /\ Ledger!Return(r)
<1>1. PICK fared \in Verdict \ {"none"} :
         /\ verdict' = [verdict EXCEPT ![r] = fared]
         /\ ret' = SetRet(r, Returned(spec[r].plugin_type, fared))
  BY Zenon DEF Execute
<1>2. /\ pc[r] = "execute"
      /\ pc' = [pc EXCEPT ![r] = "complete"]
      /\ UNCHANGED processing_module
  BY DEF Execute, Goto, database
<1>3. /\ pc'[r] = "complete"
      /\ \A q \in Run \ {r} : pc'[q] = pc[q] /\ verdict'[q] = verdict[q]
      /\ \A q \in Run \ {r} : q \in ret' <=> q \in ret
      /\ verdict'[r] # "none"
  BY <1>1, <1>2 DEF TypeOK, SetRet
<1>4. \A m \in processing_module : m.id \in Run
  BY DEF TypeOK, ProcessingModule
<1>5. OneRow' /\ RowRecorded' /\ Waiting'
  BY <1>2, <1>3, <1>4 DEF LedgerInv, OneRow, RowRecorded, Waiting, Recorded
<1>6. RowWhenRun' /\ RunOnce' /\ VerdictWhenComplete'
  BY <1>2, <1>3 DEF LedgerInv, RowWhenRun, RunOnce, VerdictWhenComplete
<1>7. PICK m \in processing_module : m.id = r
  BY <1>2 DEF LedgerInv, RowWhenRun
<1>8. status[r] = "STARTING"
  <2>1. (CHOOSE n \in processing_module : n.id = r) = m
    BY <1>7, StatusOfRow DEF LedgerInv, OneRow
  <2>2. m.status = "STARTING"
    BY <1>2, <1>7 DEF LedgerInv, Waiting
  <2> QED
    BY <1>7, <2>1, <2>2 DEF status
<1>9. returned[r] = "none"
  BY <1>2 DEF LedgerInv, RunOnce, returned, Ended
<1>10. \E value \in {"true", "false"} : returned' = [returned EXCEPT ![r] = value]
  <2>1. returned' = [returned EXCEPT ![r] = IF r \in ret' THEN "true" ELSE "false"]
    BY <1>3 DEF returned
  <2> QED
    BY <2>1
<1>11. status' = status
  BY <1>2 DEF status
<1> QED
  BY <1>5, <1>6, <1>8, <1>9, <1>10, <1>11 DEF LedgerInv, Ledger!Return

\* UPDATE processing_module completes the task with what its module
\* returned; or it is not carried out.
LEMMA LedgerUpdateComplete ==
    ASSUME NEW r \in Run, TypeOK, LedgerInv, UpdateComplete(r)
    PROVE  LedgerInv' /\ (Ledger!Complete(r) \/ UNCHANGED <<status, returned>>)
<1> DEFINE final == IF r \in ret THEN "SUCCESS" ELSE "FAILURE"
<1>1. PICK applied \in BOOLEAN :
         processing_module' =
            IF applied
            THEN (processing_module \ TaskRow(r)) \cup {WithStatus(m, final) : m \in TaskRow(r)}
            ELSE processing_module
  BY Zenon DEF UpdateComplete
<1>2. /\ pc[r] = "complete"
      /\ pc'[r] = "done"
      /\ \A q \in Run \ {r} : pc'[q] = pc[q]
      /\ UNCHANGED <<verdict, ret>>
  BY DEF UpdateComplete, Goto, TypeOK, outcome
<1>3. \A m \in processing_module : m.id \in Run
  BY DEF TypeOK, ProcessingModule
<1>4. RunOnce' /\ VerdictWhenComplete'
  BY <1>2 DEF LedgerInv, RunOnce, VerdictWhenComplete, Ended
<1>5. CASE ~applied
  <2>1. UNCHANGED processing_module
    BY <1>1, <1>5
  <2>2. OneRow' /\ RowRecorded' /\ RowWhenRun' /\ Waiting'
    BY <1>2, <1>3, <2>1
       DEF LedgerInv, OneRow, RowRecorded, RowWhenRun, Waiting, Recorded, Ended
  <2> QED
    BY <1>2, <1>4, <2>1, <2>2, LedgerStutters DEF LedgerInv
<1>6. CASE applied
  <2>1. PICK m \in processing_module : m.id = r
    BY <1>2 DEF LedgerInv, RowWhenRun
  <2>2. TaskRow(r) = {m}
    BY <2>1 DEF LedgerInv, OneRow, TaskRow
  <2> DEFINE new == WithStatus(m, final)
  <2>3. processing_module' = (processing_module \ {m}) \cup {new}
    BY <1>1, <1>6, <2>2
  <2>4. new.id = r /\ new.status = final
    <3>1. final \in {"STARTING", "SUCCESS", "FAILURE"} /\ m \in ProcessingModule
      BY DEF TypeOK
    <3> QED
      BY <2>1, <3>1, WithStatusFacts
  <2> HIDE DEF new
  <2>5. \A n \in processing_module \ {m} : n.id # r
    BY <2>1 DEF LedgerInv, OneRow
  <2>6. OneRow'
    BY <2>3, <2>4, <2>5 DEF LedgerInv, OneRow
  <2>7. RowRecorded' /\ Waiting'
    BY <1>2, <1>3, <2>3, <2>4, <2>5
       DEF LedgerInv, RowRecorded, Waiting, Recorded, Ended
  <2>8. RowWhenRun'
    BY <1>2, <2>1, <2>3 DEF LedgerInv, RowWhenRun
  <2>9. status[r] = "STARTING"
    <3>1. (CHOOSE n \in processing_module : n.id = r) = m
      BY <2>1, StatusOfRow DEF LedgerInv, OneRow
    <3>2. m.status = "STARTING"
      BY <1>2, <2>1 DEF LedgerInv, Waiting
    <3> QED
      BY <2>1, <3>1, <3>2 DEF status
  <2>10. returned[r] = IF r \in ret THEN "true" ELSE "false"
    BY <1>2 DEF LedgerInv, VerdictWhenComplete, returned
  <2>11. returned' = returned
    BY <1>2 DEF returned
  <2>12. \A q \in Run \ {r} : status'[q] = status[q]
    BY <2>1, <2>3, <2>4, <2>6, StatusStays DEF LedgerInv
  <2>13. status'[r] = final
    <3>1. (CHOOSE n \in processing_module' : n.id = r) = new
      BY <2>3, <2>4, <2>5, StatusOfRow
    <3>2. \E n \in processing_module' : n.id = r
      BY <2>3, <2>4
    <3> QED
      BY <2>4, <3>1, <3>2 DEF status
  <2>14. status' = [status EXCEPT ![r] = final]
    <3>1. status = [q \in Run |-> status[q]] /\ status' = [q \in Run |-> status'[q]]
      BY DEF status
    <3> QED
      BY <2>12, <2>13, <3>1
  <2>15. Ledger!Complete(r)
    BY <2>9, <2>10, <2>11, <2>14 DEF Ledger!Complete
  <2> QED
    BY <1>4, <2>6, <2>7, <2>8, <2>15 DEF LedgerInv
<1> QED
  BY <1>5, <1>6

\* A step of a run is a step of the ledger or leaves it alone.
LEMMA LedgerStep ==
    ASSUME NEW r \in Run, TypeOK, LedgerInv, Step(r)
    PROVE  LedgerInv' /\ (Ledger!Next \/ UNCHANGED <<status, returned>>)
<1> USE DEF Ended, Recorded
<1>1. verdict[r] = "none" \/ pc[r] \in Recorded
  BY DEF LedgerInv, RunOnce
<1>2. CASE Reconnect(r)
  BY <1>2, LedgerGoto, LedgerStutters DEF Reconnect, service, outcome, database
<1>3. CASE FormatName(r)
  BY <1>3, LedgerGoto, LedgerStutters DEF FormatName, service, outcome, database
<1>4. CASE ReadName(r)
  <2>1. PICK step \in {"is_user_exists", "done"} : Goto(r, step)
    BY <1>4 DEF ReadName
  <2> QED
    BY <1>4, <2>1, LedgerGoto, LedgerStutters DEF ReadName, outcome, database
<1>5. CASE IsUserExists(r)
  <2>1. PICK step \in {"update_password", "create_user"} : Goto(r, step)
    BY <1>5 DEF IsUserExists
  <2> QED
    BY <1>5, <2>1, LedgerGoto, LedgerStutters DEF IsUserExists, service, outcome, database
<1>6. CASE CreateUser(r)
  <2>1. \A q \in Run \ {r} : q \in ret' <=> q \in ret
    BY <1>6 DEF CreateUser, SetRet
  <2>2. pc[r] = "create_user" /\ Goto(r, "insert_user")
    BY <1>6 DEF CreateUser
  <2>3. UNCHANGED <<processing_module, verdict>>
    BY <1>6 DEF CreateUser
  <2> QED
    BY <1>1, <2>1, <2>2, <2>3, LedgerGoto, LedgerStutters
<1>7. CASE InsertUserModule(r)
  <2>1. \A q \in Run \ {r} : q \in ret' <=> q \in ret
    BY <1>7 DEF InsertUserModule, SetRet
  <2>2. PICK step \in {"create_schema", "clear_twice", "done"} : Goto(r, step)
    BY <1>7 DEF InsertUserModule
  <2>3. pc[r] = "insert_user" /\ UNCHANGED <<processing_module, verdict>>
    BY <1>7 DEF InsertUserModule
  <2> QED
    BY <1>1, <2>1, <2>2, <2>3, LedgerGoto, LedgerStutters
<1>8. CASE ClearTwice(r)
  <2>1. CASE Stop(host[r])
    BY <2>1, LedgerStop
  <2>2. CASE Goto(r, "done") /\ UNCHANGED <<service, buffer, conn, database>>
    BY <1>8, <2>2, LedgerGoto, LedgerStutters DEF ClearTwice, service, outcome, database
  <2> QED
    BY <1>8, <2>1, <2>2 DEF ClearTwice
<1>9. CASE CreateSchema(r)
  <2>1. PICK step \in {"create_table", "done"} : Goto(r, step)
    BY <1>9 DEF CreateSchema, Continue
  <2> QED
    BY <1>9, <2>1, LedgerGoto, LedgerStutters DEF CreateSchema, service, outcome
<1>10. CASE UpdatePassword(r)
  <2>1. PICK step \in {"create_table", "done"} : Goto(r, step)
    BY <1>10 DEF UpdatePassword
  <2> QED
    BY <1>10, <2>1, LedgerGoto, LedgerStutters DEF UpdatePassword, outcome, database
<1>11. CASE CreateTable(r)
  <2>1. PICK step \in {"alter_table", "done"} : Goto(r, step)
    BY <1>11 DEF CreateTable, Continue
  <2> QED
    BY <1>11, <2>1, LedgerGoto, LedgerStutters DEF CreateTable, outcome
<1>12. CASE AlterTable(r)
  <2>1. PICK step \in {"insert_processing", "done"} : Goto(r, step)
    BY <1>12 DEF AlterTable, Continue
  <2> QED
    BY <1>12, <2>1, LedgerGoto, LedgerStutters DEF AlterTable, outcome
<1>13. CASE InsertProcessing(r)
  BY <1>13, LedgerInsertProcessing DEF Ledger!Next
<1>14. CASE Execute(r)
  BY <1>14, LedgerExecute DEF Ledger!Next
<1>15. CASE ScriptCrash(r)
  BY <1>15, LedgerStop DEF ScriptCrash
<1>16. CASE UpdateComplete(r)
  BY <1>16, LedgerUpdateComplete DEF Ledger!Next
<1> QED
  BY <1>2, <1>3, <1>4, <1>5, <1>6, <1>7, <1>8, <1>9, <1>10, <1>11, <1>12, <1>13,
     <1>14, <1>15, <1>16 DEF Step

\* And so is every step of the system.
LEMMA LedgerNext ==
    TypeOK /\ LedgerInv /\ [Next]_vars => LedgerInv' /\ [Ledger!Next]_(Ledger!ledger)
<1> SUFFICES ASSUME TypeOK, LedgerInv, [Next]_vars
             PROVE  LedgerInv' /\ (Ledger!Next \/ UNCHANGED <<status, returned>>)
  BY DEF Ledger!ledger
<1>1. ASSUME NEW p \in Process, NEW r \in Run, NEW plugin \in PluginSpecs,
             NEW context \in BOOLEAN, Call(p, r, plugin, context)
      PROVE  LedgerInv' /\ UNCHANGED <<status, returned>>
  <2>1. PICK step \in {"done", "load", "reconnect"} : Goto(r, step)
    BY <1>1 DEF Call
  <2> QED
    BY <1>1, <2>1, LedgerGoto, LedgerStutters DEF Call, outcome, database, Recorded, Ended
<1>2. ASSUME NEW p \in Process, Die(p) PROVE LedgerInv' /\ UNCHANGED <<status, returned>>
  BY <1>2, LedgerStop DEF Die
<1>3. CASE UNCHANGED vars
  <2>1. UNCHANGED <<pc, processing_module, verdict, ret>>
    BY <1>3 DEF vars, service, outcome, database
  <2>2. LedgerInv'
    BY <2>1 DEF LedgerInv, OneRow, RowRecorded, RowWhenRun, RunOnce, Waiting,
                VerdictWhenComplete
  <2> QED
    BY <2>1, <2>2, LedgerStutters
<1> QED
  BY <1>1, <1>2, <1>3, LedgerStep DEF Next, Finished

\* Whatever statements fail, wherever processes die and however calls
\* interleave, a task is registered before its module runs, its module runs
\* at most once, and what update_complete records is what that module's
\* execute returned, once.
THEOREM LedgerImplemented == Spec => LedgerSpec
<1>1. Init => Hosted
  BY DEF Init, Hosted
<1> QED
  BY <1>1, TypeInit, TypeNext, LedgerInit, LedgerNext, PTL DEF Spec, LedgerSpec, Ledger!Spec

---------------------------------------------------------------------------------
(* Verdicts of libraries: the only kind of module whose execute says       *)
(* whether the module did what it was for.                                 *)

OnlyLibraries == \A s \in PluginSpecs : IsValid(s) => s.plugin_type = "DynamicLibrary"

Called ==
    \A r \in Run : pc[r] \notin {"idle"} \cup Ended =>
        spec[r] \in PluginSpecs /\ IsValid(spec[r])

RetIsVerdict ==
    \A r \in Run : pc[r] = "complete" => (r \in ret <=> verdict[r] = "passed")

VerdictInv ==
    /\ Called
    /\ RetIsVerdict
    /\ VerdictRecorded

\* Nothing is called and nothing recorded at first.
LEMMA VerdictInit == Init => VerdictInv
<1> SUFFICES ASSUME Init PROVE VerdictInv
  OBVIOUS
<1>1. processing_module = {} /\ \A r \in Run : pc[r] = "idle"
  BY DEF Init
<1> QED
  BY <1>1 DEF VerdictInv, Called, RetIsVerdict, VerdictRecorded

\* A step keeps the invariant that lets no module return and records no success.
LEMMA VerdictStays ==
    ASSUME VerdictInv, UNCHANGED <<spec, verdict>>,
           \A q \in Run :
              pc'[q] \notin {"idle"} \cup Ended => pc[q] \notin {"idle"} \cup Ended,
           \A q \in Run : pc'[q] = "complete" => pc[q] = "complete" /\ (q \in ret' <=> q \in ret),
           \A m \in processing_module' : m \in processing_module \/ m.status # "SUCCESS"
    PROVE  VerdictInv'
<1>1. Called'
  BY DEF VerdictInv, Called
<1>2. RetIsVerdict'
  BY DEF VerdictInv, RetIsVerdict
<1>3. VerdictRecorded'
  BY DEF VerdictInv, VerdictRecorded
<1> QED
  BY <1>1, <1>2, <1>3 DEF VerdictInv

\* Moving a run on is such a step.
LEMMA VerdictGoto ==
    ASSUME TypeOK, VerdictInv, NEW r \in Run, NEW step, Goto(r, step),
           step # "complete", pc[r] \notin {"idle"} \cup Ended, UNCHANGED <<spec, verdict>>,
           \A q \in Run \ {r} : q \in ret' <=> q \in ret,
           \A m \in processing_module' : m \in processing_module \/ m.status # "SUCCESS"
    PROVE  VerdictInv'
<1>1. pc'[r] = step /\ \A q \in Run \ {r} : pc'[q] = pc[q]
  BY DEF Goto, TypeOK
<1> QED
  BY <1>1, VerdictStays

\* So is the end of a process.
LEMMA VerdictStop ==
    ASSUME VerdictInv, NEW p, Stop(p)
    PROVE  VerdictInv'
<1>1. UNCHANGED <<spec, verdict, ret, processing_module>>
  BY DEF Stop, service, call, outcome, database
<1>2. \A q \in Run : pc'[q] = pc[q] \/ pc'[q] = "dead"
  BY DEF Stop
<1> QED
  BY <1>1, <1>2, VerdictStays DEF Ended

\* What a library returns is its verdict, and its task still waits for it.
LEMMA VerdictExecute ==
    ASSUME OnlyLibraries, TypeOK, LedgerInv, VerdictInv, NEW r \in Run, Execute(r)
    PROVE  VerdictInv'
<1>1. PICK fared \in Verdict \ {"none"} :
         /\ verdict' = [verdict EXCEPT ![r] = fared]
         /\ ret' = SetRet(r, Returned(spec[r].plugin_type, fared))
  BY Zenon DEF Execute
<1>2. pc[r] = "execute" /\ Goto(r, "complete") /\ UNCHANGED <<spec, processing_module>>
  BY DEF Execute, call, database
<1>3. spec[r].plugin_type = "DynamicLibrary"
  BY <1>2 DEF VerdictInv, Called, OnlyLibraries, Ended
<1>4. verdict'[r] = fared /\ (r \in ret' <=> fared = "passed")
  BY <1>1, <1>3 DEF Returned, SetRet, TypeOK
<1>5. /\ \A q \in Run \ {r} : verdict'[q] = verdict[q]
      /\ \A q \in Run \ {r} : pc'[q] = pc[q]
      /\ \A q \in Run \ {r} : q \in ret' <=> q \in ret
  BY <1>1, <1>2 DEF SetRet, Goto, TypeOK
<1>6. Called'
  BY <1>2, <1>5 DEF VerdictInv, Called, Ended
<1>7. RetIsVerdict'
  BY <1>4, <1>5 DEF VerdictInv, RetIsVerdict
<1>8. VerdictRecorded'
  <2>1. \A m \in processing_module : m.id = r => m.status # "SUCCESS"
    BY <1>2 DEF LedgerInv, Waiting
  <2>2. \A m \in processing_module : m.id \in Run
    BY RowIds
  <2> QED
    BY <1>2, <1>5, <2>1, <2>2 DEF VerdictInv, VerdictRecorded
<1> QED
  BY <1>6, <1>7, <1>8 DEF VerdictInv

\* update_complete records what the module returned.
LEMMA VerdictUpdateComplete ==
    ASSUME TypeOK, VerdictInv, NEW r \in Run, UpdateComplete(r)
    PROVE  VerdictInv'
<1> DEFINE final == IF r \in ret THEN "SUCCESS" ELSE "FAILURE"
<1>1. PICK applied \in BOOLEAN :
         processing_module' =
            IF applied
            THEN (processing_module \ TaskRow(r)) \cup {WithStatus(m, final) : m \in TaskRow(r)}
            ELSE processing_module
  BY Zenon DEF UpdateComplete
<1>2. pc[r] = "complete" /\ Goto(r, "done") /\ UNCHANGED <<spec, verdict, ret>>
  BY DEF UpdateComplete, call, outcome
<1>3. pc'[r] = "done" /\ \A q \in Run \ {r} : pc'[q] = pc[q]
  BY <1>2 DEF Goto, TypeOK
<1>4. Called' /\ RetIsVerdict'
  BY <1>2, <1>3 DEF VerdictInv, Called, RetIsVerdict, Ended
<1>5. \A n \in TaskRow(r) : WithStatus(n, final).id = r /\ WithStatus(n, final).status = final
  BY WithStatusFacts DEF TypeOK, TaskRow
<1>6. final = "SUCCESS" => verdict[r] = "passed"
  BY <1>2 DEF VerdictInv, RetIsVerdict
<1> HIDE DEF final
<1>7. \A m \in processing_module' :
         m \in processing_module \/ (m.id = r /\ m.status = final)
  BY <1>1, <1>5
<1>8. VerdictRecorded'
  BY <1>2, <1>6, <1>7 DEF VerdictInv, VerdictRecorded
<1> QED
  BY <1>4, <1>8 DEF VerdictInv

\* A run of a library keeps the invariant ...
LEMMA VerdictStep ==
    ASSUME OnlyLibraries, TypeOK, LedgerInv, VerdictInv, NEW r \in Run, Step(r)
    PROVE  VerdictInv'
<1> USE DEF Ended
<1>1. CASE Reconnect(r)
  BY <1>1, VerdictGoto DEF Reconnect, service, call, outcome, database
<1>2. CASE FormatName(r)
  BY <1>2, VerdictGoto DEF FormatName, service, call, outcome, database
<1>3. CASE ReadName(r)
  <2>1. PICK step \in {"is_user_exists", "done"} : Goto(r, step)
    BY <1>3 DEF ReadName
  <2> QED
    BY <1>3, <2>1, VerdictGoto DEF ReadName, call, outcome, database
<1>4. CASE IsUserExists(r)
  <2>1. PICK step \in {"update_password", "create_user"} : Goto(r, step)
    BY <1>4 DEF IsUserExists
  <2> QED
    BY <1>4, <2>1, VerdictGoto DEF IsUserExists, service, call, outcome, database
<1>5. CASE CreateUser(r)
  <2>1. \A q \in Run \ {r} : q \in ret' <=> q \in ret
    BY <1>5 DEF CreateUser, SetRet
  <2>2. pc[r] \notin {"idle"} \cup Ended /\ Goto(r, "insert_user") /\ UNCHANGED <<spec, verdict, processing_module>>
    BY <1>5 DEF CreateUser, call
  <2> QED
    BY <2>1, <2>2, VerdictGoto
<1>6. CASE InsertUserModule(r)
  <2>1. \A q \in Run \ {r} : q \in ret' <=> q \in ret
    BY <1>6 DEF InsertUserModule, SetRet
  <2>2. PICK step \in {"create_schema", "clear_twice", "done"} : Goto(r, step)
    BY <1>6 DEF InsertUserModule
  <2>3. pc[r] \notin {"idle"} \cup Ended /\ UNCHANGED <<spec, verdict, processing_module>>
    BY <1>6 DEF InsertUserModule, call
  <2> QED
    BY <2>1, <2>2, <2>3, VerdictGoto
<1>7. CASE ClearTwice(r)
  BY <1>7, VerdictGoto, VerdictStop DEF ClearTwice, service, call, outcome, database
<1>8. CASE CreateSchema(r)
  <2>1. PICK step \in {"create_table", "done"} : Goto(r, step)
    BY <1>8 DEF CreateSchema, Continue
  <2> QED
    BY <1>8, <2>1, VerdictGoto DEF CreateSchema, service, call, outcome
<1>9. CASE UpdatePassword(r)
  <2>1. PICK step \in {"create_table", "done"} : Goto(r, step)
    BY <1>9 DEF UpdatePassword
  <2> QED
    BY <1>9, <2>1, VerdictGoto DEF UpdatePassword, call, outcome, database
<1>10. CASE CreateTable(r)
  <2>1. PICK step \in {"alter_table", "done"} : Goto(r, step)
    BY <1>10 DEF CreateTable, Continue
  <2> QED
    BY <1>10, <2>1, VerdictGoto DEF CreateTable, call, outcome
<1>11. CASE AlterTable(r)
  <2>1. PICK step \in {"insert_processing", "done"} : Goto(r, step)
    BY <1>11 DEF AlterTable, Continue
  <2> QED
    BY <1>11, <2>1, VerdictGoto DEF AlterTable, call, outcome
<1>12. CASE InsertProcessing(r)
  <2>1. PICK step \in {"execute", "done"} : Goto(r, step)
    BY <1>12 DEF InsertProcessing, Continue
  <2>2. \A m \in processing_module' : m \in processing_module \/ m.status # "SUCCESS"
    <3> DEFINE row == [ id |-> r, module_id |-> module_id[r], table_name |-> output_table[r],
                        status |-> "STARTING" ]
    <3>1. PICK applied \in BOOLEAN : processing_module' = processing_module \cup When(applied, {row})
      BY <1>12, Zenon DEF InsertProcessing
    <3>2. row.status # "SUCCESS"
      OBVIOUS
    <3> HIDE DEF row
    <3> QED
      BY <3>1, <3>2 DEF When
  <2>3. pc[r] \notin {"idle"} \cup Ended /\ UNCHANGED <<spec, verdict, ret>>
    BY <1>12 DEF InsertProcessing, call, outcome
  <2> QED
    BY <2>1, <2>2, <2>3, VerdictGoto
<1>13. CASE Execute(r)
  BY <1>13, VerdictExecute
<1>14. CASE ScriptCrash(r)
  BY <1>14, VerdictStop DEF ScriptCrash
<1>15. CASE UpdateComplete(r)
  BY <1>15, VerdictUpdateComplete
<1> QED
  BY <1>1, <1>2, <1>3, <1>4, <1>5, <1>6, <1>7, <1>8, <1>9, <1>10, <1>11, <1>12, <1>13,
     <1>14, <1>15 DEF Step

\* ... and so does every step of the system.
LEMMA VerdictNext ==
    OnlyLibraries /\ TypeOK /\ LedgerInv /\ VerdictInv /\ [Next]_vars => VerdictInv'
<1> SUFFICES ASSUME OnlyLibraries, TypeOK, LedgerInv, VerdictInv, [Next]_vars
             PROVE  VerdictInv'
  OBVIOUS
<1>1. ASSUME NEW p \in Process, NEW r \in Run, NEW plugin \in PluginSpecs,
             NEW context \in BOOLEAN, Call(p, r, plugin, context)
      PROVE  VerdictInv'
  <2>1. PICK step \in {"done", "load", "reconnect"} : Goto(r, step)
    BY <1>1 DEF Call
  <2>2. /\ spec' = [spec EXCEPT ![r] = plugin]
        /\ UNCHANGED <<verdict, ret, processing_module>>
    BY <1>1 DEF Call, outcome, database
  <2>3. /\ pc'[r] = step /\ spec'[r] = plugin
        /\ \A q \in Run \ {r} : pc'[q] = pc[q] /\ spec'[q] = spec[q]
    BY <2>1, <2>2 DEF Goto, TypeOK
  <2>4. step # "done" => IsValid(plugin)
    BY <1>1, <2>1 DEF Call, Goto, TypeOK
  <2>5. Called' /\ RetIsVerdict'
    BY <2>2, <2>3, <2>4 DEF VerdictInv, Called, RetIsVerdict, Ended
  <2>6. VerdictRecorded'
    BY <2>2 DEF VerdictInv, VerdictRecorded
  <2> QED
    BY <2>5, <2>6 DEF VerdictInv
<1>2. ASSUME NEW p \in Process, Die(p) PROVE VerdictInv'
  BY <1>2, VerdictStop DEF Die
<1>3. CASE UNCHANGED vars
  BY <1>3, VerdictStays DEF vars, service, call, outcome, database
<1> QED
  BY <1>1, <1>2, <1>3, VerdictStep DEF Next, Finished

\* A library's task is recorded as SUCCESS only when its plugin_call said so,
\* whatever fails and however calls interleave.  Of a script or an executable
\* this is false: their execute does not ask what came of them.
THEOREM LibraryVerdict == OnlyLibraries /\ Spec => []VerdictRecorded
<1> SUFFICES ASSUME OnlyLibraries PROVE Spec => []VerdictRecorded
  OBVIOUS
<1>1. VerdictInv => VerdictRecorded
  BY DEF VerdictInv
<1>2. Init => Hosted
  BY DEF Init, Hosted
<1>3. TypeOK /\ LedgerInv /\ VerdictInv /\ [Next]_vars => VerdictInv'
  BY VerdictNext
<1> QED
  BY <1>1, <1>2, <1>3, TypeInit, TypeNext, LedgerInit, LedgerNext, VerdictInit, PTL DEF Spec

---------------------------------------------------------------------------------
(***************************************************************************)
(* What only a build that joins its threads (ENABLE_WAIT_THREAD_COMPLETE)  *)
(* can promise: tasks are recorded under their own module's account, the   *)
(* credentials a module is started with open the database, and an account  *)
(* left half made stays so.                                                *)
(***************************************************************************)

(* The invariant.  A process runs one module at a time, so nobody else     *)
(* writes into its buffer or reopens its connection ...                    *)

OneActive ==
    \A q, r \in Run : host[q] = host[r] /\ Active(q) /\ Active(r) => q = r

BufferOwn == \A r \in Run : pc[r] = "named" => buffer[host[r]] = OwnText(r)

\* ... from is_user_exists on, a run has the name of its own module, and a
\* connection that was good once ...
Named ==
    { "is_user_exists", "create_user", "insert_user", "clear_twice", "create_schema",
      "update_password", "create_table", "alter_table", "insert_processing", "execute",
      "complete" }

OwnName(r) == [version |-> OwnText(r), name |-> spec[r].plugin_name]

NameOwn == \A r \in Run : pc[r] \in Named => module_name[r] = OwnName(r)

Connected == \A r \in Run : pc[r] \in Named => conn[host[r]] # "null"

\* ... an account's row is named after the module it was made for ...
RowName(u) == [version |-> VersionText(u.module_version), name |-> u.module_name]

RowsOwn == \A u \in user_module : u.user_name = RowName(u)

\* ... and a recorded task has a row of its own module's name.
TasksOwn ==
    \A m \in processing_module :
        /\ module_name[m.id] = OwnName(m.id)
        /\ \E u \in user_module : u.id = m.module_id /\ u.user_name = module_name[m.id]

OwnInv ==
    /\ OneActive
    /\ BufferOwn
    /\ NameOwn
    /\ Connected
    /\ RowsOwn
    /\ TasksOwn

---------------------------------------------------------------------------------
(* The credentials.  The role of every account has the account's password ... *)

RowsOpen ==
    \A u \in user_module :
        /\ u.user_password # ""
        /\ [rolname |-> u.user_name, password |-> u.user_password] \in pg_roles

\* ... create_user, while it can do anything, makes a role that is not there ...
RoleIsNew ==
    \A r \in Run : pc[r] = "create_user" /\ conn[host[r]] = "ok" => ~RoleExists(module_name[r])

Opens(r) ==
    /\ user_password[r] # ""
    /\ [rolname |-> module_name[r], password |-> user_password[r]] \in pg_roles

\* ... and goes on to its row only when it has made that role or can no longer
\* insert anything ...
RoleMade ==
    \A r \in Run : pc[r] = "insert_user" /\ (conn[host[r]] = "ok" \/ r \in ret) => Opens(r)

\* ... so that from there on the run's password is its role's.
Entitled == {"create_schema", "create_table", "alter_table", "insert_processing", "execute"}

StaysOpen == \A r \in Run : pc[r] \in Entitled => Opens(r)

CredentialsInv ==
    /\ RowsOpen
    /\ RoleIsNew
    /\ RoleMade
    /\ StaysOpen

---------------------------------------------------------------------------------
(* What the steps have in common. *)

\* Nothing is active before the first call, and nothing is recorded.
LEMMA OwnInit == Init => OwnInv
<1> SUFFICES ASSUME Init PROVE OwnInv
  OBVIOUS
<1>1. \A r \in Run : pc[r] = "idle" /\ ~Active(r) /\ pc[r] \notin Named
  BY DEF Init, Active, CallerStep, WorkerStep, Named
<1>2. user_module = {} /\ processing_module = {}
  BY DEF Init
<1> QED
  BY <1>1, <1>2 DEF OwnInv, OneActive, BufferOwn, NameOwn, Connected, RowsOwn, TasksOwn

\* A run between its call and its end is active.
LEMMA NamedActive ==
    ASSUME NEW r \in Run
    PROVE  /\ pc[r] \in Named => Active(r)
           /\ pc[r] = "named" => Active(r)
           /\ pc[r] \notin Ended \cup {"idle"} /\ pc[r] \in Steps => Active(r)
           /\ Active(r) => pc[r] \notin Ended /\ pc[r] # "idle"
  BY DEF Named, Active, CallerStep, WorkerStep, Ended, Steps

\* ... in the next state, too.
LEMMA NamedActiveNext ==
    ASSUME NEW r \in Run
    PROVE  /\ pc'[r] \in Named => Active(r)'
           /\ pc'[r] = "named" => Active(r)'
  BY DEF Named, Active, CallerStep, WorkerStep

\* While a run is active, no other run has the buffer and the connection of
\* its process.
LEMMA OtherHost ==
    ASSUME OwnInv, NEW r \in Run, NEW q \in Run, q # r, Active(r), Active(q)
    PROVE  host[q] # host[r]
  BY DEF OwnInv, OneActive

\* A statement changes the connection of its process only, and never to null.
LEMMA StatementConn ==
    ASSUME NEW p \in Process, NEW legal, NEW applied, NEW result, TypeOK,
           Statement(p, legal, applied, result)
    PROVE  /\ \A o \in Process \ {p} : conn'[o] = conn[o]
           /\ conn[p] # "null" => conn'[p] # "null"
           /\ conn[p] = "bad" => conn'[p] = "bad"
  BY DEF Statement, Login, TypeOK

\* Over a dead link nothing is carried out.
LEMMA DeadLink ==
    ASSUME NEW p, NEW legal, NEW applied \in BOOLEAN, NEW result,
           Statement(p, legal, applied, result)
    PROVE  conn[p] = "bad" => ~applied
  BY DEF Statement

\* A step of one active run that leaves process and module alone keeps the
\* invariant, if the run itself keeps to it.
LEMMA OwnStep ==
    ASSUME NEW r \in Run, NEW step, TypeOK, Hosted, TaskListInv, OwnInv,
           Active(r), Goto(r, step), UNCHANGED <<host, spec>>,
           \A q \in Run \ {r} : module_name'[q] = module_name[q],
           \A p \in Process \ {host[r]} : buffer'[p] = buffer[p] /\ conn'[p] = conn[p],
           module_name'[r] = module_name[r] \/ pc[r] = "named",
           step = "named" => buffer'[host[r]] = OwnText(r),
           step \in Named => module_name'[r] = OwnName(r) /\ conn'[host[r]] # "null",
           user_module \subseteq user_module',
           \A u \in user_module' : u \in user_module \/ u.user_name = RowName(u),
           \A m \in processing_module' :
              \/ \E n \in processing_module : n.id = m.id /\ n.module_id = m.module_id
              \/ /\ m.id = r /\ module_name'[r] = OwnName(r)
                 /\ \E u \in user_module' :
                       u.id = m.module_id /\ u.user_name = module_name'[r]
    PROVE  OwnInv'
<1>1. pc'[r] = step /\ \A q \in Run \ {r} : pc'[q] = pc[q]
  BY DEF TypeOK, Goto
<1>2. \A q \in Run : Active(q)' => Active(q)
  BY <1>1 DEF Active
<1>3. \A q \in Run \ {r} : Active(q) => host[q] \in Process \ {host[r]}
  BY OtherHost, NamedActive DEF Hosted
<1>4. \A q \in Run : OwnText(q)' = OwnText(q) /\ OwnName(q)' = OwnName(q)
  BY DEF OwnText, OwnName
<1>5. OneActive'
  BY <1>2 DEF OwnInv, OneActive
<1>6. BufferOwn'
  <2>1. ASSUME NEW q \in Run, q # r, pc'[q] = "named" PROVE buffer'[host'[q]] = OwnText(q)'
    <3>1. pc[q] = "named" /\ host[q] \in Process \ {host[r]}
      BY <1>1, <1>3, <2>1, NamedActive
    <3> QED
      BY <1>4, <2>1, <3>1 DEF OwnInv, BufferOwn
  <2> QED
    BY <1>1, <1>4, <2>1 DEF BufferOwn
<1>7. NameOwn'
  BY <1>1, <1>4 DEF OwnInv, NameOwn
<1>8. Connected'
  <2>1. ASSUME NEW q \in Run, q # r, pc'[q] \in Named PROVE conn'[host'[q]] # "null"
    <3>1. pc[q] \in Named /\ host[q] \in Process \ {host[r]}
      BY <1>1, <1>3, <2>1, NamedActive
    <3> QED
      BY <3>1 DEF OwnInv, Connected
  <2> QED
    BY <1>1, <2>1 DEF Connected
<1>9. RowsOwn'
  BY DEF OwnInv, RowsOwn
<1>10. TasksOwn'
  <2>1. ASSUME NEW n \in processing_module
        PROVE  /\ module_name'[n.id] = OwnName(n.id)'
               /\ \E u \in user_module' :
                     u.id = n.module_id /\ u.user_name = module_name'[n.id]
    <3>1. n.id \in Run /\ pc[n.id] # "named"
      BY RowIds DEF TaskListInv, TaskNamed, Ended
    <3>2. module_name'[n.id] = module_name[n.id]
      BY <3>1
    <3> QED
      BY <1>4, <3>1, <3>2 DEF OwnInv, TasksOwn
  <2>2. ASSUME NEW m \in processing_module'
        PROVE  /\ module_name'[m.id] = OwnName(m.id)'
               /\ \E u \in user_module' :
                     u.id = m.module_id /\ u.user_name = module_name'[m.id]
    BY <1>4, <2>1
  <2> QED
    BY <2>2 DEF TasksOwn
<1> QED
  BY <1>5, <1>6, <1>7, <1>8, <1>9, <1>10 DEF OwnInv

\* The end of a process ends all that is active in it.
LEMMA OwnStop ==
    ASSUME NEW p, TypeOK, Hosted, OwnInv, Stop(p)
    PROVE  OwnInv'
<1>1. UNCHANGED <<host, spec, module_name, user_module, processing_module>>
  BY DEF Stop, service, call, database
<1>2. \A q \in Run : pc'[q] = pc[q] \/ pc'[q] = "dead"
  BY DEF Stop
<1>3. \A q \in Run : Active(q)' => pc'[q] = pc[q] /\ Active(q) /\ host[q] \in Process \ {p}
  <2> SUFFICES ASSUME NEW q \in Run, Active(q)'
               PROVE  pc'[q] = pc[q] /\ Active(q) /\ host[q] \in Process \ {p}
    OBVIOUS
  <2>1. pc'[q] # "dead"
    BY DEF Active, CallerStep, WorkerStep
  <2>2. pc'[q] = pc[q]
    BY <1>2, <2>1
  <2>3. Active(q)
    BY <2>2 DEF Active
  <2>4. host[q] # p
    BY <2>1, <2>3 DEF Stop
  <2>5. host[q] \in Process
    BY <2>3, NamedActive DEF Hosted
  <2> QED
    BY <2>2, <2>3, <2>4, <2>5
<1>4. \A o \in Process \ {p} : buffer'[o] = buffer[o] /\ conn'[o] = conn[o]
  BY DEF Stop, TypeOK
<1>5. \A q \in Run : OwnText(q)' = OwnText(q) /\ OwnName(q)' = OwnName(q)
  BY <1>1 DEF OwnText, OwnName
<1>6. OneActive'
  BY <1>1, <1>3 DEF OwnInv, OneActive
<1>7. BufferOwn'
  <2> SUFFICES ASSUME NEW q \in Run, pc'[q] = "named" PROVE buffer'[host'[q]] = OwnText(q)'
    BY DEF BufferOwn
  <2>1. pc[q] = "named" /\ host[q] \in Process \ {p}
    BY <1>3, NamedActiveNext
  <2> QED
    BY <1>1, <1>4, <1>5, <2>1 DEF OwnInv, BufferOwn
<1>8. NameOwn' /\ Connected'
  <2> SUFFICES ASSUME NEW q \in Run, pc'[q] \in Named
               PROVE  module_name'[q] = OwnName(q)' /\ conn'[host'[q]] # "null"
    BY DEF NameOwn, Connected
  <2>1. pc[q] \in Named /\ host[q] \in Process \ {p}
    BY <1>3, NamedActiveNext
  <2> QED
    BY <1>1, <1>4, <1>5, <2>1 DEF OwnInv, NameOwn, Connected
<1>9. RowsOwn' /\ TasksOwn'
  BY <1>1, <1>5, RowIds DEF OwnInv, RowsOwn, TasksOwn
<1> QED
  BY <1>6, <1>7, <1>8, <1>9 DEF OwnInv
---------------------------------------------------------------------------------
(* The steps. *)

\* Most statements concern neither the name of a run nor the rows.
LEMMA OwnGoto ==
    ASSUME NEW r \in Run, NEW step, TypeOK, Hosted, TaskListInv, OwnInv,
           Active(r), Goto(r, step), UNCHANGED <<host, spec, module_name, user_module>>,
           \A p \in Process \ {host[r]} : buffer'[p] = buffer[p] /\ conn'[p] = conn[p],
           step = "named" => buffer'[host[r]] = OwnText(r),
           step \in Named => pc[r] \in Named /\ conn'[host[r]] # "null",
           \A m \in processing_module' : \E n \in processing_module :
              n.id = m.id /\ n.module_id = m.module_id
    PROVE  OwnInv'
<1>1. step \in Named => module_name'[r] = OwnName(r)
  BY DEF OwnInv, NameOwn
<1> QED
  BY <1>1, OwnStep

\* Statements that concern neither, in one line each: the conditions of OwnGoto
\* that hold of the connection.
LEMMA OwnStatement ==
    ASSUME NEW r \in Run, NEW step, TypeOK, Hosted, TaskListInv, OwnInv,
           pc[r] \in Named, Goto(r, step), step # "named",
           UNCHANGED <<host, spec, module_name, buffer, user_module, processing_module>>,
           NEW legal, NEW applied, NEW result, Statement(host[r], legal, applied, result)
    PROVE  OwnInv'
<1>1. Active(r) /\ host[r] \in Process
  BY NamedActive DEF Hosted
<1>2. conn[host[r]] # "null"
  BY DEF OwnInv, Connected
<1> QED
  BY <1>1, <1>2, StatementConn, OwnGoto

\* A second clearing that goes well, and a module that returns, touch neither.
LEMMA OwnQuiet ==
    ASSUME NEW r \in Run, NEW step, TypeOK, Hosted, TaskListInv, OwnInv,
           pc[r] \in Named, Goto(r, step), step # "named",
           UNCHANGED <<host, spec, module_name, buffer, conn, user_module, processing_module>>
    PROVE  OwnInv'
<1>1. Active(r) /\ conn[host[r]] # "null"
  BY NamedActive DEF OwnInv, Connected
<1> QED
  BY <1>1, OwnGoto

\* Nobody else formats into the buffer: the text in it is the run's own.
LEMMA OwnFormatName ==
    ASSUME NEW r \in Run, TypeOK, Hosted, TaskListInv, OwnInv, FormatName(r)
    PROVE  OwnInv'
<1>1. /\ pc[r] = "load" /\ Goto(r, "named") /\ Active(r) /\ host[r] \in Process
      /\ UNCHANGED <<host, spec, module_name, conn, user_module, processing_module>>
  BY DEF FormatName, service, call, database, Active, WorkerStep, Hosted
<1>2. ~Formatting(r)
  BY <1>1 DEF Formatting, OwnInv, OneActive, Active, WorkerStep
<1>3. buffer' = [buffer EXCEPT ![host[r]] = OwnText(r)]
  BY <1>2 DEF FormatName
<1>4. buffer'[host[r]] = OwnText(r) /\ \A p \in Process \ {host[r]} : buffer'[p] = buffer[p]
  BY <1>1, <1>3 DEF TypeOK
<1> QED
  BY <1>1, <1>4, OwnGoto DEF Named

\* ... and what the run reads there makes its own name.
LEMMA OwnReadName ==
    ASSUME NEW r \in Run, TypeOK, Hosted, TaskListInv, OwnInv, ReadName(r)
    PROVE  OwnInv'
<1>1. /\ pc[r] = "named" /\ Active(r)
      /\ UNCHANGED <<host, spec, buffer, conn, user_module, processing_module>>
  BY DEF ReadName, call, database, Active, WorkerStep
<1>2. ~Formatting(r)
  BY <1>1 DEF Formatting, OwnInv, OneActive, Active, WorkerStep
<1>3. buffer[host[r]] = OwnText(r)
  BY <1>1 DEF OwnInv, BufferOwn
<1>4. module_name' = [module_name EXCEPT ![r] = OwnName(r)]
  BY <1>2, <1>3 DEF ReadName, OwnName
<1>5. module_name'[r] = OwnName(r) /\ \A q \in Run \ {r} : module_name'[q] = module_name[q]
  BY <1>4 DEF TypeOK
<1>6. PICK step \in {"is_user_exists", "done"} :
         Goto(r, step) /\ (step = "is_user_exists" => conn[host[r]] = "ok")
  BY DEF ReadName
<1>7. step \in Named => conn'[host[r]] # "null"
  BY <1>1, <1>6 DEF Named
<1>8. \A p \in Process \ {host[r]} : buffer'[p] = buffer[p] /\ conn'[p] = conn[p]
  BY <1>1
<1>9. \A m \in processing_module' : \E n \in processing_module :
         n.id = m.id /\ n.module_id = m.module_id
  BY <1>1
<1> QED
  BY <1>1, <1>5, <1>6, <1>7, <1>8, <1>9, OwnStep

\* The row of an account says which module it was made for.
LEMMA OwnInsertUserModule ==
    ASSUME NEW r \in Run, TypeOK, Hosted, TaskListInv, OwnInv, InsertUserModule(r)
    PROVE  OwnInv'
<1> DEFINE row == [ id |-> r, user_name |-> module_name[r],
                    user_password |-> user_password[r],
                    module_name |-> spec[r].plugin_name,
                    module_version |-> spec[r].plugin_version,
                    schema_name |-> module_name[r] ]
<1>1. /\ pc[r] = "insert_user" /\ pc[r] \in Named
      /\ UNCHANGED <<host, spec, module_name, buffer, processing_module>>
  BY DEF InsertUserModule, call, Named
<1>2. PICK applied \in BOOLEAN, result \in Results :
         /\ Statement(host[r], TRUE, applied, result)
         /\ user_module' = user_module \cup When(applied, {row})
  BY Zenon DEF InsertUserModule
<1>3. PICK step \in {"create_schema", "clear_twice", "done"} : Goto(r, step)
  BY DEF InsertUserModule
<1>4. Active(r) /\ host[r] \in Process /\ conn[host[r]] # "null"
  BY <1>1, NamedActive DEF Hosted, OwnInv, Connected
<1>5. row.user_name = RowName(row)
  BY <1>1 DEF OwnInv, NameOwn, OwnName, OwnText, RowName
<1>6. /\ user_module \subseteq user_module'
      /\ \A u \in user_module' : u \in user_module \/ u = row
  BY <1>2 DEF When
<1>7. \A u \in user_module' : u \in user_module \/ u.user_name = RowName(u)
  BY <1>5, <1>6
<1>8. module_name'[r] = OwnName(r)
  BY <1>1 DEF OwnInv, NameOwn
<1>9. conn'[host[r]] # "null" /\ \A p \in Process \ {host[r]} : conn'[p] = conn[p]
  BY <1>2, <1>4, StatementConn
<1>10. /\ \A q \in Run \ {r} : module_name'[q] = module_name[q]
       /\ \A p \in Process \ {host[r]} : buffer'[p] = buffer[p] /\ conn'[p] = conn[p]
       /\ \A m \in processing_module' : \E n \in processing_module :
             n.id = m.id /\ n.module_id = m.module_id
  BY <1>1, <1>9
<1> QED
  BY <1>1, <1>3, <1>4, <1>6, <1>7, <1>8, <1>9, <1>10, OwnStep

\* A task is recorded under an account of its run's name.
LEMMA OwnInsertProcessing ==
    ASSUME NEW r \in Run, TypeOK, Hosted, TaskListInv, OwnInv, InsertProcessing(r)
    PROVE  OwnInv'
<1> DEFINE row == [ id |-> r, module_id |-> module_id[r], table_name |-> output_table[r],
                    status |-> "STARTING" ]
<1>1. /\ pc[r] = "insert_processing" /\ pc[r] \in Named
      /\ UNCHANGED <<host, spec, module_name, module_id, buffer, user_module>>
  BY DEF InsertProcessing, call, account, Named
<1>2. PICK applied \in BOOLEAN, result \in Results :
         /\ Statement(host[r], \E u \in user_module : u.id = module_id[r], applied, result)
         /\ processing_module' = processing_module \cup When(applied, {row})
  BY Zenon DEF InsertProcessing
<1>3. PICK step \in {"execute", "done"} : Goto(r, step)
  BY DEF InsertProcessing, Continue
<1>4. Active(r) /\ host[r] \in Process /\ conn[host[r]] # "null"
  BY <1>1, NamedActive DEF Hosted, OwnInv, Connected
<1>5. applied => \E u \in user_module : u.id = module_id[r] /\ u.user_name = module_name[r]
  <2>1. applied => \E u \in user_module : u.id = module_id[r]
    BY <1>2, StatementFacts, Zenon
  <2>2. \A u \in user_module : u.id # ""
    BY ControllerAssumption DEF ControllerAssumption, TypeOK, UserModule
  <2> QED
    BY <1>1, <2>1, <2>2 DEF TaskListInv, AccountFound, Registering
<1>6. module_name'[r] = OwnName(r)
  BY <1>1 DEF OwnInv, NameOwn
<1>7. \A m \in processing_module' :
         \/ \E n \in processing_module : n.id = m.id /\ n.module_id = m.module_id
         \/ /\ m.id = r /\ module_name'[r] = OwnName(r)
            /\ \E u \in user_module' :
                  u.id = m.module_id /\ u.user_name = module_name'[r]
  <2>1. \A m \in processing_module' : m \in processing_module \/ (applied /\ m = row)
    BY <1>2 DEF When
  <2>2. row.id = r /\ row.module_id = module_id[r]
    OBVIOUS
  <2> HIDE DEF row
  <2> QED
    BY <1>1, <1>5, <1>6, <2>1, <2>2
<1>8. conn'[host[r]] # "null" /\ \A p \in Process \ {host[r]} : conn'[p] = conn[p]
  BY <1>2, <1>4, StatementConn
<1>9. /\ \A q \in Run \ {r} : module_name'[q] = module_name[q]
      /\ \A p \in Process \ {host[r]} : buffer'[p] = buffer[p] /\ conn'[p] = conn[p]
      /\ \A u \in user_module' : u \in user_module
  BY <1>1, <1>8
<1> QED
  BY <1>1, <1>3, <1>4, <1>6, <1>7, <1>8, <1>9, OwnStep

\* A final status leaves a task under its account.
LEMMA OwnUpdateComplete ==
    ASSUME NEW r \in Run, TypeOK, Hosted, TaskListInv, OwnInv, UpdateComplete(r)
    PROVE  OwnInv'
<1> DEFINE final == IF r \in ret THEN "SUCCESS" ELSE "FAILURE"
<1>1. /\ pc[r] = "complete" /\ pc[r] \in Named /\ Goto(r, "done")
      /\ UNCHANGED <<host, spec, module_name, buffer, user_module>>
  BY DEF UpdateComplete, call, Named
<1>2. PICK applied \in BOOLEAN, result \in Results :
         /\ Statement(host[r], TRUE, applied, result)
         /\ processing_module' =
               IF applied
               THEN (processing_module \ TaskRow(r))
                       \cup {WithStatus(m, final) : m \in TaskRow(r)}
               ELSE processing_module
  BY Zenon DEF UpdateComplete
<1>3. Active(r) /\ host[r] \in Process
  BY <1>1, NamedActive DEF Hosted
<1>4. \A n \in TaskRow(r) :
         WithStatus(n, final).id = n.id /\ WithStatus(n, final).module_id = n.module_id
  BY WithStatusFacts DEF TypeOK, TaskRow
<1>5. TaskRow(r) \subseteq processing_module
  BY DEF TaskRow
<1> HIDE DEF final
<1>6. \A m \in processing_module' : \E n \in processing_module :
         n.id = m.id /\ n.module_id = m.module_id
  BY <1>2, <1>4, <1>5
<1>7. \A p \in Process \ {host[r]} : conn'[p] = conn[p]
  BY <1>2, <1>3, StatementConn
<1> QED
  BY <1>1, <1>3, <1>6, <1>7, OwnGoto DEF Named

\* The login before the thread starts concerns nobody else's connection.
LEMMA OwnReconnect ==
    ASSUME NEW r \in Run, TypeOK, Hosted, TaskListInv, OwnInv, Reconnect(r)
    PROVE  OwnInv'
<1>1. /\ pc[r] = "reconnect" /\ Goto(r, "load") /\ Active(r)
      /\ UNCHANGED <<host, spec, module_name, buffer, user_module, processing_module>>
  BY DEF Reconnect, service, call, database, Active, CallerStep
<1>2. \A p \in Process \ {host[r]} : conn'[p] = conn[p]
  BY DEF Reconnect, Login, TypeOK
<1> QED
  BY <1>1, <1>2, OwnGoto DEF Named

\* A run keeps to its own module, whatever it does ...
LEMMA OwnRunStep ==
    ASSUME NEW r \in Run, TypeOK, Hosted, TaskListInv, OwnInv, Step(r)
    PROVE  OwnInv'
<1>1. CASE Reconnect(r)
  BY <1>1, OwnReconnect
<1>2. CASE FormatName(r)
  BY <1>2, OwnFormatName
<1>3. CASE ReadName(r)
  BY <1>3, OwnReadName
<1>4. CASE IsUserExists(r)
  <2>1. PICK applied \in BOOLEAN, result \in Results : Statement(host[r], TRUE, applied, result)
    BY <1>4, Zenon DEF IsUserExists
  <2>2. PICK step \in {"update_password", "create_user"} : Goto(r, step)
    BY <1>4 DEF IsUserExists
  <2> QED
    BY <1>4, <2>1, <2>2, OwnStatement DEF IsUserExists, service, call, database, Named
<1>5. CASE CreateUser(r)
  <2>1. PICK applied \in BOOLEAN, result \in Results :
           Statement(host[r], ~RoleExists(module_name[r]), applied, result)
    BY <1>5, Zenon DEF CreateUser
  <2> QED
    BY <1>5, <2>1, OwnStatement DEF CreateUser, call, Named
<1>6. CASE InsertUserModule(r)
  BY <1>6, OwnInsertUserModule
<1>7. CASE ClearTwice(r)
  BY <1>7, OwnQuiet, OwnStop DEF ClearTwice, service, call, database, Named
<1>8. CASE CreateSchema(r)
  <2>1. PICK applied \in BOOLEAN, result \in Results :
           Statement(host[r], RoleExists(module_name[r]), applied, result)
    BY <1>8, Zenon DEF CreateSchema
  <2>2. PICK step \in {"create_table", "done"} : Goto(r, step)
    BY <1>8 DEF CreateSchema, Continue
  <2> QED
    BY <1>8, <2>1, <2>2, OwnStatement DEF CreateSchema, service, call, Named
<1>9. CASE UpdatePassword(r)
  <2>1. PICK applied \in BOOLEAN, result \in Results : Statement(host[r], TRUE, applied, result)
    BY <1>9, Zenon DEF UpdatePassword
  <2>2. PICK step \in {"create_table", "done"} : Goto(r, step)
    BY <1>9 DEF UpdatePassword
  <2> QED
    BY <1>9, <2>1, <2>2, OwnStatement DEF UpdatePassword, call, database, Named
<1>10. CASE CreateTable(r)
  <2>1. PICK uuid \in GeneratedUuid(r), applied \in BOOLEAN, result \in Results :
           Statement(host[r], uuid # "" /\ module_name[r] \in schemata, applied, result)
    BY <1>10, Zenon DEF CreateTable
  <2>2. PICK step \in {"alter_table", "done"} : Goto(r, step)
    BY <1>10 DEF CreateTable, Continue
  <2> QED
    BY <1>10, <2>1, <2>2, OwnStatement DEF CreateTable, call, Named
<1>11. CASE AlterTable(r)
  <2> DEFINE old == {t \in tables : t.name = output_table[r] /\ t.schema = module_name[r]}
  <2>1. PICK applied \in BOOLEAN, result \in Results :
           Statement(host[r], RoleExists(module_name[r]) /\ old # {}, applied, result)
    BY <1>11, Zenon DEF AlterTable
  <2>2. PICK step \in {"insert_processing", "done"} : Goto(r, step)
    BY <1>11 DEF AlterTable, Continue
  <2> HIDE DEF old
  <2> QED
    BY <1>11, <2>1, <2>2, OwnStatement DEF AlterTable, call, Named
<1>12. CASE InsertProcessing(r)
  BY <1>12, OwnInsertProcessing
<1>13. CASE Execute(r)
  BY <1>13, OwnQuiet DEF Execute, call, database, Named
<1>14. CASE ScriptCrash(r)
  BY <1>14, OwnStop DEF ScriptCrash
<1>15. CASE UpdateComplete(r)
  BY <1>15, OwnUpdateComplete
<1> QED
  BY <1>1, <1>2, <1>3, <1>4, <1>5, <1>6, <1>7, <1>8, <1>9, <1>10, <1>11, <1>12, <1>13,
     <1>14, <1>15 DEF Step

\* ... and a call is not made in a process in which another is active.
LEMMA OwnCall ==
    ASSUME WaitThreadComplete, TypeOK, Hosted, TaskListInv, OwnInv,
           NEW p \in Process, NEW r \in Run, NEW plugin \in PluginSpecs,
           NEW context \in BOOLEAN, Call(p, r, plugin, context)
    PROVE  OwnInv'
<1>1. PICK step \in {"done", "load", "reconnect"} : Goto(r, step)
  BY DEF Call
<1>2. /\ pc[r] = "idle"
      /\ host' = [host EXCEPT ![r] = p] /\ spec' = [spec EXCEPT ![r] = plugin]
      /\ UNCHANGED <<module_name, buffer, conn, user_module, processing_module>>
  BY DEF Call, database
<1>3. /\ pc'[r] = step /\ host'[r] = p
      /\ \A q \in Run \ {r} : pc'[q] = pc[q] /\ host'[q] = host[q] /\ spec'[q] = spec[q]
  BY <1>1, <1>2 DEF Goto, TypeOK
<1>4. \A q \in Run \ {r} : Active(q)' <=> Active(q)
  BY <1>3 DEF Active
<1>5. \A q \in Run : host[q] = p => ~Active(q)
  BY DEF Call, CallerFree
<1>6. \A q \in Run \ {r} : OwnText(q)' = OwnText(q) /\ OwnName(q)' = OwnName(q)
  BY <1>3 DEF OwnText, OwnName
<1>7. OneActive'
  BY <1>3, <1>4, <1>5 DEF OwnInv, OneActive
<1>8. pc'[r] # "named" /\ pc'[r] \notin Named
  BY <1>3 DEF Named
<1>9. BufferOwn' /\ NameOwn' /\ Connected'
  BY <1>2, <1>3, <1>6, <1>8 DEF OwnInv, BufferOwn, NameOwn, Connected
<1>10. \A m \in processing_module : m.id \in Run \ {r}
  BY <1>2, RowIds DEF TaskListInv, TaskNamed, Ended
<1>11. RowsOwn' /\ TasksOwn'
  BY <1>2, <1>6, <1>10 DEF OwnInv, RowsOwn, TasksOwn
<1> QED
  BY <1>7, <1>9, <1>11 DEF OwnInv

\* With joined threads every step keeps every run to its own module.
LEMMA OwnNext ==
    WaitThreadComplete /\ TypeOK /\ Hosted /\ TaskListInv /\ OwnInv /\ [Next]_vars => OwnInv'
<1> SUFFICES ASSUME WaitThreadComplete, TypeOK, Hosted, TaskListInv, OwnInv, [Next]_vars
             PROVE  OwnInv'
  OBVIOUS
<1>1. ASSUME NEW p \in Process, Die(p) PROVE OwnInv'
  BY <1>1, OwnStop DEF Die
<1>2. CASE UNCHANGED vars
  BY <1>2 DEF vars, service, call, account, database, OwnInv, OneActive, BufferOwn, NameOwn,
              Connected, RowsOwn, TasksOwn, Active, OwnText, OwnName
<1> QED
  BY <1>1, <1>2, OwnCall, OwnRunStep DEF Next, Finished

\* With joined threads a task is recorded under an account that was made for the
\* module it runs, for any processes, calls and faults: no thread of the process
\* writes into the version buffer meanwhile, accounts of one name are accounts of
\* one module, and the row a run goes on with has its name.
THEOREM OwnModule == WaitThreadComplete /\ Spec => []TaskIsItsOwnModule
<1> SUFFICES ASSUME WaitThreadComplete PROVE Spec => []TaskIsItsOwnModule
  OBVIOUS
<1>1. TypeOK /\ TaskListInv /\ OwnInv => TaskIsItsOwnModule
  <2> SUFFICES ASSUME TypeOK, TaskListInv, OwnInv, NEW m \in processing_module,
                      NEW u \in user_module, u.id = m.module_id
               PROVE  /\ u.module_name = spec[m.id].plugin_name
                      /\ VersionText(u.module_version) = OwnText(m.id)
    BY DEF TaskIsItsOwnModule
  <2>1. PICK n \in user_module : n.id = m.module_id /\ n.user_name = module_name[m.id]
    BY DEF OwnInv, TasksOwn
  <2>2. u.user_name = n.user_name
    BY <2>1 DEF TaskListInv, AccountNamed
  <2>3. RowName(u) = OwnName(m.id)
    BY <2>1, <2>2 DEF OwnInv, RowsOwn, TasksOwn
  <2> QED
    BY <2>3 DEF RowName, OwnName
<1>2. Init => Hosted
  BY DEF Init, Hosted
<1>3. TypeOK /\ Hosted /\ TaskListInv /\ OwnInv /\ [Next]_vars => OwnInv'
  BY OwnNext
<1> QED
  BY <1>1, <1>2, <1>3, TypeInit, TypeNext, TaskListInit, TaskListNext, OwnInit, PTL DEF Spec

---------------------------------------------------------------------------------
(* Credentials. *)

\* The only process, whose server refuses nothing it could carry out and whose
\* UuidCreate works: links may break, scripts fail and the process die.
Alone ==
    /\ WaitThreadComplete
    /\ \A p, q \in Process : p = q
    /\ Faults \cap {"reject", "uuid"} = {}

\* There are no accounts before the first call.
LEMMA CredentialsInit == Init => CredentialsInv
<1>1. Init => user_module = {} /\ \A r \in Run : pc[r] = "idle"
  BY DEF Init
<1> QED
  BY <1>1 DEF CredentialsInv, RowsOpen, RoleIsNew, RoleMade, StaysOpen, Entitled

\* Where the server refuses nothing, a legal statement fails only with its link.
LEMMA NotRefused ==
    ASSUME NEW p \in Process, NEW legal, NEW applied \in BOOLEAN, NEW result, TypeOK,
           "reject" \notin Faults, conn[p] # "null", Statement(p, legal, applied, result)
    PROVE  /\ legal /\ result # "ok" => conn'[p] = "bad"
           /\ result = "ok" \/ applied => conn[p] = "ok"
           /\ result = "ok" => applied
  BY DEF Statement, Answer, Login, TypeOK

\* While a run of the only process is active, no other is.
LEMMA NobodyElse ==
    ASSUME Alone, TypeOK, Hosted, OwnInv, NEW r \in Run, Active(r), NEW q \in Run, q # r
    PROVE  pc[q] \notin {"create_user", "insert_user"} \cup Entitled
<1>1. host[r] \in Process
  BY NamedActive DEF Hosted
<1>2. SUFFICES ASSUME Active(q) PROVE FALSE
  BY DEF Entitled, Active, WorkerStep
<1>3. host[q] \in Process
  BY <1>2, NamedActive DEF Hosted
<1>4. host[q] = host[r]
  BY <1>1, <1>3 DEF Alone
<1> QED
  BY <1>2, <1>4, OtherHost

\* A step keeps the invariant if the run that takes it, and what it inserts, do.
LEMMA CredentialsStep ==
    ASSUME Alone, TypeOK, Hosted, OwnInv, CredentialsInv, NEW r \in Run, NEW step,
           Active(r), Goto(r, step), pg_roles \subseteq pg_roles',
           \A u \in user_module' :
              \/ u \in user_module
              \/ /\ u.user_password # ""
                 /\ [rolname |-> u.user_name, password |-> u.user_password] \in pg_roles',
           step = "create_user" /\ conn'[host'[r]] = "ok" => ~RoleExists(module_name[r])',
           step = "insert_user" /\ (conn'[host'[r]] = "ok" \/ r \in ret') => Opens(r)',
           step \in Entitled => Opens(r)'
    PROVE  CredentialsInv'
<1>1. pc'[r] = step
  BY DEF TypeOK, Goto
<1>2. \A q \in Run \ {r} : pc'[q] \notin {"create_user", "insert_user"} \cup Entitled
  BY NobodyElse DEF TypeOK, Goto
<1>3. RowsOpen'
  BY DEF CredentialsInv, RowsOpen
<1>4. RoleIsNew'
  BY <1>1, <1>2 DEF RoleIsNew
<1>5. RoleMade'
  BY <1>1, <1>2 DEF RoleMade
<1>6. StaysOpen'
  BY <1>1, <1>2 DEF StaysOpen
<1> QED
  BY <1>3, <1>4, <1>5, <1>6 DEF CredentialsInv

\* A run that only goes on keeps the credentials it has.
LEMMA CredentialsGoto ==
    ASSUME Alone, TypeOK, Hosted, OwnInv, CredentialsInv, NEW r \in Run, NEW step,
           Active(r), Goto(r, step), UNCHANGED <<module_name, user_password, pg_roles, user_module>>,
           step \notin {"create_user", "insert_user"},
           step \in Entitled => pc[r] \in Entitled
    PROVE  CredentialsInv'
<1>1. step \in Entitled => Opens(r)'
  BY DEF CredentialsInv, StaysOpen, Opens
<1> QED
  BY <1>1, CredentialsStep

\* When its process has ended no run is active, and no role is gone.
LEMMA CredentialsStop ==
    ASSUME Alone, TypeOK, Hosted, CredentialsInv, NEW p \in Process, Stop(p)
    PROVE  CredentialsInv'
<1>1. UNCHANGED <<pg_roles, user_module>>
  BY DEF Stop, database
<1>2. \A q \in Run : pc'[q] \notin {"create_user", "insert_user"} \cup Entitled
  <2> SUFFICES ASSUME NEW q \in Run, pc'[q] \in {"create_user", "insert_user"} \cup Entitled
               PROVE  FALSE
    OBVIOUS
  <2>1. pc'[q] # "dead"
    BY DEF Entitled
  <2>2. pc'[q] = pc[q]
    BY <2>1 DEF Stop
  <2>3. Active(q)
    BY <2>2 DEF Active, WorkerStep, Entitled
  <2>4. host[q] = p
    BY <2>3, NamedActive DEF Alone, Hosted
  <2> QED
    BY <2>1, <2>3, <2>4 DEF Stop
<1>3. RowsOpen'
  BY <1>1 DEF CredentialsInv, RowsOpen
<1>4. RoleIsNew' /\ RoleMade' /\ StaysOpen'
  BY <1>2 DEF RoleIsNew, RoleMade, StaysOpen
<1> QED
  BY <1>3, <1>4 DEF CredentialsInv

\* A SELECT that did not find the role, or failed with its link, leaves
\* create_user either a role to make or nothing to do.
LEMMA CredentialsIsUserExists ==
    ASSUME Alone, TypeOK, Hosted, OwnInv, CredentialsInv, NEW r \in Run, IsUserExists(r)
    PROVE  CredentialsInv'
<1>1. /\ pc[r] = "is_user_exists" /\ Active(r) /\ host[r] \in Process
      /\ conn[host[r]] # "null" /\ "reject" \notin Faults
      /\ UNCHANGED <<host, module_name, pg_roles, user_module>>
  BY DEF IsUserExists, service, call, database, Active, WorkerStep, Hosted, OwnInv,
         Connected, Named, Alone
<1>2. PICK applied \in BOOLEAN, result \in Results :
         /\ Statement(host[r], TRUE, applied, result)
         /\ Goto(r, IF result = "ok" /\ RoleFound(module_name[r])
                    THEN "update_password" ELSE "create_user")
  BY Zenon DEF IsUserExists
<1>3. PICK step \in {"update_password", "create_user"} :
         /\ Goto(r, step)
         /\ step = "create_user" => result # "ok" \/ ~RoleFound(module_name[r])
  BY <1>2
<1>4. result # "ok" => conn'[host[r]] = "bad"
  BY <1>1, <1>2, NotRefused
<1>5. step = "create_user" /\ conn'[host'[r]] = "ok" => ~RoleExists(module_name[r])'
  BY <1>1, <1>3, <1>4 DEF RoleFound, RoleExists
<1> QED
  BY <1>1, <1>3, <1>5, CredentialsStep DEF Entitled

\* CREATE USER makes the role with the run's password, or the link is lost.
LEMMA CredentialsCreateUser ==
    ASSUME Alone, TypeOK, Hosted, OwnInv, CredentialsInv, NEW r \in Run, CreateUser(r)
    PROVE  CredentialsInv'
<1>1. /\ pc[r] = "create_user" /\ Active(r) /\ host[r] \in Process
      /\ conn[host[r]] # "null" /\ "reject" \notin Faults
      /\ Goto(r, "insert_user")
      /\ UNCHANGED <<host, module_name, user_module>>
  BY DEF CreateUser, call, Active, WorkerStep, Hosted, OwnInv, Connected, Named, Alone
<1>2. PICK uuid \in GeneratedUuid(r), applied \in BOOLEAN, result \in Results :
         /\ Statement(host[r], ~RoleExists(module_name[r]), applied, result)
         /\ pg_roles' = pg_roles \cup
               When(applied, {[rolname |-> module_name[r], password |-> uuid]})
         /\ user_password' = [user_password EXCEPT ![r] = uuid]
         /\ ret' = SetRet(r, result = "ok")
  BY Zenon DEF CreateUser
<1>3. uuid = r /\ r # ""
  BY ControllerAssumption DEF ControllerAssumption, GeneratedUuid, When, Alone
<1>4. result = "ok" => Opens(r)'
  <2>1. user_password'[r] = r
    BY <1>2, <1>3 DEF TypeOK
  <2>2. result = "ok" => [rolname |-> module_name[r], password |-> r] \in pg_roles'
    BY <1>1, <1>2, <1>3, NotRefused DEF When
  <2> QED
    BY <1>1, <1>3, <2>1, <2>2 DEF Opens
<1>5. conn'[host[r]] = "ok" \/ r \in ret' => result = "ok"
  <2>1. conn'[host[r]] = "ok" => conn[host[r]] = "ok"
    BY <1>1, <1>2 DEF Statement, Login, TypeOK, ConnState
  <2>2. conn[host[r]] = "ok" => ~RoleExists(module_name[r])
    BY <1>1 DEF CredentialsInv, RoleIsNew
  <2>3. ~RoleExists(module_name[r]) /\ result # "ok" => conn'[host[r]] = "bad"
    BY <1>1, <1>2, NotRefused
  <2>4. r \in ret' => result = "ok"
    BY <1>2 DEF SetRet
  <2> QED
    BY <2>1, <2>2, <2>3, <2>4
<1>6. pg_roles \subseteq pg_roles'
  BY <1>2
<1> QED
  BY <1>1, <1>4, <1>5, <1>6, CredentialsStep DEF Entitled

\* An account's row can be inserted only when its role was made.
LEMMA CredentialsInsertUserModule ==
    ASSUME Alone, TypeOK, Hosted, OwnInv, CredentialsInv, NEW r \in Run, InsertUserModule(r)
    PROVE  CredentialsInv'
<1> DEFINE row == [ id |-> r, user_name |-> module_name[r],
                    user_password |-> user_password[r],
                    module_name |-> spec[r].plugin_name,
                    module_version |-> spec[r].plugin_version,
                    schema_name |-> module_name[r] ]
<1>1. /\ pc[r] = "insert_user" /\ Active(r) /\ host[r] \in Process
      /\ conn[host[r]] # "null" /\ "reject" \notin Faults
      /\ UNCHANGED <<module_name, user_password, pg_roles>>
  BY DEF InsertUserModule, Active, WorkerStep, Hosted, OwnInv, Connected, Named, Alone
<1>2. PICK applied \in BOOLEAN, result \in Results :
         /\ Statement(host[r], TRUE, applied, result)
         /\ user_module' = user_module \cup When(applied, {row})
         /\ \/ result = "ok"
            \/ Goto(r, IF r \in ret THEN "create_schema"
                       ELSE IF result = "error" THEN "clear_twice" ELSE "done")
  BY Zenon DEF InsertUserModule
<1>3. PICK step \in {"create_schema", "clear_twice", "done"} :
         Goto(r, step) /\ (step = "create_schema" => result = "ok" \/ r \in ret)
  BY <1>2 DEF InsertUserModule
<1>4. result = "ok" \/ applied \/ r \in ret => Opens(r)
  BY <1>1, <1>2, NotRefused DEF CredentialsInv, RoleMade
<1>5. Opens(r)' <=> Opens(r)
  BY <1>1 DEF Opens
<1>6. \A u \in user_module' :
         \/ u \in user_module
         \/ /\ u.user_password # ""
            /\ [rolname |-> u.user_name, password |-> u.user_password] \in pg_roles'
  <2>1. \A u \in user_module' : u \in user_module \/ (applied /\ u = row)
    BY <1>2 DEF When
  <2>2. row.user_name = module_name[r] /\ row.user_password = user_password[r]
    OBVIOUS
  <2> HIDE DEF row
  <2> QED
    BY <1>1, <1>4, <2>1, <2>2 DEF Opens
<1> QED
  BY <1>1, <1>3, <1>4, <1>5, <1>6, CredentialsStep DEF Entitled

\* Whichever row the server returns, its password is the role's.
LEMMA CredentialsUpdatePassword ==
    ASSUME Alone, TypeOK, Hosted, OwnInv, CredentialsInv, NEW r \in Run, UpdatePassword(r)
    PROVE  CredentialsInv'
<1>1. /\ pc[r] = "update_password" /\ Active(r)
      /\ UNCHANGED <<module_name, pg_roles, user_module>>
  BY DEF UpdatePassword, database, Active, WorkerStep
<1>2. PICK step \in {"create_table", "done"} :
         /\ Goto(r, step)
         /\ step = "create_table" => \E u \in Accounts(module_name[r]) :
               user_password' = [user_password EXCEPT ![r] = u.user_password]
  BY DEF UpdatePassword
<1>3. step = "create_table" => Opens(r)'
  <2> SUFFICES ASSUME step = "create_table" PROVE Opens(r)'
    OBVIOUS
  <2>1. PICK u \in Accounts(module_name[r]) :
           user_password' = [user_password EXCEPT ![r] = u.user_password]
    BY <1>2
  <2>2. user_password'[r] = u.user_password
    BY <2>1 DEF TypeOK
  <2>3. u \in user_module /\ u.user_name = module_name[r]
    BY DEF Accounts
  <2>4. /\ u.user_password # ""
        /\ [rolname |-> u.user_name, password |-> u.user_password] \in pg_roles
    BY <2>3 DEF CredentialsInv, RowsOpen
  <2> QED
    BY <1>1, <2>2, <2>3, <2>4 DEF Opens
<1> QED
  BY <1>1, <1>2, <1>3, CredentialsStep DEF Entitled

\* The statements after that, and the module, keep what the run was given.
LEMMA CredentialsRunStep ==
    ASSUME Alone, TypeOK, Hosted, OwnInv, CredentialsInv, NEW r \in Run, Step(r)
    PROVE  CredentialsInv'
<1> USE DEF Active, CallerStep, WorkerStep, Entitled
<1>1. CASE Reconnect(r)
  BY <1>1, CredentialsGoto DEF Reconnect, service, account, database
<1>2. CASE FormatName(r)
  BY <1>2, CredentialsGoto DEF FormatName, service, account, database
<1>3. CASE ReadName(r)
  <2>1. PICK step \in {"is_user_exists", "done"} : Goto(r, step)
    BY <1>3 DEF ReadName
  <2> QED
    BY <1>3, <2>1, CredentialsStep DEF ReadName, database
<1>4. CASE IsUserExists(r)
  BY <1>4, CredentialsIsUserExists
<1>5. CASE CreateUser(r)
  BY <1>5, CredentialsCreateUser
<1>6. CASE InsertUserModule(r)
  BY <1>6, CredentialsInsertUserModule
<1>7. CASE ClearTwice(r)
  <2>1. CASE Stop(host[r])
    BY <1>7, <2>1, CredentialsStop DEF ClearTwice, Hosted
  <2>2. CASE Goto(r, "done") /\ UNCHANGED <<service, buffer, conn, database>>
    BY <1>7, <2>2, CredentialsGoto DEF ClearTwice, service, account, database
  <2> QED
    BY <1>7, <2>1, <2>2 DEF ClearTwice
<1>8. CASE CreateSchema(r)
  <2>1. PICK step \in {"create_table", "done"} : Goto(r, step)
    BY <1>8 DEF CreateSchema, Continue
  <2> QED
    BY <1>8, <2>1, CredentialsGoto DEF CreateSchema, service, account
<1>9. CASE UpdatePassword(r)
  BY <1>9, CredentialsUpdatePassword
<1>10. CASE CreateTable(r)
  <2>1. PICK step \in {"alter_table", "done"} : Goto(r, step)
    BY <1>10 DEF CreateTable, Continue
  <2> QED
    BY <1>10, <2>1, CredentialsGoto DEF CreateTable, account
<1>11. CASE AlterTable(r)
  <2>1. PICK step \in {"insert_processing", "done"} : Goto(r, step)
    BY <1>11 DEF AlterTable, Continue
  <2> QED
    BY <1>11, <2>1, CredentialsGoto DEF AlterTable, account
<1>12. CASE InsertProcessing(r)
  <2>1. PICK step \in {"execute", "done"} : Goto(r, step)
    BY <1>12 DEF InsertProcessing, Continue
  <2> QED
    BY <1>12, <2>1, CredentialsGoto DEF InsertProcessing, account
<1>13. CASE Execute(r)
  BY <1>13, CredentialsGoto DEF Execute, account, database
<1>14. CASE ScriptCrash(r)
  BY <1>14, CredentialsStop DEF ScriptCrash, Hosted
<1>15. CASE UpdateComplete(r)
  BY <1>15, CredentialsGoto DEF UpdateComplete, account
<1> QED
  BY <1>1, <1>2, <1>3, <1>4, <1>5, <1>6, <1>7, <1>8, <1>9, <1>10, <1>11, <1>12, <1>13,
     <1>14, <1>15 DEF Step

\* So does every step of the system.
LEMMA CredentialsNext ==
    Alone /\ TypeOK /\ Hosted /\ OwnInv /\ CredentialsInv /\ [Next]_vars => CredentialsInv'
<1> SUFFICES ASSUME Alone, TypeOK, Hosted, OwnInv, CredentialsInv, [Next]_vars
             PROVE  CredentialsInv'
  OBVIOUS
<1>1. ASSUME NEW p \in Process, NEW r \in Run, NEW plugin \in PluginSpecs,
             NEW context \in BOOLEAN, Call(p, r, plugin, context)
      PROVE  CredentialsInv'
  <2>1. PICK step \in {"done", "load", "reconnect"} : Goto(r, step)
    BY <1>1 DEF Call
  <2>2. \A q \in Run : ~Active(q)
    BY <1>1, NamedActive DEF Call, CallerFree, Alone, Hosted
  <2>3. \A q \in Run : pc'[q] \notin {"create_user", "insert_user"} \cup Entitled
    <3>1. \A q \in Run : pc[q] \notin {"create_user", "insert_user"} \cup Entitled
      BY <2>2 DEF Active, WorkerStep, Entitled
    <3> QED
      BY <2>1, <3>1 DEF Goto, TypeOK, Entitled
  <2>4. UNCHANGED <<pg_roles, user_module>>
    BY <1>1 DEF Call, database
  <2> QED
    BY <2>3, <2>4 DEF CredentialsInv, RowsOpen, RoleIsNew, RoleMade, StaysOpen
<1>2. ASSUME NEW p \in Process, Die(p) PROVE CredentialsInv'
  BY <1>2, CredentialsStop DEF Die
<1>3. CASE UNCHANGED vars
  BY <1>3 DEF vars, service, call, account, outcome, database, CredentialsInv, RowsOpen,
              RoleIsNew, RoleMade, StaysOpen, Opens, RoleExists
<1> QED
  BY <1>1, <1>2, <1>3, CredentialsRunStep DEF Next, Finished

\* The only process, joining its threads, on a server that refuses nothing it
\* could do, starts every module with a password that is its role's, wherever
\* links break and the process dies, and after any number of calls: an account's
\* row is inserted only over the link over which its role was made.
THEOREM CredentialsOpen == Alone /\ Spec => []CredentialsOpenDatabase
<1> SUFFICES ASSUME Alone PROVE Spec => []CredentialsOpenDatabase
  OBVIOUS
<1>1. CredentialsInv => CredentialsOpenDatabase
  BY DEF CredentialsInv, StaysOpen, Entitled, Opens, CredentialsOpenDatabase
<1>2. Init => Hosted
  BY DEF Init, Hosted
<1>3. TypeOK /\ Hosted /\ TaskListInv /\ OwnInv /\ [Next]_vars => OwnInv'
  BY OwnNext DEF Alone
<1>4. TypeOK /\ Hosted /\ OwnInv /\ CredentialsInv /\ [Next]_vars => CredentialsInv'
  BY CredentialsNext
<1> QED
  BY <1>1, <1>2, <1>3, <1>4, TypeInit, TypeNext, TaskListInit, TaskListNext, OwnInit,
     CredentialsInit, PTL DEF Spec

---------------------------------------------------------------------------------
(* Half-made accounts. *)

\* Where a run is while it makes an account.
Making == {"create_user", "insert_user", "create_schema"}

\* An account stays half made unless the run that steps repairs it, or gets
\* where it could.
LEMMA HalfMadeStep ==
    ASSUME TypeOK, Hosted, OwnInv, NEW r \in Run, NEW step, NEW name, Active(r), HalfMade(name),
           Goto(r, step), UNCHANGED host, pg_roles \subseteq pg_roles',
           \A q \in Run \ {r} : module_name'[q] = module_name[q],
           \A p \in Process \ {host[r]} : conn'[p] = conn[p],
           \A u \in user_module' : u \in user_module \/ u.user_name # name,
           name \in schemata' => name \in schemata,
           step \in Making /\ module_name'[r] = name => conn'[host[r]] = "bad"
    PROVE  HalfMade(name)'
<1>1. RoleExists(name)'
  BY DEF HalfMade, RoleExists
<1>2. (\A u \in user_module' : u.user_name # name) \/ name \notin schemata'
  BY DEF HalfMade
<1>3. ASSUME NEW q \in Run, pc'[q] \in Making, module_name'[q] = name
      PROVE  conn'[host'[q]] = "bad"
  <2>1. CASE q = r
    BY <1>3, <2>1 DEF Goto, TypeOK
  <2>2. CASE q # r
    <3>1. pc[q] \in Making /\ module_name[q] = name
      BY <1>3, <2>2 DEF Goto, TypeOK
    <3>2. Active(q)
      BY <3>1 DEF Making, Active, WorkerStep
    <3>3. host[q] \in Process \ {host[r]}
      BY <2>2, <3>2, OtherHost, NamedActive DEF Hosted
    <3> QED
      BY <3>1, <3>3 DEF HalfMade, Making
  <2> QED
    BY <2>1, <2>2
<1> QED
  BY <1>1, <1>2, <1>3 DEF HalfMade, Making

\* Nor does the end of a process repair it.
LEMMA HalfMadeStop ==
    ASSUME TypeOK, Hosted, NEW p, NEW name, HalfMade(name), Stop(p)
    PROVE  HalfMade(name)'
<1>1. UNCHANGED <<host, module_name, pg_roles, user_module, schemata>>
  BY DEF Stop, service, call, database
<1>2. ASSUME NEW q \in Run, pc'[q] \in Making, module_name'[q] = name
      PROVE  conn'[host'[q]] = "bad"
  <2>1. pc'[q] = pc[q]
    BY <1>2 DEF Stop, Making
  <2>2. Active(q)
    BY <1>2, <2>1 DEF Making, Active, WorkerStep
  <2>3. host[q] # p
    BY <1>2, <2>2 DEF Stop, Making
  <2>4. host[q] \in Process
    BY <2>2, NamedActive DEF Hosted
  <2>5. conn'[host[q]] = conn[host[q]]
    BY <2>3, <2>4 DEF Stop, TypeOK
  <2> QED
    BY <1>1, <1>2, <2>1, <2>5 DEF HalfMade, Making
<1> QED
  BY <1>1, <1>2 DEF HalfMade, RoleExists, Making

\* A statement of another account's run, or one that makes nothing.
LEMMA HalfMadeGoto ==
    ASSUME TypeOK, Hosted, OwnInv, NEW r \in Run, NEW step, NEW name, HalfMade(name),
           pc[r] \in Named, Goto(r, step), step \notin Making,
           UNCHANGED <<host, module_name, pg_roles, user_module, schemata>>,
           NEW legal, NEW applied, NEW result, Statement(host[r], legal, applied, result)
    PROVE  HalfMade(name)'
<1>1. Active(r) /\ host[r] \in Process
  BY NamedActive DEF Hosted
<1>2. \A p \in Process \ {host[r]} : conn'[p] = conn[p]
  BY <1>1, StatementConn
<1> QED
  BY <1>1, <1>2, HalfMadeStep

\* is_user_exists finds the role of a half-made account, or loses its link.
LEMMA HalfMadeIsUserExists ==
    ASSUME "reject" \notin Faults, TypeOK, Hosted, OwnInv, NEW r \in Run, NEW name,
           HalfMade(name), IsUserExists(r)
    PROVE  HalfMade(name)'
<1>1. /\ pc[r] = "is_user_exists" /\ Active(r) /\ host[r] \in Process
      /\ conn[host[r]] # "null"
      /\ UNCHANGED <<host, module_name, pg_roles, user_module, schemata>>
  BY DEF IsUserExists, service, call, database, Active, WorkerStep, Hosted, OwnInv,
         Connected, Named
<1>2. PICK applied \in BOOLEAN, result \in Results :
         /\ Statement(host[r], TRUE, applied, result)
         /\ Goto(r, IF result = "ok" /\ RoleFound(module_name[r])
                    THEN "update_password" ELSE "create_user")
  BY Zenon DEF IsUserExists
<1>3. PICK step \in {"update_password", "create_user"} :
         /\ Goto(r, step)
         /\ step = "create_user" => result # "ok" \/ ~RoleFound(module_name[r])
  BY <1>2
<1>4. module_name[r] = name => RoleFound(module_name[r])
  BY DEF HalfMade, RoleFound
<1>5. result # "ok" => conn'[host[r]] = "bad"
  BY <1>1, <1>2, NotRefused
<1>6. \A p \in Process \ {host[r]} : conn'[p] = conn[p]
  BY <1>1, <1>2, StatementConn
<1>7. step \in Making /\ module_name'[r] = name => conn'[host[r]] = "bad"
  BY <1>1, <1>3, <1>4, <1>5 DEF Making
<1> QED
  BY <1>1, <1>3, <1>6, <1>7, HalfMadeStep

\* The run that makes it has lost its link before its next statement.
LEMMA HalfMadeCreateUser ==
    ASSUME TypeOK, Hosted, OwnInv, NEW r \in Run, NEW name, HalfMade(name), CreateUser(r)
    PROVE  HalfMade(name)'
<1>1. /\ pc[r] = "create_user" /\ Active(r) /\ host[r] \in Process
      /\ Goto(r, "insert_user")
      /\ UNCHANGED <<host, module_name, user_module, schemata>>
  BY DEF CreateUser, call, Active, WorkerStep, Hosted
<1>2. PICK uuid \in GeneratedUuid(r), applied \in BOOLEAN, result \in Results :
         /\ Statement(host[r], ~RoleExists(module_name[r]), applied, result)
         /\ pg_roles' = pg_roles \cup
               When(applied, {[rolname |-> module_name[r], password |-> uuid]})
  BY Zenon DEF CreateUser
<1>3. module_name[r] = name => conn'[host[r]] = "bad"
  BY <1>1, <1>2, StatementConn DEF HalfMade
<1>4. /\ \A p \in Process \ {host[r]} : conn'[p] = conn[p]
      /\ pg_roles \subseteq pg_roles'
  BY <1>1, <1>2, StatementConn
<1> QED
  BY <1>1, <1>3, <1>4, HalfMadeStep

\* ... so that it inserts no row ...
LEMMA HalfMadeInsertUserModule ==
    ASSUME TypeOK, Hosted, OwnInv, NEW r \in Run, NEW name, HalfMade(name), InsertUserModule(r)
    PROVE  HalfMade(name)'
<1> DEFINE row == [ id |-> r, user_name |-> module_name[r],
                    user_password |-> user_password[r],
                    module_name |-> spec[r].plugin_name,
                    module_version |-> spec[r].plugin_version,
                    schema_name |-> module_name[r] ]
<1>1. /\ pc[r] = "insert_user" /\ Active(r) /\ host[r] \in Process
      /\ UNCHANGED <<host, module_name, pg_roles, schemata>>
  BY DEF InsertUserModule, call, Active, WorkerStep, Hosted
<1>2. PICK applied \in BOOLEAN, result \in Results :
         /\ Statement(host[r], TRUE, applied, result)
         /\ user_module' = user_module \cup When(applied, {row})
  BY Zenon DEF InsertUserModule
<1>3. PICK step \in {"create_schema", "clear_twice", "done"} : Goto(r, step)
  BY DEF InsertUserModule
<1>4. module_name[r] = name => ~applied
  <2>1. module_name[r] = name => conn[host[r]] = "bad"
    BY <1>1 DEF HalfMade
  <2>2. conn[host[r]] = "bad" => ~applied
    BY <1>2, DeadLink
  <2> QED
    BY <2>1, <2>2
<1>5. \A u \in user_module' : u \in user_module \/ u.user_name # name
  <2>1. \A u \in user_module' : u \in user_module \/ (applied /\ u = row)
    BY <1>2 DEF When
  <2>2. row.user_name = module_name[r]
    OBVIOUS
  <2> HIDE DEF row
  <2> QED
    BY <1>4, <2>1, <2>2
<1>6. \A p \in Process \ {host[r]} : conn'[p] = conn[p]
  BY <1>1, <1>2, StatementConn
<1>7. module_name[r] = name => conn'[host[r]] = "bad"
  BY <1>1, <1>2, StatementConn DEF HalfMade
<1> QED
  BY <1>1, <1>3, <1>5, <1>6, <1>7, HalfMadeStep

\* ... and makes no schema.
LEMMA HalfMadeCreateSchema ==
    ASSUME TypeOK, Hosted, OwnInv, NEW r \in Run, NEW name, HalfMade(name), CreateSchema(r)
    PROVE  HalfMade(name)'
<1>1. /\ pc[r] = "create_schema" /\ Active(r) /\ host[r] \in Process
      /\ UNCHANGED <<host, module_name, pg_roles, user_module>>
  BY DEF CreateSchema, service, call, Active, WorkerStep, Hosted
<1>2. PICK applied \in BOOLEAN, result \in Results :
         /\ Statement(host[r], RoleExists(module_name[r]), applied, result)
         /\ schemata' = schemata \cup When(applied, {module_name[r]})
  BY Zenon DEF CreateSchema
<1>3. PICK step \in {"create_table", "done"} : Goto(r, step)
  BY DEF CreateSchema, Continue
<1>4. module_name[r] = name => ~applied
  <2>1. module_name[r] = name => conn[host[r]] = "bad"
    BY <1>1 DEF HalfMade
  <2>2. conn[host[r]] = "bad" => ~applied
    BY <1>2, DeadLink
  <2> QED
    BY <2>1, <2>2
<1>5. name \in schemata' => name \in schemata
  BY <1>2, <1>4 DEF When
<1>6. \A p \in Process \ {host[r]} : conn'[p] = conn[p]
  BY <1>1, <1>2, StatementConn
<1> QED
  BY <1>1, <1>3, <1>5, <1>6, HalfMadeStep DEF Making

\* No step of a run repairs a half-made account ...
LEMMA HalfMadeRunStep ==
    ASSUME "reject" \notin Faults, TypeOK, Hosted, OwnInv, NEW r \in Run, NEW name,
           HalfMade(name), Step(r)
    PROVE  HalfMade(name)'
<1> USE DEF Active, CallerStep, WorkerStep, Making, Named
<1>1. CASE Reconnect(r)
  <2>1. \A p \in Process \ {host[r]} : conn'[p] = conn[p]
    BY <1>1 DEF Reconnect, Login, TypeOK
  <2> QED
    BY <1>1, <2>1, HalfMadeStep DEF Reconnect, service, call, database
<1>2. CASE FormatName(r)
  BY <1>2, HalfMadeStep DEF FormatName, service, call, database
<1>3. CASE ReadName(r)
  <2>1. PICK step \in {"is_user_exists", "done"} : Goto(r, step)
    BY <1>3 DEF ReadName
  <2>2. \A q \in Run \ {r} : module_name'[q] = module_name[q]
    BY <1>3 DEF ReadName, TypeOK
  <2> QED
    BY <1>3, <2>1, <2>2, HalfMadeStep DEF ReadName, call, database
<1>4. CASE IsUserExists(r)
  BY <1>4, HalfMadeIsUserExists
<1>5. CASE CreateUser(r)
  BY <1>5, HalfMadeCreateUser
<1>6. CASE InsertUserModule(r)
  BY <1>6, HalfMadeInsertUserModule
<1>7. CASE ClearTwice(r)
  <2>1. CASE Goto(r, "done") /\ UNCHANGED <<service, buffer, conn, database>>
    BY <1>7, <2>1, HalfMadeStep DEF ClearTwice, service, call, database
  <2> QED
    BY <1>7, <2>1, HalfMadeStop DEF ClearTwice
<1>8. CASE CreateSchema(r)
  BY <1>8, HalfMadeCreateSchema
<1>9. CASE UpdatePassword(r)
  <2>1. PICK applied \in BOOLEAN, result \in Results : Statement(host[r], TRUE, applied, result)
    BY <1>9, Zenon DEF UpdatePassword
  <2>2. PICK step \in {"create_table", "done"} : Goto(r, step)
    BY <1>9 DEF UpdatePassword
  <2> QED
    BY <1>9, <2>1, <2>2, HalfMadeGoto DEF UpdatePassword, call, database
<1>10. CASE CreateTable(r)
  <2>1. PICK uuid \in GeneratedUuid(r), applied \in BOOLEAN, result \in Results :
           Statement(host[r], uuid # "" /\ module_name[r] \in schemata, applied, result)
    BY <1>10, Zenon DEF CreateTable
  <2>2. PICK step \in {"alter_table", "done"} : Goto(r, step)
    BY <1>10 DEF CreateTable, Continue
  <2> QED
    BY <1>10, <2>1, <2>2, HalfMadeGoto DEF CreateTable, call
<1>11. CASE AlterTable(r)
  <2> DEFINE old == {t \in tables : t.name = output_table[r] /\ t.schema = module_name[r]}
  <2>1. PICK applied \in BOOLEAN, result \in Results :
           Statement(host[r], RoleExists(module_name[r]) /\ old # {}, applied, result)
    BY <1>11, Zenon DEF AlterTable
  <2>2. PICK step \in {"insert_processing", "done"} : Goto(r, step)
    BY <1>11 DEF AlterTable, Continue
  <2> HIDE DEF old
  <2> QED
    BY <1>11, <2>1, <2>2, HalfMadeGoto DEF AlterTable, call
<1>12. CASE InsertProcessing(r)
  <2>1. PICK applied \in BOOLEAN, result \in Results :
           Statement(host[r], \E u \in user_module : u.id = module_id[r], applied, result)
    BY <1>12, Zenon DEF InsertProcessing
  <2>2. PICK step \in {"execute", "done"} : Goto(r, step)
    BY <1>12 DEF InsertProcessing, Continue
  <2> QED
    BY <1>12, <2>1, <2>2, HalfMadeGoto DEF InsertProcessing, call
<1>13. CASE Execute(r)
  BY <1>13, HalfMadeStep DEF Execute, call, database
<1>14. CASE ScriptCrash(r)
  BY <1>14, HalfMadeStop DEF ScriptCrash
<1>15. CASE UpdateComplete(r)
  <2>1. PICK applied \in BOOLEAN, result \in Results : Statement(host[r], TRUE, applied, result)
    BY <1>15, Zenon DEF UpdateComplete
  <2> QED
    BY <1>15, <2>1, HalfMadeGoto DEF UpdateComplete, call
<1> QED
  BY <1>1, <1>2, <1>3, <1>4, <1>5, <1>6, <1>7, <1>8, <1>9, <1>10, <1>11, <1>12, <1>13,
     <1>14, <1>15 DEF Step

\* ... nor does any step of the system.
LEMMA HalfMadeNext ==
    "reject" \notin Faults /\ TypeOK /\ Hosted /\ OwnInv /\ [Next]_vars =>
        \A name \in ModuleName : HalfMade(name) => HalfMade(name)'
<1> SUFFICES ASSUME "reject" \notin Faults, TypeOK, Hosted, OwnInv, [Next]_vars,
                    NEW name \in ModuleName, HalfMade(name)
             PROVE  HalfMade(name)'
  OBVIOUS
<1>1. ASSUME NEW p \in Process, NEW r \in Run, NEW plugin \in PluginSpecs,
             NEW context \in BOOLEAN, Call(p, r, plugin, context)
      PROVE  HalfMade(name)'
  <2>1. PICK step \in {"done", "load", "reconnect"} : Goto(r, step)
    BY <1>1 DEF Call
  <2>2. UNCHANGED <<module_name, conn, pg_roles, user_module, schemata>>
    BY <1>1 DEF Call, database
  <2>3. \A q \in Run : pc'[q] \in Making => pc[q] \in Making /\ host'[q] = host[q]
    BY <1>1, <2>1 DEF Call, Goto, TypeOK, Making
  <2> QED
    BY <2>2, <2>3 DEF HalfMade, RoleExists, Making
<1>2. ASSUME NEW p \in Process, Die(p) PROVE HalfMade(name)'
  BY <1>2, HalfMadeStop DEF Die
<1>3. CASE UNCHANGED vars
  BY <1>3 DEF vars, service, call, database, HalfMade, RoleExists
<1> QED
  BY <1>1, <1>2, <1>3, HalfMadeRunStep DEF Next, Finished

\* Where no statement is refused an account that a lost link or a crash has left
\* without its row or its schema stays so for ever, however many processes and
\* calls come after: each of them finds the role.
THEOREM HalfMadeForEver ==
    WaitThreadComplete /\ "reject" \notin Faults /\ Spec => HalfMadeStays
<1> SUFFICES ASSUME WaitThreadComplete, "reject" \notin Faults PROVE Spec => HalfMadeStays
  OBVIOUS
<1>1. Init => Hosted
  BY DEF Init, Hosted
<1>2. TypeOK /\ Hosted /\ TaskListInv /\ OwnInv /\ [Next]_vars => OwnInv'
  BY OwnNext
<1>3. TypeOK /\ Hosted /\ OwnInv /\ [Next]_vars =>
         [\A name \in ModuleName : HalfMade(name) => HalfMade(name)']_vars
  BY HalfMadeNext
<1> QED
  BY <1>1, <1>2, <1>3, TypeInit, TypeNext, TaskListInit, TaskListNext, OwnInit, PTL
     DEF Spec, HalfMadeStays

---------------------------------------------------------------------------------
(* Dropped calls. *)

\* What the statement that comes next will find, on which its success depends:
\* a result is freed twice only when the link was lost, an account is looked for
\* only under a role that exists, ...
ClearedAfterLoss == \A r \in Run : pc[r] = "clear_twice" => conn[host[r]] = "bad"

RoleThere == \A r \in Run : pc[r] = "update_password" => RoleExists(module_name[r])

\* ... a run without an account cannot go on, and a table that changes its owner
\* was made.
AccountKnown ==
    \A r \in Run : pc[r] \in Registering => module_id[r] # "" \/ conn[host[r]] = "bad"

TableThere ==
    \A r \in Run : pc[r] = "alter_table" =>
        \E t \in tables : t.name = r /\ t.schema = module_name[r]

ProvidedInv ==
    /\ ClearedAfterLoss
    /\ RoleThere
    /\ AccountKnown
    /\ TableThere

\* No statement is due before the first call.
LEMMA ProvidedInit == Init => ProvidedInv
<1>1. Init => \A r \in Run : pc[r] = "idle"
  BY DEF Init
<1> QED
  BY <1>1 DEF ProvidedInv, ClearedAfterLoss, RoleThere, AccountKnown, TableThere, Registering

\* While a run of the only process is active, no other is.
LEMMA NobodyElseActive ==
    ASSUME Alone, TypeOK, Hosted, OwnInv, NEW r \in Run, Active(r), NEW q \in Run, q # r
    PROVE  ~Active(q)
<1>1. host[r] \in Process
  BY NamedActive DEF Hosted
<1>2. SUFFICES ASSUME Active(q) PROVE FALSE
  OBVIOUS
<1>3. host[q] \in Process
  BY <1>2, NamedActive DEF Hosted
<1>4. host[q] = host[r]
  BY <1>1, <1>3 DEF Alone
<1> QED
  BY <1>2, <1>4, OtherHost

\* A step keeps the invariant if the run that takes it does.
LEMMA ProvidedStep ==
    ASSUME Alone, TypeOK, Hosted, OwnInv, ProvidedInv, NEW r \in Run, NEW step,
           Active(r), Goto(r, step),
           step = "clear_twice" => conn'[host'[r]] = "bad",
           step = "update_password" => RoleExists(module_name[r])',
           step \in Registering => module_id'[r] # "" \/ conn'[host'[r]] = "bad",
           step = "alter_table" => \E t \in tables' : t.name = r /\ t.schema = module_name'[r]
    PROVE  ProvidedInv'
<1>1. pc'[r] = step
  BY DEF TypeOK, Goto
<1>2. \A q \in Run \ {r} :
         pc'[q] \notin {"clear_twice", "update_password", "alter_table"} \cup Registering
  <2> TAKE q \in Run \ {r}
  <2>1. ~Active(q) /\ pc'[q] = pc[q]
    BY NobodyElseActive DEF TypeOK, Goto
  <2> QED
    BY <2>1 DEF Active, WorkerStep, Registering
<1>3. ClearedAfterLoss'
  BY <1>1, <1>2 DEF ClearedAfterLoss
<1>4. RoleThere'
  BY <1>1, <1>2 DEF RoleThere
<1>5. AccountKnown'
  BY <1>1, <1>2 DEF AccountKnown
<1>6. TableThere'
  BY <1>1, <1>2 DEF TableThere
<1> QED
  BY <1>3, <1>4, <1>5, <1>6 DEF ProvidedInv

\* When its process has ended no run has a next statement.
LEMMA ProvidedStop ==
    ASSUME Alone, TypeOK, Hosted, NEW p \in Process, Stop(p)
    PROVE  ProvidedInv'
<1>1. \A q \in Run :
         pc'[q] \notin {"clear_twice", "update_password", "alter_table"} \cup Registering
  <2> SUFFICES ASSUME NEW q \in Run,
                      pc'[q] \in {"clear_twice", "update_password", "alter_table"} \cup Registering
               PROVE  FALSE
    OBVIOUS
  <2>1. pc'[q] # "dead"
    BY DEF Registering
  <2>2. pc'[q] = pc[q]
    BY <2>1 DEF Stop
  <2>3. Active(q)
    BY <2>2 DEF Active, WorkerStep, Registering
  <2>4. host[q] = p
    BY <2>3, NamedActive DEF Alone, Hosted
  <2> QED
    BY <2>1, <2>3, <2>4 DEF Stop
<1> QED
  BY <1>1 DEF ProvidedInv, ClearedAfterLoss, RoleThere, AccountKnown, TableThere

\* The INSERT of the account leaves an account, a lost link or no run.
LEMMA ProvidedInsertUserModule ==
    ASSUME Alone, TypeOK, Hosted, OwnInv, ProvidedInv, NEW r \in Run, InsertUserModule(r)
    PROVE  ProvidedInv'
<1>1. /\ pc[r] = "insert_user" /\ Active(r) /\ host[r] \in Process
      /\ conn[host[r]] # "null" /\ "reject" \notin Faults
      /\ UNCHANGED host
  BY DEF InsertUserModule, call, Active, WorkerStep, Hosted, OwnInv, Connected, Named, Alone
<1>2. PICK applied \in BOOLEAN, result \in Results :
         /\ Statement(host[r], TRUE, applied, result)
         /\ \/ /\ result = "ok"
               /\ module_id' = [module_id EXCEPT ![r] = r]
               /\ Goto(r, "create_schema")
            \/ /\ result # "ok"
               /\ Goto(r, IF r \in ret THEN "create_schema"
                          ELSE IF result = "error" THEN "clear_twice" ELSE "done")
  BY Zenon DEF InsertUserModule
<1>3. result # "ok" => conn'[host[r]] = "bad"
  BY <1>1, <1>2, NotRefused
<1>4. CASE result = "ok"
  <2>1. module_id'[r] # "" /\ Goto(r, "create_schema")
    BY <1>2, <1>4, ControllerAssumption DEF ControllerAssumption, TypeOK
  <2> QED
    BY <1>1, <2>1, ProvidedStep
<1>5. CASE result # "ok"
  <2>1. PICK step \in {"create_schema", "clear_twice", "done"} : Goto(r, step)
    BY <1>2, <1>5
  <2>2. conn'[host'[r]] = "bad"
    BY <1>1, <1>3, <1>5
  <2> QED
    BY <1>1, <2>1, <2>2, ProvidedStep
<1> QED
  BY <1>4, <1>5

\* The account that is found has an id.
LEMMA ProvidedUpdatePassword ==
    ASSUME Alone, TypeOK, Hosted, OwnInv, ProvidedInv, NEW r \in Run, UpdatePassword(r)
    PROVE  ProvidedInv'
<1>1. pc[r] = "update_password" /\ Active(r)
  BY DEF UpdatePassword, Active, WorkerStep
<1>2. PICK step \in {"create_table", "done"} :
         /\ Goto(r, step)
         /\ step = "create_table" => \E u \in Accounts(module_name[r]) :
               module_id' = [module_id EXCEPT ![r] = u.id]
  BY DEF UpdatePassword
<1>3. step = "create_table" => module_id'[r] # ""
  <2> SUFFICES ASSUME step = "create_table" PROVE module_id'[r] # ""
    OBVIOUS
  <2>1. PICK u \in Accounts(module_name[r]) : module_id' = [module_id EXCEPT ![r] = u.id]
    BY <1>2
  <2>2. u.id \in Run
    BY DEF Accounts, TypeOK, UserModule
  <2> QED
    BY <2>1, <2>2, ControllerAssumption DEF ControllerAssumption, TypeOK
<1> QED
  BY <1>1, <1>2, <1>3, ProvidedStep DEF Registering

\* A statement that goes on, over a link that was not lost, keeps the account.
LEMMA ProvidedGoto ==
    ASSUME Alone, TypeOK, Hosted, OwnInv, ProvidedInv, NEW r \in Run, NEW step,
           pc[r] \in Registering, Goto(r, step), UNCHANGED <<host, module_id>>,
           NEW legal, NEW applied \in BOOLEAN, NEW result,
           Statement(host[r], legal, applied, result),
           step \in {"create_table", "alter_table", "insert_processing", "execute", "done"},
           step = "alter_table" => \E t \in tables' : t.name = r /\ t.schema = module_name'[r]
    PROVE  ProvidedInv'
<1>1. Active(r)
  BY DEF Active, WorkerStep, Registering
<1>2. host[r] \in Process
  BY <1>1, NamedActive DEF Hosted
<1>3. module_id'[r] # "" \/ conn'[host'[r]] = "bad"
  BY <1>2, StatementConn DEF ProvidedInv, AccountKnown
<1> QED
  BY <1>1, <1>3, ProvidedStep

\* A table that CREATE TABLE has made is there.
LEMMA ProvidedCreateTable ==
    ASSUME Alone, TypeOK, Hosted, OwnInv, ProvidedInv, NEW r \in Run, CreateTable(r)
    PROVE  ProvidedInv'
<1>1. /\ pc[r] = "create_table" /\ Active(r) /\ host[r] \in Process
      /\ conn[host[r]] # "null" /\ "reject" \notin Faults
      /\ UNCHANGED <<host, module_name, module_id>>
  BY DEF CreateTable, call, account, Active, WorkerStep, Hosted, OwnInv, Connected, Named, Alone
<1>2. PICK uuid \in GeneratedUuid(r), applied \in BOOLEAN, result \in Results :
         /\ Statement(host[r], uuid # "" /\ module_name[r] \in schemata, applied, result)
         /\ tables' = tables \cup
               When(applied, {[name |-> uuid, schema |-> module_name[r], owner |-> SystemUser]})
         /\ Goto(r, Continue(result, "alter_table"))
  BY Zenon DEF CreateTable
<1>3. uuid = r
  BY DEF GeneratedUuid, When, Alone
<1>4. PICK step \in {"alter_table", "done"} :
         Goto(r, step) /\ (step = "alter_table" => result = "ok")
  BY <1>2 DEF Continue
<1>5. step = "alter_table" => \E t \in tables' : t.name = r /\ t.schema = module_name'[r]
  <2>1. result = "ok" => applied
    BY <1>1, <1>2, NotRefused
  <2>2. applied => [name |-> r, schema |-> module_name[r], owner |-> SystemUser] \in tables'
    BY <1>2, <1>3 DEF When
  <2> QED
    BY <1>1, <1>4, <2>1, <2>2
<1> QED
  <2>1. pc[r] \in Registering /\ UNCHANGED <<host, module_id>>
    BY <1>1 DEF Registering
  <2> QED
    BY <1>2, <1>4, <1>5, <2>1, ProvidedGoto

\* The statements that only go on keep the account.
LEMMA ProvidedStatement ==
    ASSUME Alone, TypeOK, Hosted, OwnInv, ProvidedInv, NEW r \in Run,
           CreateSchema(r) \/ AlterTable(r) \/ InsertProcessing(r)
    PROVE  ProvidedInv'
<1>1. CASE CreateSchema(r)
  <2>1. PICK legal \in BOOLEAN, applied \in BOOLEAN, result \in Results :
           /\ Statement(host[r], legal, applied, result)
           /\ Goto(r, Continue(result, "create_table"))
    BY <1>1, Zenon DEF CreateSchema, RoleExists
  <2>2. PICK step \in {"create_table", "done"} : Goto(r, step)
    BY <2>1 DEF Continue
  <2>3. pc[r] \in Registering /\ UNCHANGED <<host, module_id>>
    BY <1>1 DEF CreateSchema, Registering, service, call, account
  <2> QED
    BY <2>1, <2>2, <2>3, ProvidedGoto
<1>2. CASE AlterTable(r)
  <2>1. PICK legal \in BOOLEAN, applied \in BOOLEAN, result \in Results :
           /\ Statement(host[r], legal, applied, result)
           /\ Goto(r, Continue(result, "insert_processing"))
    BY <1>2, Zenon DEF AlterTable
  <2>2. PICK step \in {"insert_processing", "done"} : Goto(r, step)
    BY <2>1 DEF Continue
  <2>3. pc[r] \in Registering /\ UNCHANGED <<host, module_id>>
    BY <1>2 DEF AlterTable, Registering, call, account
  <2> QED
    BY <2>1, <2>2, <2>3, ProvidedGoto
<1>3. CASE InsertProcessing(r)
  <2>1. PICK legal \in BOOLEAN, applied \in BOOLEAN, result \in Results :
           /\ Statement(host[r], legal, applied, result)
           /\ Goto(r, Continue(result, "execute"))
    BY <1>3, Zenon DEF InsertProcessing
  <2>2. PICK step \in {"execute", "done"} : Goto(r, step)
    BY <2>1 DEF Continue
  <2>3. pc[r] \in Registering /\ UNCHANGED <<host, module_id>>
    BY <1>3 DEF InsertProcessing, Registering, call, account
  <2> QED
    BY <2>1, <2>2, <2>3, ProvidedGoto
<1> QED
  BY <1>1, <1>2, <1>3

\* The statements before those, and the module and its last statement, do not
\* touch what the invariant is about; a SELECT that found a role goes on with it.
LEMMA ProvidedRunStep ==
    ASSUME Alone, TypeOK, Hosted, OwnInv, ProvidedInv, NEW r \in Run, Step(r)
    PROVE  ProvidedInv'
<1> USE DEF Active, CallerStep, WorkerStep, Registering
<1>1. CASE Reconnect(r)
  BY <1>1, ProvidedStep DEF Reconnect
<1>2. CASE FormatName(r)
  BY <1>2, ProvidedStep DEF FormatName
<1>3. CASE ReadName(r)
  <2>1. PICK step \in {"is_user_exists", "done"} : Goto(r, step)
    BY <1>3 DEF ReadName
  <2> QED
    BY <1>3, <2>1, ProvidedStep DEF ReadName
<1>4. CASE IsUserExists(r)
  <2>1. PICK step \in {"update_password", "create_user"} :
           Goto(r, step) /\ (step = "update_password" => RoleExists(module_name[r]))
    BY <1>4 DEF IsUserExists, RoleFound
  <2>2. RoleExists(module_name[r])' <=> RoleExists(module_name[r])
    BY <1>4 DEF IsUserExists, service, database, RoleExists
  <2> QED
    BY <1>4, <2>1, <2>2, ProvidedStep DEF IsUserExists
<1>5. CASE CreateUser(r)
  BY <1>5, ProvidedStep DEF CreateUser
<1>6. CASE InsertUserModule(r)
  BY <1>6, ProvidedInsertUserModule
<1>7. CASE ClearTwice(r)
  <2>1. CASE Stop(host[r])
    BY <1>7, <2>1, NamedActive, ProvidedStop DEF ClearTwice, Hosted
  <2>2. CASE Goto(r, "done")
    BY <1>7, <2>2, ProvidedStep DEF ClearTwice
  <2> QED
    BY <1>7, <2>1, <2>2 DEF ClearTwice
<1>8. CASE CreateSchema(r) \/ AlterTable(r) \/ InsertProcessing(r)
  BY <1>8, ProvidedStatement
<1>9. CASE UpdatePassword(r)
  BY <1>9, ProvidedUpdatePassword
<1>10. CASE CreateTable(r)
  BY <1>10, ProvidedCreateTable
<1>11. CASE Execute(r)
  BY <1>11, ProvidedStep DEF Execute
<1>12. CASE ScriptCrash(r)
  BY <1>12, NamedActive, ProvidedStop DEF ScriptCrash, Hosted
<1>13. CASE UpdateComplete(r)
  BY <1>13, ProvidedStep DEF UpdateComplete
<1> QED
  BY <1>1, <1>2, <1>3, <1>4, <1>5, <1>6, <1>7, <1>8, <1>9, <1>10, <1>11, <1>12, <1>13 DEF Step

\* So does every step of the system.
LEMMA ProvidedNext ==
    Alone /\ TypeOK /\ Hosted /\ OwnInv /\ ProvidedInv /\ [Next]_vars => ProvidedInv'
<1> SUFFICES ASSUME Alone, TypeOK, Hosted, OwnInv, ProvidedInv, [Next]_vars
             PROVE  ProvidedInv'
  OBVIOUS
<1>1. ASSUME NEW p \in Process, NEW r \in Run, NEW plugin \in PluginSpecs,
             NEW context \in BOOLEAN, Call(p, r, plugin, context)
      PROVE  ProvidedInv'
  <2>1. PICK step \in {"done", "load", "reconnect"} : Goto(r, step)
    BY <1>1 DEF Call
  <2>2. \A q \in Run : ~Active(q)
    BY <1>1, NamedActive DEF Call, CallerFree, Alone, Hosted
  <2>3. \A q \in Run :
           pc'[q] \notin {"clear_twice", "update_password", "alter_table"} \cup Registering
    <3>1. \A q \in Run :
             pc[q] \notin {"clear_twice", "update_password", "alter_table"} \cup Registering
      BY <2>2 DEF Active, WorkerStep, Registering
    <3> QED
      BY <2>1, <3>1 DEF Goto, TypeOK, Registering
  <2> QED
    BY <2>3 DEF ProvidedInv, ClearedAfterLoss, RoleThere, AccountKnown, TableThere
<1>2. ASSUME NEW p \in Process, Die(p) PROVE ProvidedInv'
  BY <1>2, ProvidedStop DEF Die
<1>3. CASE UNCHANGED vars
  BY <1>3 DEF vars, service, call, account, database, ProvidedInv, ClearedAfterLoss,
              RoleThere, AccountKnown, TableThere, RoleExists
<1> QED
  BY <1>1, <1>2, <1>3, ProvidedRunStep DEF Next, Finished

\* An account whose role exists, but not its row or its schema, is half made
\* while nobody else is active and the run itself has ended.
LEMMA EndsHalfMade ==
    ASSUME Alone, TypeOK, Hosted, OwnInv, NEW r \in Run, Active(r), Goto(r, "done"),
           UNCHANGED <<module_name, pg_roles, schemata, user_module>>,
           RoleExists(module_name[r]),
           Accounts(module_name[r]) = {} \/ module_name[r] \notin schemata
    PROVE  HalfMade(module_name[r])'
<1>1. \A q \in Run : pc'[q] \notin {"create_user", "insert_user", "create_schema"}
  <2> TAKE q \in Run
  <2>1. CASE q = r
    BY <2>1 DEF Goto, TypeOK
  <2>2. CASE q # r
    BY <2>2, NobodyElseActive DEF Goto, TypeOK, Active, WorkerStep
  <2> QED
    BY <2>1, <2>2
<1>2. RoleExists(module_name[r])'
  BY DEF RoleExists
<1>3. ((\A u \in user_module : u.user_name # module_name[r]) \/ module_name[r] \notin schemata)'
  BY DEF Accounts
<1> QED
  BY <1>1, <1>2, <1>3 DEF HalfMade

\* The final status is in the run's row once the server has carried the UPDATE out.
LEMMA UpdateIsRecorded ==
    ASSUME TypeOK, LedgerInv, NEW r \in Run, pc[r] = "complete",
           NEW final \in {"SUCCESS", "FAILURE"},
           processing_module' =
              (processing_module \ TaskRow(r)) \cup {WithStatus(m, final) : m \in TaskRow(r)}
    PROVE  IsRecorded(r)'
<1>1. PICK m \in processing_module : m.id = r
  BY DEF LedgerInv, RowWhenRun
<1>2. WithStatus(m, final) \in processing_module'
  BY <1>1 DEF TaskRow
<1>3. WithStatus(m, final).id = r /\ WithStatus(m, final).status = final
  <2>1. m \in ProcessingModule /\ final \in {"STARTING", "SUCCESS", "FAILURE"}
    BY DEF TypeOK
  <2> QED
    BY <1>1, <2>1, WithStatusFacts
<1> QED
  BY <1>2, <1>3 DEF IsRecorded

\* No early return of module_call without a reason.
LEMMA DroppingStep ==
    ASSUME Alone, TypeOK, Hosted, TaskListInv, OwnInv, LedgerInv, CredentialsInv, ProvidedInv,
           NEW r \in Run, Step(r), pc[r] \in WorkerStep, pc'[r] = "done"
    PROVE  IsRecorded(r)' \/ LinkLost(host[r])' \/ HalfMade(module_name[r])'
<1>1. /\ Active(r) /\ host[r] \in Process /\ host[r] # "" /\ "reject" \notin Faults
      /\ pc[r] \in Named => conn[host[r]] # "null"
  BY NamedActive, ControllerAssumption
     DEF Active, Hosted, ControllerAssumption, Alone, OwnInv, Connected
<1>2. ASSUME NEW legal, NEW applied \in BOOLEAN, NEW result, UNCHANGED host, pc[r] \in Named,
             Statement(host[r], legal, applied, result), legal, result # "ok"
      PROVE  LinkLost(host[r])'
  BY <1>1, <1>2, NotRefused DEF LinkLost
<1>3. pc[r] \in Entitled => RoleExists(module_name[r])
  BY DEF CredentialsInv, StaysOpen, Opens, RoleExists
<1>4. \A step : Goto(r, step) => step = "done"
  BY DEF Goto, TypeOK
<1>5. CASE FormatName(r)
  BY <1>5, <1>4 DEF FormatName
<1>6. CASE ReadName(r)
  <2>1. conn[host[r]] # "ok" /\ UNCHANGED <<host, conn>>
    BY <1>4, <1>6 DEF ReadName, call
  <2> QED
    BY <1>1, <2>1 DEF LinkLost
<1>7. CASE IsUserExists(r)
  BY <1>4, <1>7 DEF IsUserExists
<1>8. CASE CreateUser(r)
  BY <1>4, <1>8 DEF CreateUser
<1>9. CASE InsertUserModule(r)
  <2>1. PICK applied \in BOOLEAN, result \in Results :
           /\ Statement(host[r], TRUE, applied, result)
           /\ result # "ok" \/ Goto(r, "create_schema")
    BY <1>9, Zenon DEF InsertUserModule
  <2>2. pc[r] \in Named /\ UNCHANGED host
    BY <1>9 DEF InsertUserModule, Named, call
  <2> QED
    BY <1>2, <1>4, <2>1, <2>2
<1>10. CASE ClearTwice(r)
  <2>1. UNCHANGED <<host, conn>>
    <3>1. ~Stop(host[r])
      BY <1>1 DEF Stop
    <3> QED
      BY <1>10, <3>1 DEF ClearTwice, service, call
  <2>2. conn[host[r]] = "bad"
    BY <1>10 DEF ClearTwice, ProvidedInv, ClearedAfterLoss
  <2> QED
    BY <1>1, <2>1, <2>2 DEF LinkLost
<1>11. CASE CreateSchema(r)
  <2>1. PICK applied \in BOOLEAN, result \in Results :
           /\ Statement(host[r], RoleExists(module_name[r]), applied, result)
           /\ Goto(r, Continue(result, "create_table"))
    BY <1>11, Zenon DEF CreateSchema
  <2>2. pc[r] \in Named \cap Entitled /\ UNCHANGED host
    BY <1>11 DEF CreateSchema, Named, Entitled, service, call
  <2>3. result # "ok"
    BY <1>4, <2>1 DEF Continue
  <2> QED
    BY <1>2, <1>3, <2>1, <2>2, <2>3
<1>12. CASE UpdatePassword(r)
  <2>1. PICK applied \in BOOLEAN, result \in Results :
           /\ Statement(host[r], TRUE, applied, result)
           /\ \/ Goto(r, "create_table")
              \/ /\ result # "ok" \/ Accounts(module_name[r]) = {}
                 /\ Goto(r, "done")
    BY <1>12, Zenon DEF UpdatePassword
  <2>2. /\ pc[r] \in Named /\ UNCHANGED host
        /\ UNCHANGED <<module_name, pg_roles, schemata, user_module>>
    BY <1>12 DEF UpdatePassword, Named, call, database
  <2>3. CASE result # "ok"
    BY <1>2, <2>1, <2>2, <2>3
  <2>4. CASE Accounts(module_name[r]) = {} /\ Goto(r, "done")
    <3>1. RoleExists(module_name[r])
      BY <1>12 DEF UpdatePassword, ProvidedInv, RoleThere
    <3> QED
      BY <1>1, <2>2, <2>4, <3>1, EndsHalfMade
  <2> QED
    BY <1>4, <2>1, <2>3, <2>4
<1>13. CASE CreateTable(r)
  <2>1. PICK uuid \in GeneratedUuid(r), applied \in BOOLEAN, result \in Results :
           /\ Statement(host[r], uuid # "" /\ module_name[r] \in schemata, applied, result)
           /\ Goto(r, Continue(result, "alter_table"))
    BY <1>13, Zenon DEF CreateTable
  <2>2. /\ pc[r] \in Named \cap Entitled /\ UNCHANGED host
        /\ UNCHANGED <<module_name, pg_roles, schemata, user_module>>
    BY <1>13 DEF CreateTable, Named, Entitled, call
  <2>3. uuid # "" /\ result # "ok" /\ Goto(r, "done")
    BY <1>4, <2>1, ControllerAssumption
       DEF Continue, GeneratedUuid, When, Alone, ControllerAssumption
  <2>4. CASE module_name[r] \in schemata
    BY <1>2, <2>1, <2>2, <2>3, <2>4
  <2>5. CASE module_name[r] \notin schemata
    BY <1>1, <1>3, <2>2, <2>3, <2>5, EndsHalfMade
  <2> QED
    BY <2>4, <2>5
<1>14. CASE AlterTable(r)
  <2> DEFINE old == {t \in tables : t.name = output_table[r] /\ t.schema = module_name[r]}
  <2>1. PICK applied \in BOOLEAN, result \in Results :
           /\ Statement(host[r], RoleExists(module_name[r]) /\ old # {}, applied, result)
           /\ Goto(r, Continue(result, "insert_processing"))
    BY <1>14, Zenon DEF AlterTable
  <2>2. pc[r] = "alter_table" /\ pc[r] \in Named \cap Entitled /\ UNCHANGED host
    BY <1>14 DEF AlterTable, Named, Entitled, call
  <2>3. result # "ok"
    BY <1>4, <2>1 DEF Continue
  <2>4. old # {}
    BY <2>2 DEF TaskListInv, TableOwned, ProvidedInv, TableThere
  <2> QED
    BY <1>2, <1>3, <2>1, <2>2, <2>3, <2>4
<1>15. CASE InsertProcessing(r)
  <2> DEFINE legal == \E u \in user_module : u.id = module_id[r]
  <2>1. PICK applied \in BOOLEAN, result \in Results :
           /\ Statement(host[r], legal, applied, result)
           /\ Goto(r, Continue(result, "execute"))
    BY <1>15, Zenon DEF InsertProcessing
  <2>2. /\ pc[r] \in Named /\ pc[r] \in Registering /\ UNCHANGED host
    BY <1>15 DEF InsertProcessing, Named, Registering, call
  <2>3. result # "ok"
    BY <1>4, <2>1 DEF Continue
  <2>4. CASE module_id[r] # ""
    <3>1. legal
      BY <2>2, <2>4 DEF TaskListInv, AccountFound
    <3> QED
      BY <1>2, <2>1, <2>2, <2>3, <3>1
  <2>5. CASE module_id[r] = ""
    <3>1. conn[host[r]] = "bad"
      BY <2>2, <2>5 DEF ProvidedInv, AccountKnown
    <3>2. conn'[host[r]] = "bad"
      BY <1>1, <2>1, <3>1, StatementConn
    <3> QED
      BY <1>1, <2>2, <3>2 DEF LinkLost
  <2> QED
    BY <2>4, <2>5
<1>16. CASE Execute(r)
  BY <1>4, <1>16 DEF Execute
<1>17. CASE ScriptCrash(r)
  BY <1>1, <1>17 DEF ScriptCrash, Stop
<1>18. CASE UpdateComplete(r)
  <2> DEFINE final == IF r \in ret THEN "SUCCESS" ELSE "FAILURE"
  <2>1. PICK applied \in BOOLEAN, result \in Results :
           /\ Statement(host[r], TRUE, applied, result)
           /\ processing_module' =
                 IF applied
                 THEN (processing_module \ TaskRow(r))
                         \cup {WithStatus(m, final) : m \in TaskRow(r)}
                 ELSE processing_module
    BY <1>18, Zenon DEF UpdateComplete
  <2>2. pc[r] = "complete" /\ pc[r] \in Named /\ UNCHANGED host
    BY <1>18 DEF UpdateComplete, Named, call
  <2>3. CASE result # "ok"
    BY <1>2, <2>1, <2>2, <2>3
  <2>4. CASE result = "ok"
    <3>1. applied
      BY <1>1, <2>1, <2>2, <2>4, NotRefused
    <3>2. final \in {"SUCCESS", "FAILURE"}
      OBVIOUS
    <3> HIDE DEF final
    <3> QED
      BY <2>1, <2>2, <3>1, <3>2, UpdateIsRecorded
  <2> QED
    BY <2>3, <2>4
<1> QED
  BY <1>5, <1>6, <1>7, <1>8, <1>9, <1>10, <1>11, <1>12, <1>13, <1>14, <1>15, <1>16, <1>17,
     <1>18 DEF Step, Reconnect, WorkerStep

\* The only process drops no call silently: whatever early return a call ends
\* with, its task has been recorded with a final status, or its link is lost,
\* or its account was left half made.
THEOREM NoCallDropped == Alone /\ Spec => NoCallIsDropped
<1> SUFFICES ASSUME Alone PROVE Spec => NoCallIsDropped
  OBVIOUS
<1> DEFINE Inv == /\ TypeOK /\ Hosted /\ TaskListInv /\ OwnInv /\ LedgerInv
                  /\ CredentialsInv /\ ProvidedInv
<1>1. Init => Inv
  BY TypeInit, TaskListInit, OwnInit, LedgerInit, CredentialsInit, ProvidedInit
     DEF Init, Hosted
<1>2. Inv /\ [Next]_vars => Inv'
  <2> SUFFICES ASSUME Inv, [Next]_vars PROVE Inv'
    OBVIOUS
  <2>1. TypeOK' /\ Hosted' /\ TaskListInv' /\ OwnInv'
    BY TypeNext, TaskListNext, OwnNext DEF Alone
  <2>2. LedgerInv'
    BY LedgerNext
  <2>3. CredentialsInv' /\ ProvidedInv'
    BY CredentialsNext, ProvidedNext
  <2> QED
    BY <2>1, <2>2, <2>3
<1>3. ASSUME Inv, Next, NEW r \in Run, pc[r] \in WorkerStep, pc'[r] = "done"
      PROVE  IsRecorded(r)' \/ LinkLost(host[r])' \/ HalfMade(module_name[r])'
  <2>1. ASSUME NEW p \in Process, NEW q \in Run, NEW plugin \in PluginSpecs,
               NEW context \in BOOLEAN, Call(p, q, plugin, context)
        PROVE  FALSE
    BY <1>3, <2>1 DEF Call, Goto, TypeOK, WorkerStep
  <2>2. ASSUME NEW p, Stop(p)
        PROVE  FALSE
    BY <1>3, <2>2 DEF Stop, WorkerStep
  <2>3. ASSUME NEW q \in Run, Step(q)
        PROVE  q = r
    BY <1>3, <2>2, <2>3, StepMoves DEF WorkerStep
  <2>4. CASE UNCHANGED vars
    BY <1>3, <2>4 DEF vars, WorkerStep
  <2> QED
    BY <1>3, <2>1, <2>2, <2>3, <2>4, DroppingStep DEF Next, Die, Finished
<1>4. Inv /\ [Next]_vars =>
         [\A r \in Run : pc[r] \in WorkerStep /\ pc'[r] = "done" =>
             IsRecorded(r)' \/ LinkLost(host[r])' \/ HalfMade(module_name[r])']_vars
  BY <1>3
<1> HIDE DEF Inv
<1> QED
  BY <1>1, <1>2, <1>4, PTL DEF Spec, NoCallIsDropped
=================================================================================
