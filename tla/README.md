# A TLA+ model of the algorithm-module runner

This directory holds TLA+ modules that model the repository's program, TLC
configurations that model-check them, and theorems about them that TLAPS proves.
Paths below are relative to the repository's root.

## 1. The system

A *module* is an algorithm packaged as a dynamic library, a Python script or an
executable. `PluginManager` knows modules by name; `ModuleController` runs one and
records the run as a *task* in a PostgreSQL database, where each module has a role,
a schema and an account row of its own, and each run an output table.

| Component | State | Operations |
|---|---|---|
| `PluginSpec`, `PluginSpecController` (`src/plugin_api/plugin_spec.*`) | the description of a module; a list of them | `is_valid`, XML reading and writing |
| `ModuleContext` (`src/plugin_api/plugin_api.*`) | a map of properties, a parent | `property`, `set_property`, `copy_to`, `entries`, XML |
| `PluginManager` (`src/plugin_manager`) | `std::map` name to spec | `register_module`, `register_dynamic`, `register_script`, `load`, `execute`, `contains`, `spec`, `list_spec` |
| `ModuleController` (`src/plugin_modules/plugin_controller.cpp`) | one shared `BaseConnection` | `execute` (starts a thread running `module_call`), `load` |
| `BaseConnection` (`plugin_controller_service.cpp`) | a libpq connection under a recursive mutex; the parameters to log in with | `execute`, `reconnect`, `is_connected`, `copy_context`, `load_context`, `refresh` |
| `ControllerService` (same file) | names, password, ids of one run | `is_user_exists`, `create_user`, `update_password`, `register_module_processing`, `update_complete` |
| system database (`scripts/system_schema.sql`) | `user_module`, `processing_module`, roles, schemas, tables | SQL statements |
| `PythonScriptModule`, `PythonFileScriptModule` (`src/plugin_python`) | the process's one Python runtime, its lock and current thread state | constructor, `execute`, destructor |
| `DynamicLibraryModule`, `SystemProcessModule` (`src/plugin_api`) | a library handle; nothing | `execute`; `SystemProcessModule::parse_environment` |
| sample modules, `plugin_app`, `plugin_model`, `lib/sqlite` | none worth modelling | - |

How they interact. `PluginManager::execute` calls `ModuleController::execute` with a
spec and a context. That copies contexts into a new one, makes sure of the connection,
and starts a `std::thread`; with `ENABLE_WAIT_THREAD_COMPLETE` (which `CMakeLists.txt`
defines) it joins the thread, otherwise it detaches it. The thread drives a
`ControllerService`, statement by statement, over the connection all threads of the
process share; the module is executed between the last INSERT and the final UPDATE.
Several processes meet in the database and nowhere else.

What is hard about it:

* no statement is in a transaction with another, so a crash, a broken link or a second
  process may come between any two;
* `create_user` keeps one `ret` over three statements, so a failure of one may be
  hidden by the success of another;
* an error of `is_user_exists` is read as "there is no such user";
* a link that breaks during a statement leaves open whether it was carried out;
* in the detached build threads share a `static char buffer[20]` and a connection that
  the caller may reopen at any time;
* `load` writes the connection's parameters without the mutex under which they are read,
  and new parameters do not reopen a connection that is still good;
* every Python module initialises and finalises the one runtime of the process, and takes
  and gives up its lock seven times in between;
* a run's context is copied from three others that their owners go on writing, and holds a
  password;
* `parse_environment` grows a raw buffer by hand.

What makes each part correct: the controller - the list of tasks can be joined without
gaps, a task is recorded under its own module, with credentials that work and the
status it earned; the manager - a name stands for the latest valid spec since the last
load; the connection - it is logged in with one configuration, and is neither lost nor
closed twice; the Python runtime - each module finds it as its constructor needs it and
leaves it so; the contexts - a module sees its own account and nobody else does; the
environment block - no byte is written outside it, and the child finds its
variables.

## 2. Modules

| Module | What it is |
|---|---|
| `PluginSpec` | the spec record and `is_valid` |
| `ModuleController` | `ModuleController`, `ControllerService` and the database they use |
| `TaskLedger` | what a caller may rely on about tasks; `ModuleController` implements it |
| `BaseConnection` | the shared connection, its mutex, its parameters and its destructor |
| `ModuleContext` | contexts, and the layers of the context a module is started with |
| `PluginManager` | the map of specs, `load`, and the two sets of parameters of the connection |
| `PluginCatalog` | what `PluginManager` answers for a name; `PluginManager` implements it |
| `PythonScriptModule` | the Python runtime through a module's life |
| `ModuleExecution` | what `module_call` takes a script module to be; `PythonScriptModule` implements it |
| `SpecFile` | `PluginSpecController` and the XML form of specs and contexts |
| `EnvironmentBlock` | `SystemProcessModule::parse_environment` |
| `MC...` | values of the constants for TLC |
| `...Proofs` | theorems about the module of that name, and their proofs |
| `ProofLemmas` | the facts about places, sets and recursive functions that several of the proofs need |

How they fit together. `ModuleController` says what each statement of a run does in the
database and abstracts from three things, each of which has a module of its own: the
parameters a connection is opened with (`BaseConnection`), the properties a module is told
(`ModuleContext`), and what a script does to the process (`PythonScriptModule`). The last
is tied to it by `ModuleExecution`, which says of a module what the steps `Execute` and
`ScriptCrash` say of a run. `PluginManager` takes a call as one step.

### ModuleController

A *run* is one call of `ModuleController::execute`. Its `pc` says which statement comes
next; the members of its `ControllerService` are functions of the run. A row, an id or a
UUID made by a run is represented by the run itself: a run inserts each row at most
once. Names of roles and schemas are one value, the module's name and the text
`sprintf("%02.2f")` makes of its version; versions are counted in thousandths, so that
1.020 and 1.021 print alike.

| Code | Action |
|---|---|
| `ModuleController::execute` up to `is_connected` | `Call` |
| `reconnect` on the caller's thread | `Reconnect` |
| `__module_name` writing and reading its static buffer, `operator bool` | `FormatName`, `ReadName` |
| `is_user_exists` | `IsUserExists` |
| `create_user`: CREATE USER, INSERT, CREATE SCHEMA, second `PQclear` | `CreateUser`, `InsertUserModule`, `CreateSchema`, `ClearTwice` |
| `update_password` | `UpdatePassword` |
| `register_module_processing`: CREATE TABLE, ALTER TABLE, INSERT | `CreateTable`, `AlterTable`, `InsertProcessing` |
| `Module::execute`; a script that does not compile or raises at its top level | `Execute`; `ScriptCrash` |
| `update_complete` | `UpdateComplete` |
| the process dies, or main returns before a detached thread | `Die` |

`Statement` is `BaseConnection::execute`: what it can return and whether the server
carried the statement out. The connection is `null`, `ok` or `bad`; only `null` is
reopened by a statement, whose new link may break in its turn, `bad` waits for the next
call. `Faults` chooses which failures
occur. `Answer`, `RoleExists`, `Stop` and `Die` stand for PostgreSQL and the operating
system and are modelled from how the code uses them.

Abstracted: the SQL text, columns nobody reads, the input stream and the stage, which are
written once and never read back. The check of a role's ownership of a schema that exists
already is not modelled.

### BaseConnection

`setting`, chosen once, is the build (`joined`) and the failures that occur. The members
are `context` (`_context`), `member` (`_hostname`, `_database`; two parameters are enough
to tell a mixture), `state` (`_c`) and `owner` (`_mutex`); `session` is what `_c` was
opened with, and `open` counts what `PQsetdbLogin` gave and `PQfinish` did not take.

| Code | Action |
|---|---|
| `load_context`: `fromXml`, then `refresh` member by member | `Load`, `RefreshHostname`, `RefreshDatabase` |
| `is_connected` and what `execute` does with it | `Call`, `Serve` |
| `reconnect`: `PQfinish`; the parameters are read; `PQsetdbLogin` | `Finish`, `ReadHostname`, `Login` |
| `BaseConnection::execute` | `Statement`, on to `Finish` when `_c` is null |
| `module_call` returns; the manager is destroyed; `~BaseConnection` in the last of them | `End`, `Leave`, `Released` |

`refresh` takes no mutex, so a read of a `std::string` it is just assigning gives the old
value, the new one or neither (`ReadOf`).

### ModuleContext

`properties` holds the `_properties` of every context: those of the caller, which are the
ones it passes and the ones in its specs, the connection's, and one for each run.

| Code | Action |
|---|---|
| constructors; `set_property`; `fromXml` | `Construct`; `SetProperty`; `Read` |
| `ModuleController::execute`: `copy_context`, the caller's `copy_to`, the spec's | `Execute`, by `Layered` |
| `module_call`: user name, password and schema; then the output table | `TellAccount`; `Start` |
| the module, which has the context itself | `ModuleSets` |

`seen` is what `entries` gives for the dictionary of a script and the environment of a
program. The model's threads are detached: whatever joined threads do, they may do too.
At first the connection's context is empty, or holds what the context given to
`PluginManager(context)` holds (`Arguments`). Contexts have no parents here: the constructor
that takes one is called nowhere, and `copy_to` and `entries` do not ask it.

### PythonScriptModule

One module is one `PythonScriptModule` object, made, executed and destroyed by one
`module_call`. The runtime is that of Python 2.7, as the code uses it: whether it is
initialised, the global lock (absent until `PyEval_InitThreads`, and not unmade by
`Py_Finalize`), `_PyThreadState_Current`, which belongs to the process, and the thread states
that exist. Each C API call is a step; one whose condition is not met is `Fatal`. While
a script runs the evaluation loop may let others have the lock (`Yield`, `Resume`).

| Code | Action |
|---|---|
| constructor | `Construct`, `Initialize`, `MakeMain`, `InitThreads` |
| `execute`, in its order | `SaveThread`, `AcquireLock`, `NewInterpreter`, `ReleaseThread`, `AcquireThread`, `Return` or `Crash`, `ReleaseThread`, `AcquireThread`, `EndInterpreter`, `ReleaseLock`, `RestoreThread` |
| `PythonFileScriptModule::execute` without a file | `ExecuteUnopened` |
| destructor | `Destroy` |

### PluginManager

`modules` is the `std::map`, a function whose domain grows. One action each for
`register_*` (`Register` of `LibrarySpec`, `ScriptSpec` or a given spec), `load`, `execute`
of a name that is not found (it inserts an empty spec), and `execute` of a module.
Reading a file gives a sequence of specs; registering them in order leaves the last valid
spec of each name (`Registered`). Invalid specs are refused and change nothing, so no
action stands for them. `settings` and `session` are the parameters of the connection
and those it is logged in with; the constructor copies the parameters from a context it may be
given (`Init`). A null context is refused, which changes nothing.

### SpecFile

`list` is the controller's list, `file` the PluginSpec elements of its file: the texts of
the child elements an element has, its numbers and its properties. `Add`, `Write` and
`Read` are the controller's operations, `Edit` is somebody else writing the file. A child
without text has the text `""`, and a read of one is `Crash`. `toXml` builds elements for
the stage and the input stream but inserts them nowhere, so every spec is read back with
the stage UnknownInput: `Survives` says what is left. tinyxml2 is external.

### EnvironmentBlock

One string of `environment` is written per step. A byte is `Nul` or a string and a place
in it, and `block` holds every byte the call has touched from `result_environment` on, so
that a write beyond the allocation shows. Names are what stands before the first `=`. The
`int` and `size_t` of the code are unbounded here: an environment of 2 GB is out of scope.

## 3. Runs

| Run | What it shows |
|---|---|
| `single` | One process that joins its threads, two runs, library modules in versions 1.020, 1.021 and 2.100 and an invalid spec; broken links and crashes. A task is its own module's (`TaskIsItsOwnModule`), its credentials open the database (`CredentialsOpenDatabase`), its verdict is recorded truly (`VerdictRecorded`), an account left half made stays so (`HalfMadeStays`), no early return drops another call that keeps its link (`NoCallIsDropped`), and each such call does end with a recorded task (`EveryCallIsRecorded`). |
| `processes` | Detached threads, in one process or in two; a library and a script, texts torn in the static buffer, every fault. The list of tasks stays sound (`TaskListSound`) and tasks obey the ledger (`LedgerSpec`). |
| `connection` | Two runs, joined or detached, beside loads of two configurations, with links that break and logins that give nothing: `WholeSession`, `NothingLeaks`, `OneDatabasePerRun`. |
| `contexts` | Two contexts of the caller, one the manager may have been given, two files, two runs at once, while the caller and the modules go on writing: no account leaves its run (`AccountsStayPrivate`), a module is started with its own (`OwnAccountSeen`), the connection's properties are of one file (`OneFile`), and what is written between `execute` and the start of a module does not reach it (`UntouchedUntilStart`). |
| `script` | Three script modules of any kind, joined: `ReadyForNext`, `ExecutionSpec`, `EveryModuleEnds`. |
| `manager` | Two files, one without properties, one unreadable; libraries, complete or not, scripts, unknown names: `EntryIsOwnOrEmpty`, `CatalogSpec`. |
| `spec_file` | Complete specs and files, and one file that cannot be read: `Survives`, `WrittenCanBeRead`. |
| `environment_block` | Names and values so long that a string just fits, just does not, and needs more than a chunk: `InBounds`, `ChildSees`. |
| `credentials_race` | Violated: two processes run one new module for the first time. |
| `reload` | Violated: a module is told of a database in which its output table is not. |
| `reread` | Violated: a spec without Description is read, written, and cannot be read again. |
| `scripts_detached` | Violated: of two good scripts on two detached threads the second uses the runtime while the first still initialises it. |

`TypeOK` is checked in `single`, `connection`, `script`, `manager` and
`environment_block`, and proved of each of these modules and of `ModuleContext`.

**Bounds.** `Run` bounds the calls. Every property of `ModuleController` relates at most
two calls: one that left something behind, or is interleaved, and one that meets it; two
runs are enough for each. Statements, rows and tables are bounded by the runs. `single`
has no symmetry, since it checks liveness. The theorems of section 5 cover any number of
runs, processes, modules and versions.

The detached build can do all the joined one can, so `processes` needs no run of its own
for the joined build; where the build matters (`connection`) both are initial states. Three
modules in `script` let the second find the runtime as a first left it and leave it for a
third. The two contexts of `contexts` are a caller's and a spec's, or two callers' where
runs overlap. In `PluginManager` only the task recorded last is kept, which is
enough for a property of each task when it is recorded. In `EnvironmentBlock`, `Chunk` is 4
and sizes go from 1 to 10, on both sides of each comparison. `SpecFile`'s lists have up to
three specs; what happens to one does not depend on another, except that one unreadable
element ends the read of all.

**Symmetry.** Runs, processes and contexts are interchangeable in the runs without liveness:
no definition tells them apart.

**Fairness.** In `ModuleController`, `FairSpec` assumes that a thread that was started goes
on and that a module that was started returns: `std::thread`, and `WaitForSingleObject` with
INFINITE, promise the first; the second is the modules' own affair, and a call cannot be
recorded as complete before. Nobody owes a call, so `Call` and `Die` have no fairness. In
`PythonScriptModule` the same: a thread that can go on does (weak fairness of `Step`), and
a script that runs again and again, in spite of the lock it gives up now and then, returns
some time or ends the process (strong fairness of `Return` or `Crash`).

**Deadlock** is checked except in `environment_block`, a function that returns; in
`spec_file`, where a read may end the process; and in `script`, which stops when all
modules are gone or one has ended the process. That no module waits for ever there is
`EveryModuleEnds`. `Finished` and `Stopped` let the bounded models of the controller and
the connection stop when all runs have ended, and only then.

**What the passing runs do not say.**

* `CredentialsOpenDatabase` is about one process whose server refuses no statement it could
  carry out. It fails with two processes (`credentials_race`) and with refused statements,
  since a refused SELECT is read as "no such role".
* `TaskIsItsOwnModule` holds in the joined build only: detached threads of two versions
  may tear each other's names in the static buffer.
* `VerdictRecorded` is about libraries. `start_plugin` ignores what a script's `main`
  returns, and `SystemProcessModule::execute` the exit code: of these SUCCESS says that
  they could be called, and no document promises more.
* `EveryCallIsRecorded` and `NoCallIsDropped` are about one process. With two, a call that finds another process's
  role before its account row is dropped with a message.
* `HalfMadeStays` is a warning rather than a promise: such an account, without its row or
  without its schema, needs an administrator.
* `WholeSession` says nothing of the detached build in which a login gave a null pointer:
  then a run reconnects, beside the caller's `refresh`, and may read a torn parameter. Nor
  does `OneDatabasePerRun` speak of detached runs: a call after a load reconnects in the
  middle of an earlier run.
* `UntouchedUntilStart` ends where the module starts: from then on a library writes the
  context itself. Nor does it speak of the layers while `execute` copies them, which is one
  step: the caller's thread, which copies, is the one that writes them.
* `ScriptsReturn` is refuted by its shortest counterexample, the race of two constructors.
  That a `Py_Finalize` takes the runtime from under another thread's module violates it
  just as well, but no run shows it.

## 4. Findings

1. *Two processes, one new module* (`credentials_race`). `create_user` does not stop when
   CREATE USER fails, inserts a second account, and hands its module a password the role
   does not have.
2. *Reload* (`reload`). After `load`, tasks go to the old database and modules to the new.
3. *Reading back* (`reread`). An element that is written without text cannot be read.
4. *Scripts on detached threads* (`scripts_detached`). The constructor tests
   `Py_IsInitialized` and initialises without excluding other threads: while `Py_Initialize`
   of one module has set its flag and not yet made a thread state, a second module skips the
   initialisation, and its `Py_BEGIN_ALLOW_THREADS` finds no thread state, a fatal error. In
   the joined build `NoFatalError` holds.

## 5. Proofs

All theorems hold for every value of the constants that satisfies the modules' ASSUMEs
and the assumptions a theorem names. Each invariance proof has a lemma for the initial
states, one per action or group of actions that touch what the invariant is about, and one
that puts them together.

**The controller** (`ModuleControllerProofs`).

* `TypeCorrect`: `Spec => []TypeOK`. It needs a second invariant, `Hosted`: a run that was
  called has a process.
* `TaskListCorrect`: `Spec => []TaskListSound`, any number of processes and runs, either
  build, all faults. `TaskListSound` alone is not inductive: to know that the row a run is
  about to insert can be joined, one must know what the run did before. `TaskListInv` adds
  that a run has no account before its account steps (`NoAccountYet`), that an account's
  row bears the name of the run that inserted it, which does not change again
  (`AccountNamed`), that the account a run goes on with has the run's name
  (`AccountFound`), that its table exists and is its role's (`TableOwned`), and that a
  recorded task is past all of that (`TaskNamed`). The least obvious case: a run whose
  INSERT failed after its CREATE USER succeeded goes on with an empty `module_id`; the
  foreign key then refuses its task.
* `LedgerImplemented`: `Spec => LedgerSpec`, that is, every step is a step of `TaskLedger`
  or a stutter. `LedgerInv` relates the rows to the runs: a run has one row at most
  (`OneRow`), which is there while its module runs and after (`RowRecorded`,
  `RowWhenRun`), a verdict is given once (`RunOnce`, `Waiting`), and `update_complete` has
  one to report (`VerdictWhenComplete`).
* `LibraryVerdict`: if every valid spec is a library's, `VerdictRecorded`; for `ret` is the
  verdict when `update_complete` reads it (`RetIsVerdict`).
* `OwnModule`: with `WaitThreadComplete`, `TaskIsItsOwnModule`. Two runs of a process are
  never under way at once (`OneActive`), so the buffer holds what the run formatted
  (`BufferOwn`), its name is its own (`NameOwn`), and so are the rows and tasks it
  inserts (`RowsOwn`, `TasksOwn`). Other processes are not excluded: they have a buffer of
  their own.
* `CredentialsOpen`: for `Alone`, one process at most, joined threads, no refused
  statements and no failing UUIDs, `CredentialsOpenDatabase`. An account's row is inserted
  only over the link over which its role was made (`RoleMade`), by a run that saw no role
  of the name (`RoleIsNew`), hence every row's password opens its role (`RowsOpen`) and
  stays so (`StaysOpen`). Each part of `Alone` is needed: two processes, two threads of
  one, or a refused SELECT let a second account be inserted over the first one's role, and
  where `UuidCreate` fails a module is handed an empty password.
* `HalfMadeForEver`: with joined threads and no refused statements, `HalfMadeStays`, for
  any number of processes: every later call finds the role, and none enters `create_user`.
* `NoCallDropped`: for `Alone`, `NoCallIsDropped`, which is the safety half of
  `EveryCallIsRecorded`: whichever early return `module_call` takes, the call was recorded
  or there is a reason. It needs most of the invariants above and `ProvidedInv`, which says
  that what the next statement depends on is there: its account, its table, its role, so
  that a server that refuses nothing can only fail it with the link.

**The manager** (`PluginManagerProofs`). `TypeCorrect`; `EntriesCorrect`: the map is in
order; `CatalogImplemented`: `PluginManager` refines `PluginCatalog`. What `execute`
inserts for an unknown name is an empty spec, which is not valid, hence a stutter. A load
needs the last place of a name in a file to exist. `ReachableUnlessReloaded` is what is
left of `OutputTableReachable` after the finding `reload`: it holds of every behaviour in
which no load changes the parameters while a connection is open, and no other layer of the
context names a database. Such a load is therefore the only way to the fault. The
assumption on loads is about the environment, not the code, and part of the theorem.

**The spec file** (`SpecFileProofs`). `SpecsSurvive`: `Survives`, for any set of specs and
any files somebody writes; it needs no more of the list than that it is a sequence of
specs with a type. A valid spec stays valid. The converse fails in one case, which the
property names: a spec that is invalid because its stage needs an input stream and it has
none comes back without the stage, and valid. `OwnFileRead`: `WrittenCanBeRead`, if every spec that is added and every
file written by hand has a text for its name, path and description (`WholeSpecs`,
`WholeFiles`; the run `reread` shows what happens without). Its invariant `WholeInv` says
so of the list and of whatever file is there.

**The environment block** (`EnvironmentBlockProofs`). `BlockInBounds`: nothing is written
outside the allocation. `InBounds` is kept by `length < allocated`, which the test before
each string keeps. `EnvironmentComplete`: `ChildSees`. While the loop runs, each string
written so far can be given a place in the block (`CanBeFound`) such that its bytes and its
'\0' are there, and every place but the end is followed by such a string (`Laid`); writing
one more lengthens the layout (`LaidLonger`), and the '\0' of the end closes it. The child
reads the block recursively: `Walk` shows that from the first byte it meets the strings of
a layout, all of them and no others. The assumption `BlockAssumption` says that a '\0' is
not part of any string, as environment strings and `std::string::c_str` give them.

**Python** (`PythonScriptModuleProofs`), all with `WaitThreadComplete`. `NoFatalError`: no
call of the API is made out of order. `Reusable`: `TypeOK` and `ReadyForNext`.
`ExecutionImplemented`: `PythonScriptModule` refines `ModuleExecution`. The invariant says
of the one module that is alive in which `Situation` it is: for each value of its `pc` what
the lock, the current state and the set of states are; and that the runtime is `Quiet` when
none is alive.

**The connection** (`BaseConnectionProofs`). `NothingLeaksEver`: `TypeOK` and
`NothingLeaks`, either build and all faults; in particular `open` is never negative, so that
nothing is closed twice. `SessionIsWhole`: where none but the caller reconnects, `refresh`
is never under way during a login. `OneDatabase`: a joined run's session does not change.

**Contexts** (`ModuleContextProofs`). `AccountsPrivate` and `OwnAccount`, for any number of
overlapping runs, from one invariant: whoever runs was given a context of its own
(`GivenOwn`), and an account that was told stays there until the module is started
(`AccountTold`). `Untouched`: `UntouchedUntilStart`, for with that invariant a run's context
is written by nobody else (`Writer`). `OneFileRead`: `OneFile`, since no step but a read
writes the connection's context, and a read finds every name that has a text.

**Recursion** (`ProofLemmas`). The library's theorems about recursive definitions take the
definition as a parameter, which the provers cannot instantiate. That a recursive function
exists is shown by giving it instead: the places that can be reached from one are those in
every set closed under the step (`Reach`), and what a recursion collects on its way is what
those places have (`CollectingIs`). `LastExists` and its variants give the last place with a property, from
the well-foundedness of finite sets.

**Only model-checked**: `EveryCallIsRecorded` and `EveryModuleEnds`, as liveness under
fairness is out of the prover's reach. The four violated properties are refuted, not
proved; what holds of them under further assumptions is `CredentialsOpen`,
`ReachableUnlessReloaded`, `OwnFileRead` and `NoFatalError`.

## 6. Not modelled

* `PostgreSqlModule` and `SqliteModule`: sample modules without state, each of which opens a
  database and closes it. To the controller they are a module that passes or fails.
* `plugin_app`: one load and one call, a behaviour of `PluginManager` and of
  `ModuleController`; that its main may return before a detached thread is `Die`.
* `plugin_model`: an empty library.
* `lib/sqlite`: the vendored headers of SQLite, declarations without bodies, and a wrapper
  that no file includes. They are some 11 300 of the repository's 13 000 lines; nearly
  all of the rest that has a state is modelled.
* Reference counts of Python objects, and with them the reference to `os` that
  `start_plugin` gives back once too often after `PyModule_AddObject`; the text of the
  values that go through `printf`-like formats; `int_value` and `bool_value`, which
  change nothing; contexts with a parent, which no code here makes.
