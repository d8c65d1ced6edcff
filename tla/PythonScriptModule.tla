--------------------------- MODULE PythonScriptModule ---------------------------
(***************************************************************************)
(* The life of PythonScriptModule and PythonFileScriptModule               *)
(* (python_plugin_module.cpp) in a process that has one Python 2.7         *)
(* runtime: the constructor that initialises it, the sub-interpreter that  *)
(* execute makes under the global lock, the destructor that finalises it.  *)
(*                                                                         *)
(* Every call of the C API is a step of its own.  The runtime's state is   *)
(* global: whether it is initialised, the lock, and _PyThreadState_Current,*)
(* which belongs to the process and not to a thread.  A call whose         *)
(* condition is not met ends in Py_FatalError or is undefined; either way  *)
(* nothing can be said of the process any more, and it is "fatal" here.    *)
(*                                                                         *)
(* A module is made, executed at most once and destroyed by module_call,   *)
(* on the thread of its run.                                               *)
(***************************************************************************)

CONSTANTS
    Module,             \* the modules that are made (bounds the model)
    Scripts,            \* the kinds of script that occur, see ScriptKind
    WaitThreadComplete  \* ENABLE_WAIT_THREAD_COMPLETE: one module at a time

\* "good":       main can be called; what it returns is ignored;
\* "no_main":    compiles, but main is missing or no function;
\* "broken":     does not compile, or compiles and raises while its top level
\*               is executed, so that a null object is used;
\* "unreadable": the file cannot be opened.
ScriptKind == {"good", "no_main", "broken", "unreadable"}

ASSUME ScriptAssumption ==
    /\ Scripts \subseteq ScriptKind
    /\ WaitThreadComplete \in BOOLEAN

VARIABLES
    pc,             \* what each module does next
    script,         \* what each module was made from
    result,         \* what its execute returned
    saved,          \* the thread state Py_BEGIN_ALLOW_THREADS keeps
    initialized,    \* Py_IsInitialized()
    lock,           \* the global lock: not made yet, free, or held by some thread
    current,        \* the thread state that is current in the process
    live,           \* the thread states that exist
    process         \* "up", or what ended it

runtime == <<initialized, lock, current, live>>
vars == <<pc, script, result, saved, runtime, process>>

\* The state a Py_Initialize makes, and that of a sub-interpreter.
Main(m) == <<"main", m>>
Sub(m) == <<"sub", m>>
NoState == <<"none", "none">>
ThreadState == {"main", "sub"} \X Module

Entering == {"initialize", "initializing", "init_threads"}

Executing ==
    { "acquire_lock", "new_interpreter", "release_new", "acquire_new", "call",
      "yielded", "release_called", "acquire_called", "end_interpreter",
      "release_lock", "restore" }

Steps == {"new", "unopened", "built", "executed", "gone"} \cup Entering \cup Executing

TypeOK ==
    /\ pc \in [Module -> Steps]
    /\ script \in [Module -> ScriptKind \cup {"none"}]
    /\ result \in [Module -> {"none", "true", "false"}]
    /\ saved \in [Module -> ThreadState \cup {NoState}]
    /\ initialized \in BOOLEAN
    /\ lock \in {"absent", "free", "held"}
    /\ current \in ThreadState \cup {NoState}
    /\ live \subseteq ThreadState
    /\ process \in {"up", "fatal", "script"}

Init ==
    /\ pc = [m \in Module |-> "new"]
    /\ script = [m \in Module |-> "none"]
    /\ result = [m \in Module |-> "none"]
    /\ saved = [m \in Module |-> NoState]
    /\ initialized = FALSE
    /\ lock = "absent"
    /\ current = NoState
    /\ live = {}
    /\ process = "up"

Alive(m) == pc[m] \notin {"new", "gone"}

---------------------------------------------------------------------------------
(* The C API. *)

\* A step of the module that is at a given place in a living process.
At(m, step) == process = "up" /\ pc[m] = step

Goto(m, step) == pc' = [pc EXCEPT ![m] = step]

\* The API's condition is not met.
Fatal ==
    /\ process' = "fatal"
    /\ UNCHANGED <<pc, script, result, saved, runtime>>

\* PyThread_acquire_lock waits.  A lock that was never made is a null pointer.
TakeLock == lock = "free" /\ lock' = "held"

\* Mutant: the thread state is given up, the lock is not.
KeepLock == lock = "held" /\ UNCHANGED lock

\* A lock that nobody holds must not be released.
GiveLock == lock = "held" /\ lock' = "free"

\* PyEval_ReleaseThread, and what the evaluation loop does when it lets
\* others run: the caller's state must be current.
GiveThread(m) ==
    /\ current = Sub(m)
    /\ GiveLock
    /\ current' = NoState

CanGiveThread(m) == current = Sub(m) /\ lock = "held"

\* PyEval_AcquireThread: takes the lock, then no state may be current.
CanTakeThread(m) == current = NoState /\ Sub(m) \in live

TakeThread(m) ==
    /\ TakeLock
    /\ CanTakeThread(m)
    /\ current' = Sub(m)

---------------------------------------------------------------------------------
(* Construction. *)

\* The controller joins the thread that makes, executes and destroys a module.
MayConstruct(m) == WaitThreadComplete => \A other \in Module : ~Alive(other)

\* A file that cannot be opened leaves d null.  Otherwise Py_IsInitialized
\* is asked.
Construct(m, kind) ==
    /\ At(m, "new")
    /\ MayConstruct(m)
    /\ script' = [script EXCEPT ![m] = kind]
    /\ Goto(m, IF kind = "unreadable" THEN "unopened"
               ELSE IF initialized THEN "built" ELSE "initialize")
    /\ UNCHANGED <<result, saved, runtime, process>>

\* Py_Initialize: does nothing when another call came first; sets its flag at
\* once ...
Initialize(m) ==
    /\ At(m, "initialize")
    /\ initialized' = TRUE
    /\ Goto(m, IF initialized THEN "init_threads" ELSE "initializing")
    /\ UNCHANGED <<script, result, saved, lock, current, live, process>>

\* ... and makes a thread state current much later.
MakeMain(m) ==
    /\ At(m, "initializing")
    /\ live' = live \cup {Main(m)}
    /\ current' = Main(m)
    /\ Goto(m, "init_threads")
    /\ UNCHANGED <<script, result, saved, initialized, lock, process>>

\* PyEval_InitThreads makes the lock, held, the first time in the process;
\* Py_Finalize does not unmake it.
InitThreads(m) ==
    /\ At(m, "init_threads")
    /\ lock' = IF lock = "absent" THEN "held" ELSE lock
    /\ Goto(m, "built")
    /\ UNCHANGED <<script, result, saved, initialized, current, live, process>>

---------------------------------------------------------------------------------
(* execute. *)

\* Py_BEGIN_ALLOW_THREADS: keeps the current state and lets go of the lock.
\* Whoever's state it is, it is taken; there must be one.
SaveThread(m) ==
    /\ At(m, "built")
    /\ \/ /\ current # NoState
          /\ \/ GiveLock
             \/ lock = "absent" /\ UNCHANGED lock
          /\ saved' = [saved EXCEPT ![m] = current]
          /\ current' = NoState
          /\ Goto(m, "acquire_lock")
          /\ UNCHANGED <<script, result, initialized, live, process>>
       \/ /\ current = NoState \/ lock = "free"
          /\ Fatal

AcquireLock(m) ==
    /\ At(m, "acquire_lock")
    /\ \/ /\ TakeLock
          /\ Goto(m, "new_interpreter")
          /\ UNCHANGED <<script, result, saved, initialized, current, live, process>>
       \/ lock = "absent" /\ Fatal

\* Py_NewInterpreter makes its state the current one.
NewInterpreter(m) ==
    /\ At(m, "new_interpreter")
    /\ \/ /\ initialized
          /\ live' = live \cup {Sub(m)}
          /\ current' = Sub(m)
          /\ Goto(m, "release_new")
          /\ UNCHANGED <<script, result, saved, initialized, lock, process>>
       \/ ~initialized /\ Fatal

\* PyEval_ReleaseThread, twice.
ReleaseThread(m, from, to) ==
    /\ At(m, from)
    /\ \/ /\ GiveThread(m)
          /\ Goto(m, to)
          /\ UNCHANGED <<script, result, saved, initialized, live, process>>
       \/ ~CanGiveThread(m) /\ Fatal

\* PyEval_AcquireThread, twice; and the evaluation loop coming back.
AcquireThread(m, from, to) ==
    /\ At(m, from)
    /\ \/ /\ TakeThread(m)
          /\ Goto(m, to)
          /\ UNCHANGED <<script, result, saved, initialized, live, process>>
       \/ /\ lock = "absent" \/ (lock = "free" /\ ~CanTakeThread(m))
          /\ Fatal

\* While Python code runs, the evaluation loop lets others have the lock now
\* and then.
Yield(m) == ReleaseThread(m, "call", "yielded")

Resume(m) == AcquireThread(m, "yielded", "call")

\* Mutants: whether there was a main is not asked; and main's own result is
\* returned.
ReturnsAlways(kind) == "true"
ReturnsItsResult(kind) == IF kind = "good" THEN "0" ELSE "false"

\* start_plugin is false only when there is no main to call.
Returns(kind) == IF kind = "good" THEN "true" ELSE "false"

\* ::execute comes back.
Return(m) ==
    /\ At(m, "call")
    /\ script[m] # "broken"
    /\ Sub(m) \in live
    /\ result' = [result EXCEPT ![m] = Returns(script[m])]
    /\ Goto(m, "release_called")
    /\ UNCHANGED <<script, saved, runtime, process>>

\* ::execute of a script that does not compile, or whose top level raises: of
\* both PyImport_ExecCodeModule makes no module, and the null pointer ends the
\* process in it or in PyModule_AddObject.  Or ::execute in an interpreter that
\* is not there any more.
Crash(m) ==
    /\ At(m, "call")
    /\ \/ script[m] = "broken" /\ process' = "script"
       \/ Sub(m) \notin live /\ process' = "fatal"
    /\ UNCHANGED <<pc, script, result, saved, runtime>>

\* Py_EndInterpreter of the state that must be current.
EndInterpreter(m) ==
    /\ At(m, "end_interpreter")
    /\ \/ /\ current = Sub(m) /\ Sub(m) \in live
          /\ live' = live \ {Sub(m)}
          /\ current' = NoState
          /\ Goto(m, "release_lock")
          /\ UNCHANGED <<script, result, saved, initialized, lock, process>>
       \/ /\ current # Sub(m) \/ Sub(m) \notin live
          /\ Fatal

ReleaseLock(m) ==
    /\ At(m, "release_lock")
    /\ \/ /\ GiveLock
          /\ Goto(m, "restore")
          /\ UNCHANGED <<script, result, saved, initialized, current, live, process>>
       \/ lock # "held" /\ Fatal

\* Py_END_ALLOW_THREADS: the lock, and the state that was kept.
RestoreThread(m) ==
    /\ At(m, "restore")
    /\ \/ /\ TakeLock
          /\ saved[m] \in live
          /\ current' = saved[m]
          /\ Goto(m, "executed")
          /\ UNCHANGED <<script, result, saved, initialized, live, process>>
       \/ /\ lock = "absent" \/ (lock = "free" /\ saved[m] \notin live)
          /\ Fatal

\* PythonFileScriptModule::execute without d.
ExecuteUnopened(m) ==
    /\ At(m, "unopened")
    /\ result' = [result EXCEPT ![m] = "false"]
    /\ Goto(m, "executed")
    /\ UNCHANGED <<script, saved, runtime, process>>

---------------------------------------------------------------------------------
(* Destruction. *)

\* Mutant: only a module that was executed is finalised.
OpenedAndExecuted(m) == script[m] # "unreadable" /\ result[m] # "none"

\* d is there: its destructor runs with that of the file module.
Opened(m) == script[m] # "unreadable"

\* Py_Finalize: nothing when the runtime is not initialised; otherwise it
\* needs a current state, and no state survives it.  The lock stays held.
Destroy(m) ==
    /\ process = "up" /\ pc[m] \in {"built", "executed", "unopened"}
    /\ \/ /\ Opened(m) /\ initialized
          /\ current # NoState
          /\ initialized' = FALSE
          /\ live' = {}
          /\ current' = NoState
          /\ Goto(m, "gone")
          /\ UNCHANGED <<script, result, saved, lock, process>>
       \/ /\ Opened(m) /\ initialized
          /\ current = NoState
          /\ Fatal
       \/ /\ ~Opened(m) \/ ~initialized
          /\ Goto(m, "gone")
          /\ UNCHANGED <<script, result, saved, runtime, process>>

Step(m) ==
    \/ Initialize(m)
    \/ MakeMain(m)
    \/ InitThreads(m)
    \/ SaveThread(m)
    \/ AcquireLock(m)
    \/ NewInterpreter(m)
    \/ ReleaseThread(m, "release_new", "acquire_new")
    \/ AcquireThread(m, "acquire_new", "call")
    \/ Yield(m)
    \/ Resume(m)
    \/ Return(m)
    \/ Crash(m)
    \/ ReleaseThread(m, "release_called", "acquire_called")
    \/ AcquireThread(m, "acquire_called", "end_interpreter")
    \/ EndInterpreter(m)
    \/ ReleaseLock(m)
    \/ RestoreThread(m)
    \/ ExecuteUnopened(m)
    \/ Destroy(m)

Next ==
    \E m \in Module :
        \/ \E kind \in Scripts : Construct(m, kind)
        \/ Step(m)

Spec == Init /\ [][Next]_vars

\* A thread that can go on goes on, and a script returns some time.
FairSpec == Spec /\ \A m \in Module : WF_vars(Step(m)) /\ SF_vars(Return(m) \/ Crash(m))

---------------------------------------------------------------------------------
(* Properties. *)

\* An execute that was started is not ended by the runtime.
ScriptsReturn == process # "fatal"

\* Between modules the runtime is as a constructor needs it: finalised, no
\* interpreter left, and the lock not made yet or still held, for that is what
\* the next Py_BEGIN_ALLOW_THREADS will release.
ReadyForNext ==
    process = "up" /\ (\A m \in Module : ~Alive(m)) =>
        /\ ~initialized
        /\ live = {}
        /\ current = NoState
        /\ lock # "free"

\* Nobody waits for the lock for ever: a module that was made is destroyed, or
\* its script ends the process.
EveryModuleEnds == \A m \in Module : Alive(m) ~> ~Alive(m) \/ process = "script"

---------------------------------------------------------------------------------
(* What the controller takes Module::execute to be. *)

phase ==
    [m \in Module |->
        IF pc[m] = "new" THEN "none"
        ELSE IF pc[m] = "gone" THEN "gone"
        ELSE IF result[m] = "none" THEN "made" ELSE "called"]

Execution == INSTANCE ModuleExecution WITH
    Call <- Module,
    Kinds <- ScriptKind,
    kind <- script,
    up <- process = "up"

\* The module, joined, implements it.
ExecutionSpec == Execution!Spec
=================================================================================
