------------------------ MODULE PythonScriptModuleProofs ------------------------
(***************************************************************************)
(* Theorems about PythonScriptModule in the build that joins its threads:  *)
(* for any modules and any scripts the runtime never fails an execute, is  *)
(* left as the next module needs it, and the modules behave as the         *)
(* controller expects.                                                     *)
(***************************************************************************)
EXTENDS PythonScriptModule, TLAPS

\* The runtime while no module uses it.
Quiet ==
    /\ ~initialized
    /\ live = {}
    /\ current = NoState
    /\ lock # "free"

\* The runtime of a module: its states, the current one, the lock.
Runs(states, now, locks) ==
    /\ initialized
    /\ live = states
    /\ current = now
    /\ lock \in locks

MainOnly(m) == {Main(m)}
MainAndSub(m) == {Main(m), Sub(m)}

\* What each step of a module finds.
Situation(m) ==
    /\ pc[m] = "unopened" => ~Opened(m)
    /\ pc[m] \in Entering \cup Executing \cup {"built"} => Opened(m)
    /\ pc[m] \in {"unopened", "initialize"} => Quiet
    /\ pc[m] = "executed" /\ ~Opened(m) => Quiet
    /\ pc[m] = "executed" /\ Opened(m) => Runs(MainOnly(m), Main(m), {"held"})
    /\ pc[m] = "initializing" => Runs({}, NoState, {"absent", "held"})
    /\ pc[m] = "init_threads" => Runs(MainOnly(m), Main(m), {"absent", "held"})
    /\ pc[m] = "built" => Runs(MainOnly(m), Main(m), {"held"})
    /\ pc[m] \in {"acquire_lock", "restore"} => Runs(MainOnly(m), NoState, {"free"})
    /\ pc[m] \in {"new_interpreter", "release_lock"} => Runs(MainOnly(m), NoState, {"held"})
    /\ pc[m] \in {"release_new", "call", "release_called", "end_interpreter"} =>
          Runs(MainAndSub(m), Sub(m), {"held"})
    /\ pc[m] \in {"acquire_new", "yielded", "acquire_called"} =>
          Runs(MainAndSub(m), NoState, {"free"})
    /\ pc[m] \in Executing => saved[m] = Main(m)

\* What is known of a module's script and result at each step.
Told(m) ==
    /\ pc[m] = "new" => result[m] = "none"
    /\ pc[m] \in Entering \cup {"built", "unopened", "call", "yielded"} => result[m] = "none"
    /\ pc[m] \in {"acquire_lock", "new_interpreter", "release_new", "acquire_new"} =>
          result[m] = "none"

Alone(m) == \A n \in Module : n # m => ~Alive(n)

Inv ==
    /\ TypeOK
    /\ process # "fatal"
    /\ \A m \in Module : Told(m)
    /\ \A m \in Module : Alive(m) => Situation(m) /\ Alone(m)
    /\ (\A m \in Module : ~Alive(m)) => Quiet

---------------------------------------------------------------------------------

\* The thread states of a module are two, and there is such a thing as none.
LEMMA States ==
    ASSUME NEW m \in Module
    PROVE  /\ Main(m) \in ThreadState /\ Sub(m) \in ThreadState
           /\ Main(m) # NoState /\ Sub(m) # NoState /\ Main(m) # Sub(m)
  BY DEF Main, Sub, NoState, ThreadState

\* The invariant holds initially.
LEMMA Starts == Init => Inv
  <1> SUFFICES ASSUME Init PROVE Inv
    OBVIOUS
  <1>1. TypeOK
    BY DEF Init, TypeOK, Steps
  <1>2. \A m \in Module : ~Alive(m) /\ Told(m)
    BY DEF Init, Alive, Told, Entering
  <1>3. Quiet /\ process # "fatal"
    BY DEF Init, Quiet
  <1> QED
    BY <1>1, <1>2, <1>3 DEF Inv

\* It is enough to look at the module that moves.
LEMMA Rest ==
    ASSUME Inv, NEW m \in Module,
           Alone(m), TypeOK', process' # "fatal", Told(m)',
           \A n \in Module : n # m => pc'[n] = pc[n] /\ result'[n] = result[n],
           Alive(m)' => Situation(m)',
           ~Alive(m)' => Quiet'
    PROVE  Inv'
  <1>1. \A n \in Module : n # m => ~Alive(n)'
    BY DEF Alone, Alive
  <1>2. \A n \in Module : Told(n)'
    <2> SUFFICES ASSUME NEW n \in Module, n # m PROVE Told(n)'
      OBVIOUS
    <2> QED
      BY DEF Told, Inv
  <1>3. Alone(m)'
    BY <1>1 DEF Alone
  <1> QED
    BY <1>1, <1>2, <1>3 DEF Inv

\* A module is made only when there is no other.
LEMMA ConstructKeeps ==
    ASSUME Inv, WaitThreadComplete, NEW m \in Module, NEW kind \in Scripts,
           Construct(m, kind), Scripts \subseteq ScriptKind
    PROVE  Inv'
  <1>1. Quiet /\ Alone(m)
    BY DEF Construct, MayConstruct, Inv, Alone
  <1>2. Told(m)' /\ \A n \in Module : n # m => pc'[n] = pc[n] /\ result'[n] = result[n]
    BY DEF Construct, At, Goto, Inv, TypeOK, Told, Entering
  <1>3. TypeOK'
    BY DEF Construct, At, Goto, Inv, TypeOK, Steps, runtime, Entering
  <1>4. process' # "fatal" /\ Quiet'
    BY <1>1 DEF Construct, Inv, runtime, Quiet
  <1>5. Situation(m)' /\ Alive(m)'
    <2>1. /\ script'[m] = kind
          /\ pc'[m] = IF kind = "unreadable" THEN "unopened" ELSE "initialize"
      BY <1>1 DEF Construct, Goto, Inv, TypeOK, Quiet
    <2> QED
      BY <1>4, <2>1 DEF Situation, Alive, Opened, Entering, Executing
  <1> QED
    BY <1>1, <1>2, <1>3, <1>4, <1>5, Rest

\* A step of a module that is not made or unmade by it.
LEMMA Within ==
    ASSUME Inv, NEW m \in Module, Alive(m),
           NEW to \in Steps \ {"new", "gone"}, Goto(m, to),
           TypeOK', process' # "fatal", Situation(m)', Told(m)',
           \A n \in Module : n # m => result'[n] = result[n]
    PROVE  Inv'
  <1>1. \A n \in Module : n # m => pc'[n] = pc[n]
    BY DEF Goto, Inv, TypeOK
  <1>2. pc'[m] = to
    BY DEF Goto, Inv, TypeOK
  <1>3. Alive(m)' /\ Alone(m)
    BY <1>2 DEF Alive, Inv
  <1> QED
    BY <1>1, <1>3, Rest

\* Py_Initialize is called on a quiet runtime ...
LEMMA InitializeKeeps ==
    ASSUME Inv, NEW m \in Module, Initialize(m)
    PROVE  Inv'
  <1>1. pc[m] = "initialize" /\ Alive(m) /\ Situation(m) /\ TypeOK
    BY DEF Initialize, At, Inv, Alive
  <1>2. Quiet /\ Opened(m) /\ result[m] = "none"
    BY <1>1 DEF Situation, Inv, Told, Entering
  <1>3. Goto(m, "initializing") /\ pc'[m] = "initializing"
    BY <1>1, <1>2 DEF Initialize, Quiet, Goto, TypeOK
  <1>4. TypeOK' /\ process' # "fatal"
    BY <1>1, <1>3 DEF Initialize, At, Goto, TypeOK, Steps, Entering
  <1>5. Situation(m)'
    BY <1>2, <1>3, <1>4 DEF Situation, Initialize, Quiet, Runs, Opened, Entering, Executing, TypeOK
  <1>6. Told(m)'
    BY <1>2, <1>3 DEF Told, Initialize
  <1> QED
    BY <1>1, <1>3, <1>4, <1>5, <1>6, Within DEF Steps, Entering, Initialize

\* ... makes the module's own thread state current ...
LEMMA MakeMainKeeps ==
    ASSUME Inv, NEW m \in Module, MakeMain(m)
    PROVE  Inv'
  <1>1. pc[m] = "initializing" /\ Alive(m) /\ Situation(m) /\ TypeOK
    BY DEF MakeMain, At, Inv, Alive
  <1>2. Runs({}, NoState, {"absent", "held"}) /\ Opened(m) /\ result[m] = "none"
    BY <1>1 DEF Situation, Inv, Told, Entering
  <1>3. Goto(m, "init_threads") /\ pc'[m] = "init_threads"
    BY <1>1 DEF MakeMain, Goto, TypeOK
  <1>4. TypeOK' /\ process' # "fatal"
    BY <1>1, <1>3, States DEF MakeMain, At, Goto, TypeOK, Steps, Entering
  <1>5. Situation(m)'
    BY <1>2, <1>3 DEF Situation, MakeMain, Runs, MainOnly, Opened, Entering, Executing
  <1>6. Told(m)'
    BY <1>2, <1>3 DEF Told, MakeMain
  <1> QED
    BY <1>1, <1>3, <1>4, <1>5, <1>6, Within DEF Steps, Entering, MakeMain

\* ... and the lock is made, or has been held since the last module.
LEMMA InitThreadsKeeps ==
    ASSUME Inv, NEW m \in Module, InitThreads(m)
    PROVE  Inv'
  <1>1. pc[m] = "init_threads" /\ Alive(m) /\ Situation(m) /\ TypeOK
    BY DEF InitThreads, At, Inv, Alive
  <1>2. Runs(MainOnly(m), Main(m), {"absent", "held"}) /\ Opened(m) /\ result[m] = "none"
    BY <1>1 DEF Situation, Inv, Told, Entering
  <1>3. Goto(m, "built") /\ pc'[m] = "built"
    BY <1>1 DEF InitThreads, Goto, TypeOK
  <1>4. TypeOK' /\ process' # "fatal"
    BY <1>1, <1>3 DEF InitThreads, At, Goto, TypeOK, Steps
  <1>5. Situation(m)'
    BY <1>2, <1>3 DEF Situation, InitThreads, Runs, MainOnly, Main, Opened, Entering, Executing
  <1>6. Told(m)'
    BY <1>2, <1>3 DEF Told, InitThreads
  <1> QED
    BY <1>1, <1>3, <1>4, <1>5, <1>6, Within DEF Steps, InitThreads

---------------------------------------------------------------------------------

\* The state that is kept is the module's own.
LEMMA SaveThreadKeeps ==
    ASSUME Inv, NEW m \in Module, SaveThread(m)
    PROVE  Inv'
  <1>1. pc[m] = "built" /\ Alive(m) /\ Situation(m) /\ TypeOK
    BY DEF SaveThread, At, Inv, Alive
  <1>2. Runs(MainOnly(m), Main(m), {"held"}) /\ Opened(m) /\ result[m] = "none"
    BY <1>1 DEF Situation, Inv, Told
  <1>3. /\ saved' = [saved EXCEPT ![m] = Main(m)] /\ lock' = "free"
        /\ current' = NoState /\ Goto(m, "acquire_lock")
        /\ UNCHANGED <<script, result, initialized, live, process>>
    BY <1>2, States DEF SaveThread, Runs, GiveLock
  <1>4. pc'[m] = "acquire_lock" /\ saved'[m] = Main(m)
    BY <1>1, <1>3 DEF Goto, TypeOK
  <1>5. TypeOK' /\ process' # "fatal"
    BY <1>1, <1>3, States DEF Goto, TypeOK, Steps, Executing, Inv
  <1>6. Situation(m)' /\ Told(m)'
    BY <1>2, <1>3, <1>4 DEF Situation, Told, Runs, MainOnly, Main, Opened, Entering, Executing
  <1> QED
    BY <1>1, <1>3, <1>5, <1>6, Within DEF Steps, Executing

\* The lock is free for the module that made it so.
LEMMA AcquireLockKeeps ==
    ASSUME Inv, NEW m \in Module, AcquireLock(m)
    PROVE  Inv'
  <1>1. pc[m] = "acquire_lock" /\ Alive(m) /\ Situation(m) /\ TypeOK
    BY DEF AcquireLock, At, Inv, Alive
  <1>2. /\ Runs(MainOnly(m), NoState, {"free"}) /\ Opened(m) /\ result[m] = "none"
        /\ saved[m] = Main(m)
    BY <1>1 DEF Situation, Inv, Told, Executing
  <1>3. /\ lock' = "held" /\ Goto(m, "new_interpreter")
        /\ UNCHANGED <<script, result, saved, initialized, current, live, process>>
    BY <1>2 DEF AcquireLock, Runs, TakeLock
  <1>4. pc'[m] = "new_interpreter"
    BY <1>1, <1>3 DEF Goto, TypeOK
  <1>5. TypeOK' /\ process' # "fatal"
    BY <1>1, <1>3 DEF Goto, TypeOK, Steps, Executing, Inv
  <1>6. Situation(m)' /\ Told(m)'
    BY <1>2, <1>3, <1>4 DEF Situation, Told, Runs, MainOnly, Main, Opened, Entering, Executing
  <1> QED
    BY <1>1, <1>3, <1>5, <1>6, Within DEF Steps, Executing

\* The sub-interpreter is made in an initialised runtime.
LEMMA NewInterpreterKeeps ==
    ASSUME Inv, NEW m \in Module, NewInterpreter(m)
    PROVE  Inv'
  <1>1. pc[m] = "new_interpreter" /\ Alive(m) /\ Situation(m) /\ TypeOK
    BY DEF NewInterpreter, At, Inv, Alive
  <1>2. /\ Runs(MainOnly(m), NoState, {"held"}) /\ Opened(m) /\ result[m] = "none"
        /\ saved[m] = Main(m)
    BY <1>1 DEF Situation, Inv, Told, Executing
  <1>3. /\ live' = live \cup {Sub(m)} /\ current' = Sub(m) /\ Goto(m, "release_new")
        /\ UNCHANGED <<script, result, saved, initialized, lock, process>>
    BY <1>2 DEF NewInterpreter, Runs
  <1>4. pc'[m] = "release_new" /\ live' = MainAndSub(m)
    BY <1>1, <1>2, <1>3 DEF Goto, TypeOK, Runs, MainOnly, MainAndSub
  <1>5. TypeOK' /\ process' # "fatal"
    BY <1>1, <1>3, States DEF Goto, TypeOK, Steps, Executing, Inv
  <1>6. Situation(m)' /\ Told(m)'
    BY <1>2, <1>3, <1>4 DEF Situation, Told, Runs, MainAndSub, Sub, Main, Opened, Entering, Executing
  <1> QED
    BY <1>1, <1>3, <1>5, <1>6, Within DEF Steps, Executing

\* The thread that releases the lock is the one that holds it ...
LEMMA ReleaseThreadKeeps ==
    ASSUME Inv, NEW m \in Module, NEW from, NEW to,
           \/ from = "release_new" /\ to = "acquire_new"
           \/ from = "call" /\ to = "yielded"
           \/ from = "release_called" /\ to = "acquire_called",
           ReleaseThread(m, from, to)
    PROVE  Inv'
  <1>1. pc[m] = from /\ Alive(m) /\ Situation(m) /\ Told(m) /\ TypeOK
    BY DEF ReleaseThread, At, Inv, Alive
  <1>2. Runs(MainAndSub(m), Sub(m), {"held"}) /\ Opened(m) /\ saved[m] = Main(m)
    BY <1>1 DEF Situation, Executing
  <1>3. /\ lock' = "free" /\ current' = NoState /\ Goto(m, to)
        /\ UNCHANGED <<script, result, saved, initialized, live, process>>
    BY <1>2 DEF ReleaseThread, CanGiveThread, GiveThread, GiveLock, Runs
  <1>4. pc'[m] = to
    BY <1>1, <1>3 DEF Goto, TypeOK
  <1>5. TypeOK' /\ process' # "fatal"
    BY <1>1, <1>3 DEF Goto, TypeOK, Steps, Executing, Inv
  <1>6. Situation(m)' /\ Told(m)'
    BY <1>1, <1>2, <1>3, <1>4
       DEF Situation, Told, Runs, MainAndSub, Main, Sub, Opened, Entering, Executing
  <1> QED
    BY <1>1, <1>3, <1>5, <1>6, Within DEF Steps, Executing

\* ... and finds it free, with no state current, when it comes back.
LEMMA AcquireThreadKeeps ==
    ASSUME Inv, NEW m \in Module, NEW from, NEW to,
           \/ from = "acquire_new" /\ to = "call"
           \/ from = "yielded" /\ to = "call"
           \/ from = "acquire_called" /\ to = "end_interpreter",
           AcquireThread(m, from, to)
    PROVE  Inv'
  <1>1. pc[m] = from /\ Alive(m) /\ Situation(m) /\ Told(m) /\ TypeOK
    BY DEF AcquireThread, At, Inv, Alive
  <1>2. Runs(MainAndSub(m), NoState, {"free"}) /\ Opened(m) /\ saved[m] = Main(m)
    BY <1>1 DEF Situation, Executing
  <1>3. /\ lock' = "held" /\ current' = Sub(m) /\ Goto(m, to)
        /\ UNCHANGED <<script, result, saved, initialized, live, process>>
    BY <1>2 DEF AcquireThread, CanTakeThread, TakeThread, TakeLock, Runs, MainAndSub
  <1>4. pc'[m] = to
    BY <1>1, <1>3 DEF Goto, TypeOK
  <1>5. TypeOK' /\ process' # "fatal"
    BY <1>1, <1>3, States DEF Goto, TypeOK, Steps, Executing, Inv
  <1>6. Situation(m)' /\ Told(m)'
    BY <1>1, <1>2, <1>3, <1>4
       DEF Situation, Told, Runs, MainAndSub, Main, Sub, Opened, Entering, Executing
  <1> QED
    BY <1>1, <1>3, <1>5, <1>6, Within DEF Steps, Executing

\* The script's main has returned, or there was none.
LEMMA ReturnKeeps ==
    ASSUME Inv, NEW m \in Module, Return(m)
    PROVE  Inv'
  <1>1. pc[m] = "call" /\ Alive(m) /\ Situation(m) /\ TypeOK
    BY DEF Return, At, Inv, Alive
  <1>2. Runs(MainAndSub(m), Sub(m), {"held"}) /\ Opened(m) /\ saved[m] = Main(m)
    BY <1>1 DEF Situation, Executing
  <1>3. Goto(m, "release_called") /\ UNCHANGED <<script, saved, runtime, process>>
    BY DEF Return
  <1>4. pc'[m] = "release_called"
    BY <1>1, <1>3 DEF Goto, TypeOK
  <1>5. TypeOK' /\ process' # "fatal"
    BY <1>1, <1>3 DEF Return, Returns, Goto, TypeOK, Steps, Executing, Inv, runtime
  <1>6. Situation(m)' /\ Told(m)'
    BY <1>2, <1>3, <1>4
       DEF Situation, Told, Runs, MainAndSub, Main, Sub, Opened, Entering, Executing, runtime
  <1>7. \A n \in Module : n # m => result'[n] = result[n]
    BY <1>1 DEF Return, TypeOK
  <1> QED
    BY <1>1, <1>3, <1>5, <1>6, <1>7, Within DEF Steps, Executing

\* The process ends only of a broken script: the interpreter is there.
LEMMA CrashKeeps ==
    ASSUME Inv, NEW m \in Module, Crash(m)
    PROVE  Inv' /\ script[m] = "broken" /\ process' = "script"
  <1>1. pc[m] = "call" /\ Situation(m) /\ TypeOK
    BY DEF Crash, At, Inv, Alive
  <1>2. Sub(m) \in live
    BY <1>1 DEF Situation, Runs, MainAndSub
  <1>3. script[m] = "broken" /\ process' = "script"
    BY <1>2 DEF Crash
  <1>4. UNCHANGED <<pc, script, result, saved, runtime>>
    BY DEF Crash
  <1>5. TypeOK'
    BY <1>1, <1>3, <1>4 DEF TypeOK, runtime
  <1>6. \A n \in Module : UNCHANGED <<Alive(n), Told(n), Situation(n), Alone(n)>>
    BY <1>4 DEF Alive, Told, Situation, Alone, Runs, Quiet, Opened, runtime
  <1>7. UNCHANGED Quiet
    BY <1>4 DEF Quiet, runtime
  <1> QED
    BY <1>3, <1>5, <1>6, <1>7 DEF Inv

\* The sub-interpreter ends while it is the current one.
LEMMA EndInterpreterKeeps ==
    ASSUME Inv, NEW m \in Module, EndInterpreter(m)
    PROVE  Inv'
  <1>1. pc[m] = "end_interpreter" /\ Alive(m) /\ Situation(m) /\ Told(m) /\ TypeOK
    BY DEF EndInterpreter, At, Inv, Alive
  <1>2. Runs(MainAndSub(m), Sub(m), {"held"}) /\ Opened(m) /\ saved[m] = Main(m)
    BY <1>1 DEF Situation, Executing
  <1>3. /\ live' = live \ {Sub(m)} /\ current' = NoState /\ Goto(m, "release_lock")
        /\ UNCHANGED <<script, result, saved, initialized, lock, process>>
    BY <1>2 DEF EndInterpreter, Runs, MainAndSub
  <1>4. pc'[m] = "release_lock" /\ live' = MainOnly(m)
    BY <1>1, <1>2, <1>3, States DEF Goto, TypeOK, Runs, MainOnly, MainAndSub
  <1>5. TypeOK' /\ process' # "fatal"
    BY <1>1, <1>3 DEF Goto, TypeOK, Steps, Executing, Inv
  <1>6. Situation(m)' /\ Told(m)'
    BY <1>1, <1>2, <1>3, <1>4 DEF Situation, Told, Runs, MainOnly, Main, Opened, Entering, Executing
  <1> QED
    BY <1>1, <1>3, <1>5, <1>6, Within DEF Steps, Executing

\* The lock is released ...
LEMMA ReleaseLockKeeps ==
    ASSUME Inv, NEW m \in Module, ReleaseLock(m)
    PROVE  Inv'
  <1>1. pc[m] = "release_lock" /\ Alive(m) /\ Situation(m) /\ Told(m) /\ TypeOK
    BY DEF ReleaseLock, At, Inv, Alive
  <1>2. Runs(MainOnly(m), NoState, {"held"}) /\ Opened(m) /\ saved[m] = Main(m)
    BY <1>1 DEF Situation, Executing
  <1>3. /\ lock' = "free" /\ Goto(m, "restore")
        /\ UNCHANGED <<script, result, saved, initialized, current, live, process>>
    BY <1>2 DEF ReleaseLock, GiveLock, Runs
  <1>4. pc'[m] = "restore"
    BY <1>1, <1>3 DEF Goto, TypeOK
  <1>5. TypeOK' /\ process' # "fatal"
    BY <1>1, <1>3 DEF Goto, TypeOK, Steps, Executing, Inv
  <1>6. Situation(m)' /\ Told(m)'
    BY <1>1, <1>2, <1>3, <1>4 DEF Situation, Told, Runs, MainOnly, Main, Opened, Entering, Executing
  <1> QED
    BY <1>1, <1>3, <1>5, <1>6, Within DEF Steps, Executing

\* ... and taken again with the state that was kept, which still exists.
LEMMA RestoreThreadKeeps ==
    ASSUME Inv, NEW m \in Module, RestoreThread(m)
    PROVE  Inv'
  <1>1. pc[m] = "restore" /\ Alive(m) /\ Situation(m) /\ Told(m) /\ TypeOK
    BY DEF RestoreThread, At, Inv, Alive
  <1>2. Runs(MainOnly(m), NoState, {"free"}) /\ Opened(m) /\ saved[m] = Main(m)
    BY <1>1 DEF Situation, Executing
  <1>3. /\ lock' = "held" /\ current' = Main(m) /\ Goto(m, "executed")
        /\ UNCHANGED <<script, result, saved, initialized, live, process>>
    BY <1>2 DEF RestoreThread, TakeLock, Runs, MainOnly
  <1>4. pc'[m] = "executed"
    BY <1>1, <1>3 DEF Goto, TypeOK
  <1>5. TypeOK' /\ process' # "fatal"
    BY <1>1, <1>3, States DEF Goto, TypeOK, Steps, Inv
  <1>6. Situation(m)' /\ Told(m)'
    BY <1>1, <1>2, <1>3, <1>4 DEF Situation, Told, Runs, MainOnly, Main, Opened, Entering, Executing
  <1> QED
    BY <1>1, <1>3, <1>5, <1>6, Within DEF Steps

\* A file that could not be opened touches nothing.
LEMMA ExecuteUnopenedKeeps ==
    ASSUME Inv, NEW m \in Module, ExecuteUnopened(m)
    PROVE  Inv'
  <1>1. pc[m] = "unopened" /\ Alive(m) /\ Situation(m) /\ TypeOK
    BY DEF ExecuteUnopened, At, Inv, Alive
  <1>2. Quiet /\ ~Opened(m)
    BY <1>1 DEF Situation
  <1>3. Goto(m, "executed") /\ pc'[m] = "executed" /\ UNCHANGED <<script, saved, runtime, process>>
    BY <1>1 DEF ExecuteUnopened, Goto, TypeOK
  <1>4. TypeOK' /\ process' # "fatal"
    BY <1>1, <1>3 DEF ExecuteUnopened, Goto, TypeOK, Steps, Inv, runtime
  <1>5. Situation(m)' /\ Told(m)'
    BY <1>2, <1>3 DEF Situation, Told, Quiet, Opened, Entering, Executing, runtime
  <1>6. \A n \in Module : n # m => result'[n] = result[n]
    BY <1>1 DEF ExecuteUnopened, TypeOK
  <1> QED
    BY <1>1, <1>3, <1>4, <1>5, <1>6, Within DEF Steps

\* The last module to be destroyed leaves the runtime as it found it.
LEMMA DestroyKeeps ==
    ASSUME Inv, NEW m \in Module, Destroy(m)
    PROVE  Inv' /\ Goto(m, "gone") /\ UNCHANGED <<script, result, process>>
  <1>1. pc[m] \in {"built", "executed", "unopened"} /\ Alive(m) /\ Situation(m) /\ Told(m)
    BY DEF Destroy, Inv, Alive
  <1>2. TypeOK /\ Alone(m)
    BY <1>1 DEF Inv
  <1>3. /\ Quiet' /\ initialized' \in BOOLEAN
        /\ Goto(m, "gone") /\ UNCHANGED <<script, result, saved, lock, process>>
    <2>1. CASE Opened(m)
      <3>1. Runs(MainOnly(m), Main(m), {"held"})
        BY <1>1, <2>1 DEF Situation
      <3> QED
        BY <2>1, <3>1, States DEF Destroy, Runs, Quiet, Fatal
    <2>2. CASE ~Opened(m)
      <3>1. Quiet
        BY <1>1, <2>2 DEF Situation, Entering, Executing
      <3> QED
        BY <1>2, <2>2, <3>1 DEF Destroy, Quiet, TypeOK, runtime
    <2> QED
      BY <2>1, <2>2
  <1>4. pc'[m] = "gone" /\ \A n \in Module : n # m => pc'[n] = pc[n]
    BY <1>2, <1>3 DEF Goto, TypeOK
  <1>5. TypeOK' /\ process' # "fatal"
    BY <1>2, <1>3 DEF Goto, TypeOK, Steps, Quiet, NoState, Inv
  <1>6. Told(m)' /\ ~Alive(m)'
    BY <1>4 DEF Told, Alive, Entering
  <1> QED
    BY <1>2, <1>3, <1>4, <1>5, <1>6, Rest

\* Nothing of the invariant changes when nothing does.
LEMMA StutterKeeps == Inv /\ UNCHANGED vars => Inv'
  <1> SUFFICES ASSUME Inv, UNCHANGED vars PROVE Inv'
    OBVIOUS
  <1>1. TypeOK' /\ process' # "fatal"
    BY DEF Inv, TypeOK, vars, runtime
  <1>2. \A n \in Module : UNCHANGED <<Alive(n), Told(n), Situation(n), Alone(n)>>
    BY DEF Alive, Told, Situation, Alone, Runs, Quiet, Opened, vars, runtime
  <1>3. UNCHANGED Quiet
    BY DEF Quiet, vars, runtime
  <1> QED
    BY <1>1, <1>2, <1>3 DEF Inv

\* Every step of a module keeps the invariant.
LEMMA StepKeeps ==
    ASSUME Inv, NEW m \in Module, Step(m)
    PROVE  Inv'
  <1>1. CASE Initialize(m) \/ MakeMain(m) \/ InitThreads(m)
    BY <1>1, InitializeKeeps, MakeMainKeeps, InitThreadsKeeps
  <1>2. CASE SaveThread(m) \/ AcquireLock(m) \/ NewInterpreter(m)
    BY <1>2, SaveThreadKeeps, AcquireLockKeeps, NewInterpreterKeeps
  <1>3. CASE \/ ReleaseThread(m, "release_new", "acquire_new") \/ Yield(m)
             \/ ReleaseThread(m, "release_called", "acquire_called")
    BY <1>3, ReleaseThreadKeeps DEF Yield
  <1>4. CASE \/ AcquireThread(m, "acquire_new", "call") \/ Resume(m)
             \/ AcquireThread(m, "acquire_called", "end_interpreter")
    BY <1>4, AcquireThreadKeeps DEF Resume
  <1>5. CASE Return(m) \/ Crash(m) \/ EndInterpreter(m)
    BY <1>5, ReturnKeeps, CrashKeeps, EndInterpreterKeeps
  <1>6. CASE ReleaseLock(m) \/ RestoreThread(m) \/ ExecuteUnopened(m) \/ Destroy(m)
    BY <1>6, ReleaseLockKeeps, RestoreThreadKeeps, ExecuteUnopenedKeeps, DestroyKeeps
  <1> QED
    BY <1>1, <1>2, <1>3, <1>4, <1>5, <1>6 DEF Step

\* The invariant of the joined build.
LEMMA Invariance == WaitThreadComplete /\ Spec => []Inv
  <1> SUFFICES ASSUME WaitThreadComplete PROVE Spec => []Inv
    OBVIOUS
  <1>1. Init => Inv
    BY Starts
  <1>2. Inv /\ [Next]_vars => Inv'
    BY StepKeeps, ConstructKeeps, StutterKeeps, ScriptAssumption DEF Next
  <1> QED
    BY <1>1, <1>2, PTL DEF Spec

\* No execute is ended by the runtime: neither Py_FatalError nor the use of a
\* state that is gone, with any modules and scripts, one at a time.
THEOREM NoFatalError == WaitThreadComplete /\ Spec => []ScriptsReturn
  <1>1. Inv => ScriptsReturn
    BY DEF Inv, ScriptsReturn
  <1> QED
    BY <1>1, Invariance, PTL

\* Py_Finalize leaves a runtime in which the next module can be made; and every
\* variable keeps its type.
THEOREM Reusable == WaitThreadComplete /\ Spec => [](TypeOK /\ ReadyForNext)
  <1>1. Inv => TypeOK /\ ReadyForNext
    BY DEF Inv, ReadyForNext, Quiet
  <1> QED
    BY <1>1, Invariance, PTL
---------------------------------------------------------------------------------
(* The joined build implements ModuleExecution. *)

\* A step that leaves results and scripts alone is one of the controller's, or
\* none.
LEMMA SamePhase ==
    ASSUME TypeOK, NEW m \in Module, NEW to \in Steps \ {"new", "gone"},
           Goto(m, to), Alive(m), UNCHANGED result
    PROVE  UNCHANGED phase
  <1>1. \A n \in Module : n # m => pc'[n] = pc[n]
    BY DEF Goto, TypeOK
  <1>2. pc'[m] = to
    BY DEF Goto, TypeOK
  <1> QED
    BY <1>1, <1>2 DEF phase, Alive

\* Making a module, while there is no other.
LEMMA ConstructImplements ==
    ASSUME Inv, WaitThreadComplete, NEW m \in Module, NEW kind \in Scripts, Construct(m, kind)
    PROVE  Execution!Make(m, kind)
  <1>1. /\ process = "up" /\ pc[m] = "new" /\ TypeOK /\ result[m] = "none"
        /\ UNCHANGED <<result, process>>
    BY DEF Construct, At, Inv, Told
  <1>2. \A n \in Module : phase[n] \in {"none", "gone"}
    BY DEF Construct, MayConstruct, Alive, phase
  <1>3. pc'[m] \in {"unopened", "built", "initialize"}
        /\ \A n \in Module : n # m => pc'[n] = pc[n]
    BY <1>1 DEF Construct, Goto, TypeOK
  <1>4. phase' = [phase EXCEPT ![m] = "made"]
    BY <1>1, <1>3 DEF phase
  <1> QED
    BY <1>1, <1>2, <1>4 DEF Execution!Make, Construct, phase

\* An execute that returned, of a script or of a file that cannot be opened.
LEMMA ReturnImplements ==
    ASSUME Inv, NEW m \in Module, Return(m) \/ ExecuteUnopened(m)
    PROVE  Execution!Execute(m)
  <1>1. /\ process = "up" /\ pc[m] \in {"call", "unopened"} /\ TypeOK
        /\ UNCHANGED <<script, process>>
    BY DEF Return, ExecuteUnopened, At, Inv
  <1>2. result[m] = "none" /\ Situation(m)
    BY <1>1 DEF Inv, Told, Alive
  <1>3. /\ script[m] # "broken"
        /\ result' = [result EXCEPT ![m] = IF script[m] = "good" THEN "true" ELSE "false"]
    BY <1>1, <1>2 DEF Return, ExecuteUnopened, Returns, At, Situation, Opened
  <1>4. pc'[m] \in {"release_called", "executed"} /\ \A n \in Module : n # m => pc'[n] = pc[n]
    BY <1>1 DEF Return, ExecuteUnopened, Goto, TypeOK
  <1>5. phase' = [phase EXCEPT ![m] = "called"]
    BY <1>1, <1>3, <1>4 DEF phase, TypeOK
  <1>6. phase[m] = "made"
    BY <1>1, <1>2 DEF phase
  <1> QED
    BY <1>1, <1>3, <1>5, <1>6 DEF Execution!Execute

\* The end of a module.
LEMMA DestroyImplements ==
    ASSUME Inv, NEW m \in Module, Destroy(m)
    PROVE  Execution!Unmake(m)
  <1>1. /\ process = "up" /\ pc[m] \in {"built", "executed", "unopened"} /\ TypeOK
        /\ Goto(m, "gone") /\ UNCHANGED <<script, result, process>>
    BY DestroyKeeps DEF Destroy, Inv
  <1>2. pc'[m] = "gone" /\ \A n \in Module : n # m => pc'[n] = pc[n]
    BY <1>1 DEF Goto, TypeOK
  <1>3. phase' = [phase EXCEPT ![m] = "gone"]
    BY <1>1, <1>2 DEF phase
  <1>4. phase[m] \in {"made", "called"}
    BY <1>1 DEF phase
  <1> QED
    BY <1>1, <1>3, <1>4 DEF Execution!Unmake

\* A broken script.
LEMMA CrashImplements ==
    ASSUME Inv, NEW m \in Module, Crash(m)
    PROVE  Execution!Break(m)
  <1>1. /\ process = "up" /\ pc[m] = "call" /\ UNCHANGED <<pc, script, result>>
    BY DEF Crash, At
  <1>2. result[m] = "none"
    BY <1>1 DEF Inv, Told
  <1>3. phase[m] = "made" /\ UNCHANGED phase
    BY <1>1, <1>2 DEF phase
  <1> QED
    BY <1>1, <1>3, CrashKeeps DEF Execution!Break

\* The steps of the runtime that the controller does not see.
LEMMA InsideStutters ==
    ASSUME Inv, NEW m \in Module, Step(m),
           ~(Return(m) \/ ExecuteUnopened(m) \/ Destroy(m) \/ Crash(m))
    PROVE  UNCHANGED <<phase, script, result, process>>
  <1>1. Inv' /\ TypeOK
    BY StepKeeps DEF Inv
  <1>2. process = "up" /\ process' # "fatal"
    BY <1>1 DEF Inv, Step, Initialize, MakeMain, InitThreads, SaveThread, AcquireLock,
       NewInterpreter, ReleaseThread, AcquireThread, Yield, Resume, EndInterpreter,
       ReleaseLock, RestoreThread, At
  <1>3. ~Fatal
    BY <1>2 DEF Fatal
  <1>4. Alive(m) /\ UNCHANGED <<script, result, process>>
    BY <1>3 DEF Step, Initialize, MakeMain, InitThreads, SaveThread, AcquireLock,
       NewInterpreter, ReleaseThread, AcquireThread, Yield, Resume, EndInterpreter,
       ReleaseLock, RestoreThread, At, Alive
  <1>5. \E to \in Steps \ {"new", "gone"} : Goto(m, to)
    BY <1>3 DEF Step, Initialize, MakeMain, InitThreads, SaveThread, AcquireLock,
       NewInterpreter, ReleaseThread, AcquireThread, Yield, Resume, EndInterpreter,
       ReleaseLock, RestoreThread, Steps, Entering, Executing
  <1> QED
    BY <1>1, <1>4, <1>5, SamePhase

\* Joined, the modules are what the controller takes them to be.
THEOREM ExecutionImplemented == WaitThreadComplete /\ Spec => ExecutionSpec
  <1> SUFFICES ASSUME WaitThreadComplete PROVE Spec => ExecutionSpec
    OBVIOUS
  <1>1. Init => Execution!Init
    BY DEF Init, Execution!Init, phase
  <1>2. Inv /\ [Next]_vars => [Execution!Next]_(Execution!vars)
    <2> SUFFICES ASSUME Inv, [Next]_vars PROVE [Execution!Next]_(Execution!vars)
      OBVIOUS
    <2>1. ASSUME NEW m \in Module, NEW kind \in Scripts, Construct(m, kind)
          PROVE  Execution!Next
      BY <2>1, ConstructImplements, ScriptAssumption DEF Execution!Next
    <2>2. ASSUME NEW m \in Module, Step(m)
          PROVE  Execution!Next \/ UNCHANGED Execution!vars
      <3>1. CASE Return(m) \/ ExecuteUnopened(m) \/ Destroy(m) \/ Crash(m)
        BY <3>1, ReturnImplements, DestroyImplements, CrashImplements DEF Execution!Next
      <3>2. CASE ~(Return(m) \/ ExecuteUnopened(m) \/ Destroy(m) \/ Crash(m))
        BY <2>2, <3>2, InsideStutters DEF Execution!vars
      <3> QED
        BY <3>1, <3>2
    <2>3. CASE UNCHANGED vars
      BY <2>3 DEF vars, phase, Execution!vars
    <2> QED
      BY <2>1, <2>2, <2>3 DEF Next
  <1> QED
    BY <1>1, <1>2, Invariance, PTL DEF Spec, ExecutionSpec, Execution!Spec
=================================================================================
