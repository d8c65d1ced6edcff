----------------------------- MODULE BaseConnection -----------------------------
(***************************************************************************)
(* BaseConnection (plugin_controller_service.cpp): one libpq connection    *)
(* that the caller's thread and the threads of module_call share, and the  *)
(* parameters it is opened with.                                           *)
(*                                                                         *)
(* execute, reconnect and is_connected take a recursive mutex.             *)
(* load_context and refresh take none: they write the members reconnect    *)
(* reads, one std::string after the other, on the caller's thread.  What   *)
(* keeps them apart is not the mutex but who reconnects when.              *)
(*                                                                         *)
(* A run is one call of ModuleController::execute; what it says in its     *)
(* statements is the subject of ModuleController, here only where they go  *)
(* matters.  Two of the five parameters are enough to tell a mixture.      *)
(***************************************************************************)
EXTENDS Naturals

CONSTANTS
    Run,                \* calls of ModuleController::execute (bounds the model)
    Hostname, Database, \* values of the parameters
    Start,              \* the parameters the constructor's context gives
    Configurations,     \* the parameters of the files that are loaded
    Settings            \* the builds, and the kinds of failure that occur in each

\* "link":   the connection breaks, or a login fails;
\* "memory": PQsetdbLogin gives nullptr.
FaultKind == {"link", "memory"}

Parameters == [hostname : Hostname, database : Database]

ASSUME ConnectionAssumption ==
    /\ "caller" \notin Run /\ "nobody" \notin Run
    /\ "garbage" \notin Hostname \cup Database
    /\ Start \in Parameters
    /\ Configurations \subseteq Parameters
    /\ Settings \subseteq [joined : BOOLEAN, faults : SUBSET FaultKind]

VARIABLES
    joined,     \* ENABLE_WAIT_THREAD_COMPLETE: threads are joined, not detached
    faults,     \* the kinds of failure that occur
    pc,         \* what each thread does next
    context,    \* _context, as far as refresh copies it
    member,     \* _hostname and _database
    argument,   \* the host name PQsetdbLogin has read for each thread
    state,      \* _c: nullptr, or its PQstatus
    session,    \* the parameters _c was opened with
    owner,      \* the thread that holds _mutex
    open,       \* connections that PQsetdbLogin gave and PQfinish did not take
    reached     \* the databases each run's statements were sent to

\* What no step changes.
setting == <<joined, faults>>

vars == <<setting, pc, context, member, argument, state, session, owner, open, reached>>

Caller == "caller"
Nobody == "nobody"
Thread == Run \cup {Caller}

Reconnecting == {"finish", "read_hostname", "login"}

CallerSteps == {"free", "refresh_hostname", "refresh_database", "gone"} \cup Reconnecting

RunSteps == {"idle", "called", "started", "running", "done"} \cup Reconnecting

\* What a read that races with a write may bring.
MaybeTorn(values) == values \cup {"garbage"}

TypeOK ==
    /\ joined \in BOOLEAN
    /\ faults \subseteq FaultKind
    /\ pc \in [Thread -> CallerSteps \cup RunSteps]
    /\ context \in Parameters
    /\ member \in Parameters
    /\ argument \in [Thread -> MaybeTorn(Hostname)]
    /\ state \in {"null", "ok", "bad"}
    /\ session \in [hostname : MaybeTorn(Hostname), database : MaybeTorn(Database)]
    /\ owner \in Thread \cup {Nobody}
    /\ open \in Nat
    /\ reached \in [Run -> SUBSET [hostname : MaybeTorn(Hostname), database : MaybeTorn(Database)]]

\* The constructor copies the context and refreshes; nothing is open yet.
Init ==
    /\ \E s \in Settings : joined = s.joined /\ faults = s.faults
    /\ pc = [t \in Thread |-> IF t = Caller THEN "free" ELSE "idle"]
    /\ context = Start
    /\ member = Start
    /\ argument = [t \in Thread |-> Start.hostname]
    /\ state = "null"
    /\ session = Start
    /\ owner = Nobody
    /\ open = 0
    /\ reached = [r \in Run |-> {}]

Goto(t, step) == pc' = [pc EXCEPT ![t] = step]

\* Mutant: no lock_guard anywhere.
MayLockAlways(t) == TRUE

\* std::lock_guard on a recursive mutex: free, or held by the same thread.
MayLock(t) == owner \in {Nobody, t}

---------------------------------------------------------------------------------
(* The caller's thread. *)

Active(r) == pc[r] \notin {"idle", "done"}

\* Mutant: the caller does not wait for the thread it started.
CallerFreeUnjoined == pc[Caller] = "free"

\* ModuleController::execute and PluginManager::load follow one another on one
\* thread; with ENABLE_WAIT_THREAD_COMPLETE execute waits for the run.
CallerFree ==
    /\ pc[Caller] = "free"
    /\ joined => \A r \in Run : ~Active(r)

\* load_context: fromXml, and refresh, which takes no mutex ...
Load(configuration) ==
    /\ CallerFree
    /\ context' = configuration
    /\ Goto(Caller, "refresh_hostname")
    /\ UNCHANGED <<setting, member, argument, state, session, owner, open, reached>>

\* ... and copies one parameter after the other.
RefreshHostname ==
    /\ pc[Caller] = "refresh_hostname"
    /\ member' = [hostname |-> context.hostname, database |-> member.database]
    /\ Goto(Caller, "refresh_database")
    /\ UNCHANGED <<setting, context, argument, state, session, owner, open, reached>>

RefreshDatabase ==
    /\ pc[Caller] = "refresh_database"
    /\ member' = [hostname |-> member.hostname, database |-> context.database]
    /\ Goto(Caller, "free")
    /\ UNCHANGED <<setting, context, argument, state, session, owner, open, reached>>

\* ModuleController::execute up to is_connected.
Call(r) ==
    /\ CallerFree
    /\ MayLock(Caller)
    /\ pc[r] = "idle"
    /\ pc' = IF state = "ok" THEN [pc EXCEPT ![r] = "started"]
             ELSE [pc EXCEPT ![r] = "called", ![Caller] = "finish"]
    /\ UNCHANGED <<setting, context, member, argument, state, session, owner, open, reached>>

---------------------------------------------------------------------------------
(* reconnect. *)

\* Mutants: the old connection is forgotten; and closed again when it is closed
\* already.
Forgotten == open
FinishedAgain == open - 1

\* PQfinish of the connection there is.
Finished == IF state = "null" THEN open ELSE open - 1

\* reconnect takes the mutex and closes what is open.
Finish(t) ==
    /\ pc[t] = "finish"
    /\ MayLock(t)
    /\ owner' = t
    /\ open' = Finished
    /\ state' = "null"
    /\ Goto(t, "read_hostname")
    /\ UNCHANGED <<setting, context, member, argument, session, reached>>

\* A parameter that refresh is just writing may be read before, after, or in
\* the middle of it.
ReadOf(old, new, step) ==
    IF pc[Caller] = step THEN {old, new, "garbage"} ELSE {old}

ReadHostname(t) ==
    /\ pc[t] = "read_hostname"
    /\ \E host \in ReadOf(member.hostname, context.hostname, "refresh_hostname") :
           argument' = [argument EXCEPT ![t] = host]
    /\ Goto(t, "login")
    /\ UNCHANGED <<setting, context, member, state, session, owner, open, reached>>

\* What PQsetdbLogin can come back with.
LoginResult ==
    {"ok"} \cup (IF "link" \in faults THEN {"bad"} ELSE {})
           \cup (IF "memory" \in faults THEN {"null"} ELSE {})

\* The caller starts its run's thread, whatever came of it.  A run that
\* reconnected inside BaseConnection::execute sends its statement if it can.
Login(t) ==
    /\ pc[t] = "login"
    /\ \E data \in ReadOf(member.database, context.database, "refresh_database"),
          result \in LoginResult :
        /\ state' = result
        /\ open' = IF result = "null" THEN open ELSE open + 1
        /\ session' = [hostname |-> argument[t], database |-> data]
        /\ \/ /\ t = Caller
              /\ pc' = [u \in Thread |-> IF u = Caller THEN "free"
                                         ELSE IF pc[u] = "called" THEN "started" ELSE pc[u]]
              /\ UNCHANGED reached
           \/ /\ t # Caller
              /\ Goto(t, "running")
              /\ reached' = IF result = "ok"
                            THEN [reached EXCEPT ![t] = @ \cup {session'}] ELSE reached
    /\ owner' = Nobody
    /\ UNCHANGED <<setting, context, member, argument>>

---------------------------------------------------------------------------------
(* A run, and the end. *)

\* ~BaseConnection runs with the last reference to it: the manager's, or that
\* of a run's thread.
Released(t) ==
    IF \A u \in Thread \ {t} : pc[u] \in {"idle", "done", "gone"}
          /\ (t # Caller => pc[Caller] = "gone")
    THEN /\ open' = Finished
         /\ state' = "null"
    ELSE UNCHANGED <<open, state>>

\* ControllerService::operator bool: without a good connection module_call
\* ends at once.
Serve(r) ==
    /\ pc[r] = "started"
    /\ MayLock(r)
    /\ \/ /\ state = "ok"
          /\ Goto(r, "running")
          /\ UNCHANGED <<open, state>>
       \/ /\ state # "ok"
          /\ Goto(r, "done")
          /\ Released(r)
    /\ UNCHANGED <<setting, context, member, argument, session, owner, reached>>

\* BaseConnection::execute.  A bad connection is handed to PQexec, which sends
\* nothing; only a null one is reopened.
Statement(r) ==
    /\ pc[r] = "running"
    /\ MayLock(r)
    /\ \/ /\ state = "ok"
          /\ reached' = [reached EXCEPT ![r] = @ \cup {session}]
          /\ UNCHANGED <<pc, owner>>
       \/ /\ state = "null"
          /\ owner' = r
          /\ Goto(r, "finish")
          /\ UNCHANGED reached
    /\ UNCHANGED <<setting, context, member, argument, state, session, open>>

\* module_call returns; its thread held a reference.
End(r) ==
    /\ pc[r] = "running"
    /\ Goto(r, "done")
    /\ Released(r)
    /\ UNCHANGED <<setting, context, member, argument, session, owner, reached>>

\* The PluginManager is destroyed; detached threads may still run.
Leave ==
    /\ CallerFree
    /\ Goto(Caller, "gone")
    /\ Released(Caller)
    /\ UNCHANGED <<setting, context, member, argument, session, owner, reached>>

\* The server or the network ends the session.
LinkBreaks ==
    /\ "link" \in faults
    /\ state = "ok"
    /\ state' = "bad"
    /\ UNCHANGED <<setting, pc, context, member, argument, session, owner, open, reached>>

AllEnded ==
    /\ pc[Caller] = "gone"
    /\ \A r \in Run : ~Active(r)

Stopped == AllEnded /\ UNCHANGED vars

Next ==
    \/ \E configuration \in Configurations : Load(configuration)
    \/ RefreshHostname
    \/ RefreshDatabase
    \/ \E r \in Run : Call(r) \/ Serve(r) \/ Statement(r) \/ End(r)
    \/ \E t \in Thread : Finish(t) \/ ReadHostname(t) \/ Login(t)
    \/ Leave
    \/ LinkBreaks
    \/ Stopped

Spec == Init /\ [][Next]_vars

---------------------------------------------------------------------------------
(* Properties. *)

\* A run finds _c null only if its caller does not wait for it and a login
\* gave nothing: otherwise none but the caller reconnects.
CallerReconnects == joined \/ "memory" \notin faults

\* The connection is logged in with the parameters of one configuration, not
\* with some of one and some of another, although refresh and reconnect share
\* no lock; unless a run reconnects while the caller loads.
WholeSession ==
    CallerReconnects /\ state # "null" => session \in Configurations \cup {Start}

\* Exactly one connection is open while _c is set, and none when the manager
\* and the threads it started have gone, whoever goes last.
NothingLeaks ==
    /\ open = (IF state = "null" THEN 0 ELSE 1)
    /\ AllEnded => state = "null"

\* If threads are joined, the statements of a run all go to one database, so
\* that the ids it reads with one and writes with the next mean the same.
OneDatabasePerRun ==
    joined => \A r \in Run : \A here, there \in reached[r] : here = there
=================================================================================
