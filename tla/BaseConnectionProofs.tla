-------------------------- MODULE BaseConnectionProofs --------------------------
(***************************************************************************)
(* Theorems about BaseConnection.  For any number of runs and any faults   *)
(* no connection leaks, whichever thread drops the last reference.  And    *)
(* refresh may do without the mutex as long as the caller joins its        *)
(* threads, or PQsetdbLogin never gives nullptr: then no thread but the    *)
(* caller's, which also runs refresh, ever reads the parameters.           *)
(***************************************************************************)
EXTENDS BaseConnection, TLAPS

USE DEF setting

Within == {"read_hostname", "login"}

\* The thread inside reconnect, and no other, holds the mutex, and it has closed
\* what there was; a run takes the mutex before it gets there.
MutexHeld ==
    \A t \in Thread :
        /\ pc[t] \in Within => owner = t /\ state = "null"
        /\ t # Caller /\ pc[t] = "finish" => owner = t
        /\ owner = t => pc[t] \in {"finish"} \cup Within

\* Threads are where threads of their kind can be.
Kinds ==
    /\ pc[Caller] \in CallerSteps
    /\ \A r \in Run : pc[r] \in RunSteps

LeakInv ==
    /\ TypeOK
    /\ Kinds
    /\ MutexHeld
    /\ NothingLeaks

---------------------------------------------------------------------------------

\* The caller is no run.
LEMMA Threads ==
    /\ Caller \in Thread /\ Caller \notin Run
    /\ Nobody \notin Thread
    /\ \A r \in Run : r \in Thread /\ r # Caller
    /\ \A t \in Thread : t # Caller => t \in Run
  BY ConnectionAssumption DEF Caller, Nobody, Thread

\* Setting one thread's pc leaves the others'.
LEMMA Moved ==
    ASSUME TypeOK, NEW t \in Thread, NEW step, Goto(t, step)
    PROVE  /\ pc'[t] = step
           /\ \A u \in Thread : u # t => pc'[u] = pc[u]
           /\ step \in CallerSteps \cup RunSteps => pc' \in [Thread -> CallerSteps \cup RunSteps]
  BY DEF Goto, TypeOK

\* Nothing is open at first.
LEMMA LeakInit == Init => LeakInv
  <1> SUFFICES ASSUME Init PROVE LeakInv
    OBVIOUS
  <1>1. TypeOK
    BY Threads, ConnectionAssumption
       DEF Init, TypeOK, Parameters, MaybeTorn, CallerSteps, RunSteps, Reconnecting
  <1>2. Kinds
    BY Threads DEF Init, Kinds, CallerSteps, RunSteps
  <1>3. MutexHeld
    BY Threads DEF Init, MutexHeld, Within
  <1>4. NothingLeaks
    BY DEF Init, NothingLeaks
  <1> QED
    BY <1>1, <1>2, <1>3, <1>4 DEF LeakInv

\* Steps of the caller that do not touch the connection.
LEMMA LeakParameters ==
    ASSUME LeakInv,
           \/ \E configuration \in Configurations : Load(configuration)
           \/ RefreshHostname
           \/ RefreshDatabase
    PROVE  LeakInv'
  <1>1. PICK step \in {"refresh_hostname", "refresh_database", "free"} : Goto(Caller, step)
    BY DEF Load, RefreshHostname, RefreshDatabase
  <1>2. /\ pc[Caller] \in {"free", "refresh_hostname", "refresh_database"}
        /\ UNCHANGED <<setting, argument, state, session, owner, open, reached>>
    BY DEF Load, RefreshHostname, RefreshDatabase, CallerFree
  <1>3. /\ pc'[Caller] = step /\ TypeOK
        /\ \A u \in Thread : u # Caller => pc'[u] = pc[u]
        /\ pc' \in [Thread -> CallerSteps \cup RunSteps]
    BY <1>1, Threads, Moved DEF LeakInv, CallerSteps
  <1>4. context' \in Parameters /\ member' \in Parameters
    BY <1>3, ConnectionAssumption DEF Load, RefreshHostname, RefreshDatabase, TypeOK, Parameters
  <1>5. TypeOK' /\ Kinds'
    BY <1>2, <1>3, <1>4, Threads DEF TypeOK, Kinds, LeakInv, CallerSteps
  <1>6. MutexHeld'
    BY <1>2, <1>3, Threads DEF MutexHeld, LeakInv, Within
  <1>7. NothingLeaks'
    BY <1>2, <1>3 DEF NothingLeaks, AllEnded, LeakInv
  <1> QED
    BY <1>5, <1>6, <1>7 DEF LeakInv

\* A call starts its run, or reconnects first.
LEMMA LeakCall ==
    ASSUME LeakInv, NEW r \in Run, Call(r)
    PROVE  LeakInv'
  <1>1. /\ pc[Caller] = "free" /\ pc[r] = "idle" /\ TypeOK /\ r # Caller
        /\ UNCHANGED <<setting, context, member, argument, state, session, owner, open, reached>>
    BY Threads DEF Call, CallerFree, LeakInv
  <1>2. /\ pc' \in [Thread -> CallerSteps \cup RunSteps]
        /\ pc'[Caller] \in {"free", "finish"}
        /\ pc'[r] \in {"started", "called"}
        /\ \A u \in Thread : u \notin {r, Caller} => pc'[u] = pc[u]
    BY <1>1, Threads DEF Call, TypeOK, CallerSteps, RunSteps, Reconnecting
  <1>3. TypeOK' /\ Kinds'
    BY <1>1, <1>2, Threads DEF TypeOK, Kinds, LeakInv, CallerSteps, RunSteps, Reconnecting
  <1>4. MutexHeld'
    BY <1>1, <1>2, Threads DEF MutexHeld, LeakInv, Within
  <1>5. NothingLeaks'
    BY <1>1, <1>2 DEF NothingLeaks, AllEnded, LeakInv
  <1> QED
    BY <1>3, <1>4, <1>5 DEF LeakInv

\* The old connection is closed.
LEMMA LeakFinish ==
    ASSUME LeakInv, NEW t \in Thread, Finish(t)
    PROVE  LeakInv'
  <1>1. /\ TypeOK /\ pc[t] = "finish" /\ owner \in {Nobody, t} /\ Goto(t, "read_hostname")
        /\ owner' = t /\ state' = "null" /\ open' = Finished
        /\ UNCHANGED <<setting, context, member, argument, session, reached>>
    BY DEF Finish, MayLock, LeakInv
  <1>2. /\ pc'[t] = "read_hostname" /\ \A u \in Thread : u # t => pc'[u] = pc[u]
        /\ pc' \in [Thread -> CallerSteps \cup RunSteps]
    BY <1>1, Moved DEF CallerSteps, Reconnecting
  <1>3. open' = 0
    BY <1>1 DEF LeakInv, NothingLeaks, Finished
  <1>4. TypeOK' /\ Kinds'
    BY <1>1, <1>2, <1>3, Threads DEF TypeOK, Kinds, LeakInv, CallerSteps, RunSteps, Reconnecting
  <1>5. \A u \in Thread : u # t => pc[u] \notin Within /\ (u # Caller => pc[u] # "finish")
    BY <1>1, Threads DEF MutexHeld, LeakInv
  <1>6. MutexHeld'
    BY <1>1, <1>2, <1>5 DEF MutexHeld, Within
  <1>7. NothingLeaks'
    BY <1>1, <1>3 DEF NothingLeaks
  <1> QED
    BY <1>4, <1>6, <1>7 DEF LeakInv

\* The parameters are read.
LEMMA LeakReadHostname ==
    ASSUME LeakInv, NEW t \in Thread, ReadHostname(t)
    PROVE  LeakInv'
  <1>1. /\ TypeOK /\ pc[t] = "read_hostname" /\ Goto(t, "login")
        /\ UNCHANGED <<setting, context, member, state, session, owner, open, reached>>
    BY DEF ReadHostname, LeakInv
  <1>2. /\ pc'[t] = "login" /\ \A u \in Thread : u # t => pc'[u] = pc[u]
        /\ pc' \in [Thread -> CallerSteps \cup RunSteps]
    BY <1>1, Moved DEF CallerSteps, Reconnecting
  <1>3. argument' \in [Thread -> MaybeTorn(Hostname)]
    <2>1. ReadOf(member.hostname, context.hostname, "refresh_hostname") \subseteq MaybeTorn(Hostname)
      BY <1>1 DEF TypeOK, Parameters, ReadOf, MaybeTorn
    <2> QED
      BY <1>1, <2>1 DEF ReadHostname, TypeOK
  <1>4. TypeOK' /\ Kinds'
    BY <1>1, <1>2, <1>3, Threads DEF TypeOK, Kinds, LeakInv, CallerSteps, RunSteps, Reconnecting
  <1>5. MutexHeld'
    BY <1>1, <1>2 DEF MutexHeld, LeakInv, Within
  <1>6. NothingLeaks'
    BY <1>1, <1>2, Threads DEF NothingLeaks, AllEnded, Active, LeakInv
  <1> QED
    BY <1>4, <1>5, <1>6 DEF LeakInv

\* The thread that logs in holds the mutex, and nothing else is open.
LEMMA LeakLogin ==
    ASSUME LeakInv, NEW t \in Thread, Login(t)
    PROVE  LeakInv'
  <1>1. /\ TypeOK /\ pc[t] = "login" /\ owner = t /\ state = "null" /\ open = 0
        /\ UNCHANGED <<setting, context, member, argument>> /\ owner' = Nobody
    BY DEF Login, LeakInv, MutexHeld, Within, NothingLeaks
  <1>2. PICK data \in ReadOf(member.database, context.database, "refresh_database"),
             answer \in LoginResult :
          /\ state' = answer
          /\ open' = IF answer = "null" THEN open ELSE open + 1
          /\ session' = [hostname |-> argument[t], database |-> data]
          /\ t # Caller => reached' = reached \/
                           reached' = [reached EXCEPT ![t] = @ \cup {session'}]
          /\ t = Caller => reached' = reached
    BY DEF Login
  <1>3. state' \in {"null", "ok", "bad"} /\ open' = (IF state' = "null" THEN 0 ELSE 1)
    BY <1>1, <1>2 DEF LoginResult
  <1>4. session' \in [hostname : MaybeTorn(Hostname), database : MaybeTorn(Database)]
    <2>1. data \in MaybeTorn(Database)
      BY <1>1, <1>2 DEF ReadOf, TypeOK, Parameters, MaybeTorn
    <2>2. argument[t] \in MaybeTorn(Hostname)
      BY <1>1 DEF TypeOK
    <2> QED
      BY <1>2, <2>1, <2>2
  <1>5. reached' \in [Run -> SUBSET [hostname : MaybeTorn(Hostname), database : MaybeTorn(Database)]]
    BY <1>1, <1>2, <1>4, Threads DEF TypeOK
  <1>6. /\ pc' \in [Thread -> CallerSteps \cup RunSteps]
        /\ pc'[t] \in {"free", "running"} /\ (t = Caller <=> pc'[t] = "free")
        /\ \A u \in Thread : u # t => pc'[u] = pc[u] \/ (u # Caller /\ pc'[u] = "started")
    <2>1. CASE t = Caller
      BY <1>1, <2>1, Threads DEF Login, TypeOK, CallerSteps, RunSteps, Goto
    <2>2. CASE t # Caller
      BY <1>1, <2>2, Threads DEF Login, TypeOK, CallerSteps, RunSteps, Goto
    <2> QED
      BY <2>1, <2>2
  <1>7. TypeOK'
    BY <1>1, <1>3, <1>4, <1>5, <1>6, Threads DEF TypeOK
  <1>8. Kinds'
    BY <1>6, Threads DEF Kinds, LeakInv, CallerSteps, RunSteps
  <1>9. MutexHeld'
    <2>1. \A u \in Thread : u # t => pc[u] \notin Within /\ (u # Caller => pc[u] # "finish")
      BY <1>1, Threads DEF MutexHeld, LeakInv
    <2> QED
      BY <1>1, <1>6, <2>1, Threads DEF MutexHeld, Within
  <1>10. NothingLeaks'
    <2>1. ~AllEnded'
      <3>1. CASE t = Caller
        BY <1>6, <3>1 DEF AllEnded
      <3>2. CASE t # Caller
        BY <1>6, <3>2, Threads DEF AllEnded, Active
      <3> QED
        BY <3>1, <3>2
    <2> QED
      BY <1>3, <2>1 DEF NothingLeaks
  <1> QED
    BY <1>7, <1>8, <1>9, <1>10 DEF LeakInv

\* A thread that goes, and takes the connection along if it is the last.
LEMMA LeakRelease ==
    ASSUME LeakInv, NEW t \in Thread, NEW step, Goto(t, step), Released(t),
           t = Caller => step = "gone", t # Caller => step = "done",
           pc[t] \notin {"finish"} \cup Within,
           UNCHANGED <<setting, context, member, argument, session, owner, reached>>
    PROVE  LeakInv'
  <1>1. /\ TypeOK /\ pc'[t] = step /\ \A u \in Thread : u # t => pc'[u] = pc[u]
        /\ pc' \in [Thread -> CallerSteps \cup RunSteps]
    BY Moved DEF LeakInv, CallerSteps, RunSteps
  <1>2. \/ /\ state' = "null" /\ open' = 0
        \/ /\ UNCHANGED <<open, state>>
           /\ ~(\A u \in Thread \ {t} : pc[u] \in {"idle", "done", "gone"}
                   /\ (t # Caller => pc[Caller] = "gone"))
    BY DEF Released, Finished, LeakInv, NothingLeaks
  <1>3. TypeOK' /\ Kinds'
    BY <1>1, <1>2, Threads DEF TypeOK, Kinds, LeakInv, CallerSteps, RunSteps
  <1>4. MutexHeld'
    BY <1>1, <1>2, Threads DEF MutexHeld, LeakInv, Within
  <1>5. open' = (IF state' = "null" THEN 0 ELSE 1)
    BY <1>2 DEF LeakInv, NothingLeaks
  <1>6. ASSUME AllEnded' PROVE state' = "null"
    <2>1. pc'[Caller] = "gone" /\ \A r \in Run : pc'[r] \in {"idle", "done"}
      BY <1>6 DEF AllEnded, Active
    <2>2. \A u \in Thread \ {t} : pc[u] \in {"idle", "done", "gone"}
      BY <1>1, <2>1, Threads
    <2>3. t # Caller => pc[Caller] = "gone"
      BY <1>1, <2>1, Threads
    <2> QED
      BY <1>2, <2>2, <2>3
  <1>7. NothingLeaks'
    BY <1>5, <1>6 DEF NothingLeaks
  <1> QED
    BY <1>3, <1>4, <1>7 DEF LeakInv

\* A run that goes on, without touching what is open.
LEMMA LeakRun ==
    ASSUME LeakInv, NEW r \in Run, pc[r] \in {"started", "running"}, owner = Nobody,
           NEW step \in {"running", "finish"},
           Goto(r, step) \/ (step = "running" /\ pc[r] = "running" /\ UNCHANGED pc),
           owner' = IF step = "finish" THEN r ELSE owner,
           reached' \in [Run -> SUBSET [hostname : MaybeTorn(Hostname), database : MaybeTorn(Database)]],
           UNCHANGED <<setting, context, member, argument, state, session, open>>
    PROVE  LeakInv'
  <1>1. /\ TypeOK /\ pc'[r] = step /\ \A u \in Thread : u # r => pc'[u] = pc[u]
        /\ pc' \in [Thread -> CallerSteps \cup RunSteps]
    BY Moved, Threads DEF LeakInv, CallerSteps, RunSteps, Reconnecting, TypeOK
  <1>2. TypeOK' /\ Kinds'
    BY <1>1, Threads DEF TypeOK, Kinds, LeakInv, CallerSteps, RunSteps, Reconnecting
  <1>3. MutexHeld'
    BY <1>1, Threads DEF MutexHeld, LeakInv, Within
  <1>4. NothingLeaks'
    BY <1>1, Threads DEF NothingLeaks, LeakInv, AllEnded, Active
  <1> QED
    BY <1>2, <1>3, <1>4 DEF LeakInv

\* Every step keeps count of what is open.
LEMMA LeakNext == LeakInv /\ [Next]_vars => LeakInv'
  <1> SUFFICES ASSUME LeakInv, [Next]_vars PROVE LeakInv'
    OBVIOUS
  <1>1. ASSUME NEW r \in Run, Serve(r) PROVE LeakInv'
    <2>1. pc[r] = "started" /\ owner = Nobody
      BY <1>1, Threads DEF Serve, MayLock, LeakInv, MutexHeld, Within, TypeOK
    <2>2. CASE Goto(r, "running") /\ UNCHANGED <<open, state>>
      BY <1>1, <2>1, <2>2, LeakRun DEF Serve, LeakInv, TypeOK
    <2>3. CASE Goto(r, "done") /\ Released(r)
      BY <1>1, <2>1, <2>3, LeakRelease, Threads DEF Serve, Within
    <2> QED
      BY <1>1, <2>2, <2>3 DEF Serve
  <1>2. ASSUME NEW r \in Run, Statement(r) PROVE LeakInv'
    <2>1. pc[r] = "running" /\ owner = Nobody
      BY <1>2, Threads DEF Statement, MayLock, LeakInv, MutexHeld, Within, TypeOK
    <2>2. reached' \in [Run -> SUBSET [hostname : MaybeTorn(Hostname), database : MaybeTorn(Database)]]
      BY <1>2 DEF Statement, LeakInv, TypeOK
    <2> QED
      BY <1>2, <2>1, <2>2, LeakRun DEF Statement
  <1>3. ASSUME NEW r \in Run, End(r) PROVE LeakInv'
    BY <1>3, LeakRelease, Threads DEF End, Within
  <1>4. CASE Leave
    BY <1>4, LeakRelease, Threads DEF Leave, CallerFree, Within
  <1>5. CASE LinkBreaks
    <2>1. /\ state = "ok" /\ state' = "bad"
          /\ UNCHANGED <<setting, pc, context, member, argument, session, owner, open, reached>>
      BY <1>5 DEF LinkBreaks
    <2>2. TypeOK' /\ Kinds'
      BY <2>1 DEF LeakInv, TypeOK, Kinds
    <2>3. MutexHeld' /\ NothingLeaks'
      BY <2>1 DEF LeakInv, MutexHeld, NothingLeaks, AllEnded, Active
    <2> QED
      BY <2>2, <2>3 DEF LeakInv
  <1>6. CASE UNCHANGED vars
    BY <1>6 DEF vars, LeakInv, TypeOK, Kinds, MutexHeld, NothingLeaks, AllEnded, Active
  <1> QED
    BY <1>1, <1>2, <1>3, <1>4, <1>5, <1>6, LeakParameters, LeakCall, LeakFinish,
       LeakReadHostname, LeakLogin DEF Next, Stopped

\* Exactly what is used is open, and nothing at the end, whichever of the
\* manager and its threads goes last; and every variable keeps its type.
THEOREM NothingLeaksEver == Spec => [](TypeOK /\ NothingLeaks)
  <1>1. LeakInv => TypeOK /\ NothingLeaks
    BY DEF LeakInv
  <1> QED
    BY <1>1, LeakInit, LeakNext, PTL DEF Spec

---------------------------------------------------------------------------------
(* Why refresh may do without the mutex. *)

\* The parameters of the login belong together.
LoggedInWhole == state # "null" => session \in Configurations \cup {Start}

\* What the caller knows of the parameters, step by step.
ParametersCopied ==
    /\ context \in Configurations \cup {Start}
    /\ pc[Caller] \notin {"refresh_hostname", "refresh_database"} => member = context
    /\ pc[Caller] = "refresh_database" => member.hostname = context.hostname
    /\ pc[Caller] = "login" => argument[Caller] = context.hostname

\* No run reconnects: it finds _c null only while the caller holds the mutex,
\* and if it is joined not even then.
NoRunReconnects ==
    \A r \in Run :
        /\ pc[r] \notin Reconnecting
        /\ pc[r] = "running" /\ state = "null" => owner = Caller
        /\ joined /\ pc[Caller] \in Reconnecting =>
               pc[r] \in {"idle", "called", "done"}

SessionInv ==
    /\ LeakInv
    /\ ParametersCopied
    /\ NoRunReconnects
    /\ LoggedInWhole

\* Nothing is logged in at first.
LEMMA SessionInit == Init => SessionInv
  <1> SUFFICES ASSUME Init PROVE SessionInv
    OBVIOUS
  <1>1. LeakInv
    BY LeakInit
  <1>2. ParametersCopied /\ LoggedInWhole
    BY Threads DEF Init, ParametersCopied, LoggedInWhole
  <1>3. NoRunReconnects
    BY Threads DEF Init, NoRunReconnects, Reconnecting
  <1> QED
    BY <1>1, <1>2, <1>3 DEF SessionInv

\* A configuration is loaded, one parameter after the other.
LEMMA SessionParameters ==
    ASSUME SessionInv, LeakInv',
           \/ \E configuration \in Configurations : Load(configuration)
           \/ RefreshHostname
           \/ RefreshDatabase
    PROVE  SessionInv'
  <1>1. PICK step \in {"refresh_hostname", "refresh_database", "free"} : Goto(Caller, step)
    BY DEF Load, RefreshHostname, RefreshDatabase
  <1>2. /\ TypeOK /\ pc[Caller] \in {"free", "refresh_hostname", "refresh_database"}
        /\ UNCHANGED <<setting, argument, state, session, owner, open, reached>>
    BY DEF Load, RefreshHostname, RefreshDatabase, CallerFree, SessionInv, LeakInv
  <1>3. /\ pc'[Caller] = step
        /\ \A u \in Thread : u # Caller => pc'[u] = pc[u]
    BY <1>1, <1>2, Threads, Moved
  <1>4. ParametersCopied'
    <2>1. CASE \E configuration \in Configurations : Load(configuration)
      BY <1>1, <1>2, <1>3, <2>1, Threads, Moved DEF Load, ParametersCopied, SessionInv, CallerSteps
    <2>2. CASE RefreshHostname
      BY <1>1, <1>2, <1>3, <2>2, Threads, Moved
         DEF RefreshHostname, ParametersCopied, SessionInv, CallerSteps
    <2>3. CASE RefreshDatabase
      <3>1. pc'[Caller] = "free" /\ context' = context
        BY <1>2, <2>3, Threads, Moved DEF RefreshDatabase, CallerSteps
      <3>2. member' = context
        BY <1>2, <2>3 DEF RefreshDatabase, ParametersCopied, SessionInv, TypeOK, Parameters
      <3> QED
        BY <3>1, <3>2 DEF ParametersCopied, SessionInv
    <2> QED
      BY <2>1, <2>2, <2>3
  <1>5. NoRunReconnects'
    BY <1>2, <1>3, Threads DEF NoRunReconnects, SessionInv, Reconnecting
  <1>6. LoggedInWhole'
    BY <1>2 DEF LoggedInWhole, SessionInv
  <1> QED
    BY <1>4, <1>5, <1>6 DEF SessionInv

\* A call that reconnects does so before its run starts.
LEMMA SessionCall ==
    ASSUME SessionInv, LeakInv', NEW r \in Run, Call(r)
    PROVE  SessionInv'
  <1>1. /\ pc[Caller] = "free" /\ pc[r] = "idle" /\ TypeOK /\ r # Caller
        /\ joined => \A q \in Run : pc[q] \in {"idle", "done"}
        /\ UNCHANGED <<setting, context, member, argument, state, session, owner, open, reached>>
    BY Threads DEF Call, CallerFree, Active, SessionInv, LeakInv
  <1>2. /\ pc'[Caller] \in {"free", "finish"}
        /\ pc'[r] = (IF state = "ok" THEN "started" ELSE "called")
        /\ pc'[Caller] = "finish" => state # "ok"
        /\ \A u \in Thread : u \notin {r, Caller} => pc'[u] = pc[u]
    BY <1>1, Threads DEF Call, TypeOK
  <1>3. ParametersCopied'
    BY <1>1, <1>2 DEF ParametersCopied, SessionInv
  <1>4. NoRunReconnects'
    BY <1>1, <1>2, Threads DEF NoRunReconnects, SessionInv, Reconnecting
  <1>5. LoggedInWhole'
    BY <1>1 DEF LoggedInWhole, SessionInv
  <1> QED
    BY <1>3, <1>4, <1>5 DEF SessionInv

\* The steps of reconnect are the caller's, and it reads what refresh wrote.
LEMMA SessionReconnect ==
    ASSUME CallerReconnects, SessionInv, LeakInv', NEW t \in Thread,
           Finish(t) \/ ReadHostname(t) \/ Login(t)
    PROVE  SessionInv'
  <1>1. TypeOK /\ t = Caller /\ pc[Caller] \in Reconnecting /\ member = context /\ context' = context
        /\ member' = member
    BY Threads DEF Finish, ReadHostname, Login, NoRunReconnects, ParametersCopied, SessionInv,
                   LeakInv, Reconnecting
  <1>2. CASE Finish(t)
    <2>1. /\ pc'[Caller] = "read_hostname" /\ \A u \in Thread : u # Caller => pc'[u] = pc[u]
          /\ owner' = Caller /\ state' = "null" /\ joined' = joined
      BY <1>1, <1>2, Moved DEF Finish
    <2> QED
      BY <1>1, <2>1, Threads
         DEF SessionInv, ParametersCopied, NoRunReconnects, LoggedInWhole, Reconnecting
  <1>3. CASE ReadHostname(t)
    <2>1. /\ pc[Caller] = "read_hostname" /\ pc'[Caller] = "login"
          /\ \A u \in Thread : u # Caller => pc'[u] = pc[u]
          /\ UNCHANGED <<setting, owner, state, session>>
      BY <1>1, <1>3, Moved DEF ReadHostname
    <2>2. argument'[Caller] = context.hostname
      BY <1>1, <1>3, <2>1 DEF ReadHostname, ReadOf, TypeOK
    <2> QED
      BY <1>1, <2>1, <2>2, Threads
         DEF SessionInv, ParametersCopied, NoRunReconnects, LoggedInWhole, Reconnecting
  <1>4. CASE Login(t)
    <2>1. /\ pc[Caller] = "login" /\ pc'[Caller] = "free" /\ state' \in LoginResult
          /\ \A r \in Run : pc'[r] = (IF pc[r] = "called" THEN "started" ELSE pc[r])
      BY <1>1, <1>4, Threads DEF Login
    <2>2. session' = context
      <3>1. session' = [hostname |-> argument[Caller], database |-> member.database]
        BY <1>1, <1>4, <2>1 DEF Login, ReadOf
      <3>2. argument[Caller] = context.hostname
        BY <2>1 DEF SessionInv, ParametersCopied
      <3> QED
        BY <1>1, <3>1, <3>2 DEF TypeOK, Parameters
    <2>3. \A r \in Run : pc'[r] = "running" => state' # "null"
      BY <1>1, <2>1 DEF CallerReconnects, LoginResult, SessionInv, NoRunReconnects
    <2>4. ParametersCopied' /\ LoggedInWhole'
      BY <1>1, <2>1, <2>2 DEF SessionInv, ParametersCopied, LoggedInWhole
    <2>5. NoRunReconnects'
      BY <2>1, <2>3 DEF SessionInv, NoRunReconnects, Reconnecting
    <2> QED
      BY <2>4, <2>5 DEF SessionInv
  <1> QED
    BY <1>2, <1>3, <1>4

\* A run that starts, sends a statement, or ends; the manager that goes.
LEMMA SessionRun ==
    ASSUME CallerReconnects, SessionInv, LeakInv',
           (\E r \in Run : Serve(r) \/ Statement(r) \/ End(r)) \/ Leave
    PROVE  SessionInv'
  <1>1. PICK t \in Thread, step \in {"running", "done", "gone"} :
            /\ Goto(t, step) \/ UNCHANGED pc
            /\ t = Caller => step = "gone" /\ pc[Caller] = "free"
            /\ t # Caller => step \in {"running", "done"}
            /\ UNCHANGED <<setting, context, member, argument, session, owner>>
            /\ state' = state \/ (Released(t) /\ state' = "null" /\ Goto(t, step) /\ step # "running")
            /\ Goto(t, step) /\ step = "running" => pc[t] = "started" /\ state' = "ok"
    <2>1. ASSUME NEW r \in Run, Statement(r)
          PROVE  UNCHANGED <<setting, pc, context, member, argument, session, owner, state>>
      <3>1. state = "ok"
        BY <2>1, Threads DEF Statement, MayLock, NoRunReconnects, SessionInv
      <3> QED
        BY <2>1, <3>1 DEF Statement
    <2>2. ASSUME NEW r \in Run, Serve(r) \/ End(r)
          PROVE  /\ UNCHANGED <<setting, context, member, argument, session, owner>>
                 /\ \/ Goto(r, "running") /\ pc[r] = "started" /\ state' = "ok" /\ state = "ok"
                    \/ Goto(r, "done") /\ Released(r)
      BY <2>2 DEF Serve, End
    <2>3. \A u \in Thread : Released(u) => state' = "null" \/ state' = state
      BY DEF Released
    <2>4. CASE Leave
      BY <2>3, <2>4, Threads DEF Leave, CallerFree
    <2>5. CASE \E r \in Run : Statement(r)
      BY <2>1, <2>5, Threads
    <2>6. CASE \E r \in Run : Serve(r) \/ End(r)
      BY <2>2, <2>3, <2>6, Threads
    <2> QED
      BY <2>4, <2>5, <2>6
  <1>2. TypeOK /\ LeakInv
    BY DEF SessionInv, LeakInv
  <1>3. /\ \A u \in Thread : u # t => pc'[u] = pc[u]
        /\ pc'[t] \in {pc[t], step}
        /\ Goto(t, step) => pc'[t] = step
    BY <1>1, <1>2, Moved
  <1>4. ParametersCopied' /\ LoggedInWhole'
    <2>1. pc'[Caller] = pc[Caller] \/ (pc'[Caller] = "gone" /\ pc[Caller] = "free")
      <3>1. t = Caller => step = "gone" /\ pc[Caller] = "free"
        BY <1>1
      <3> QED
        BY <1>3, <3>1, Threads
    <2>2. LoggedInWhole'
      BY <1>1 DEF SessionInv, LoggedInWhole
    <2>3. ParametersCopied'
      BY <1>1, <2>1 DEF SessionInv, ParametersCopied
    <2> QED
      BY <2>2, <2>3
  <1>5. NoRunReconnects'
    <2> SUFFICES ASSUME NEW r \in Run
                 PROVE  /\ pc'[r] \notin Reconnecting
                        /\ pc'[r] = "running" /\ state' = "null" => owner' = Caller
                        /\ joined' /\ pc'[Caller] \in Reconnecting =>
                               pc'[r] \in {"idle", "called", "done"}
      BY DEF NoRunReconnects
    <2>1. /\ pc[r] \notin Reconnecting
          /\ pc[r] = "running" /\ state = "null" => owner = Caller
          /\ joined /\ pc[Caller] \in Reconnecting => pc[r] \in {"idle", "called", "done"}
      BY DEF SessionInv, NoRunReconnects
    <2>2. pc'[r] \notin Reconnecting
      BY <1>1, <1>3, <2>1, Threads DEF Reconnecting
    <2>3. ASSUME pc'[r] = "running", state' = "null" PROVE owner' = Caller
      <3>1. CASE state' = state
        BY <1>1, <1>3, <2>1, <2>3, <3>1, Threads
      <3>2. CASE Released(t) /\ state' # state
        BY <1>1, <1>3, <2>3, <3>2, Threads DEF Released
      <3> QED
        BY <1>1, <3>1, <3>2
    <2>4. ASSUME joined', pc'[Caller] \in Reconnecting
          PROVE  pc'[r] \in {"idle", "called", "done"}
      <3>1. pc[Caller] \in Reconnecting
        BY <1>1, <1>3, <2>4, Threads DEF Reconnecting
      <3>4. joined' = joined
        BY <1>1
      <3>5. joined
        BY <2>4, <3>4, Zenon
      <3>2. pc[r] \in {"idle", "called", "done"}
        BY <2>1, <3>1, <3>5
      <3>3. CASE step = "running" /\ r = t /\ Goto(t, step)
        BY <1>1, <3>1, <3>2, <3>3, <2>4, Threads DEF SessionInv
      <3> QED
        BY <1>1, <1>3, <3>2, <3>3, Threads
    <2> QED
      BY <2>2, <2>3, <2>4
  <1> QED
    BY <1>4, <1>5 DEF SessionInv

\* No step changes the build or the faults.
LEMMA SettingNext == [Next]_vars => UNCHANGED setting
  BY DEF Next, vars, Load, RefreshHostname, RefreshDatabase, Call, Serve, Statement, End, Finish,
         ReadHostname, Login, Leave, LinkBreaks, Stopped

\* Every step keeps what the caller knows.
LEMMA SessionNext == CallerReconnects /\ SessionInv /\ [Next]_vars => SessionInv'
  <1> SUFFICES ASSUME CallerReconnects, SessionInv, [Next]_vars PROVE SessionInv'
    OBVIOUS
  <1>1. LeakInv'
    BY LeakNext DEF SessionInv
  <1>2. CASE LinkBreaks
    BY <1>1, <1>2 DEF LinkBreaks, SessionInv, ParametersCopied, NoRunReconnects, LoggedInWhole
  <1>3. CASE UNCHANGED vars
    BY <1>1, <1>3 DEF vars, SessionInv, ParametersCopied, NoRunReconnects, LoggedInWhole
  <1> QED
    BY <1>1, <1>2, <1>3, SessionParameters, SessionCall, SessionReconnect, SessionRun
       DEF Next, Stopped

\* The connection is logged in with the parameters of one configuration, if
\* the caller joins its threads or a login always gives something.
THEOREM SessionIsWhole == Spec => []WholeSession
  <1> DEFINE Inv == LeakInv /\ (CallerReconnects => SessionInv)
  <1>1. Inv => WholeSession
    BY DEF SessionInv, LoggedInWhole, WholeSession
  <1>2. Init => Inv
    BY LeakInit, SessionInit
  <1>3. Inv /\ [Next]_vars => Inv'
    BY LeakNext, SessionNext, SettingNext DEF CallerReconnects
  <1> QED
    BY <1>1, <1>2, <1>3, PTL DEF Spec

---------------------------------------------------------------------------------
(* One database for each run. *)

\* With a joined thread one run is active at a time, and while it is the
\* caller loads nothing; it starts with no statement sent.
OneRunAtATime ==
    /\ \A r, q \in Run : Active(r) /\ Active(q) => r = q
    /\ \A r \in Run : Active(r) => pc[Caller] \in {"free"} \cup Reconnecting
    /\ \A r \in Run : pc[r] \in {"idle", "called", "started"} => reached[r] = {}
    /\ \A r \in Run : pc[r] = "running" => reached[r] \subseteq {session}

RunsAgree == \A r \in Run : \A here, there \in reached[r] : here = there

JoinedInv ==
    /\ SessionInv
    /\ OneRunAtATime
    /\ RunsAgree

\* What the run's statements reach is the one session there was meanwhile.
LEMMA JoinedNext == joined /\ JoinedInv /\ [Next]_vars => JoinedInv'
  <1> SUFFICES ASSUME joined, JoinedInv, [Next]_vars PROVE JoinedInv'
    OBVIOUS
  <1>1. /\ SessionInv' /\ TypeOK /\ TypeOK' /\ CallerReconnects
        /\ \A r \in Run : pc[r] \notin Reconnecting /\ pc'[r] \notin Reconnecting
        /\ \A r \in Run : pc[Caller] \in Reconnecting => pc[r] \in {"idle", "called", "done"}
    BY SessionNext DEF JoinedInv, CallerReconnects, SessionInv, LeakInv, NoRunReconnects
  <1> SUFFICES OneRunAtATime' /\ RunsAgree'
    BY <1>1 DEF JoinedInv
  <1>2. ASSUME UNCHANGED <<setting, session, reached>>,
               \/ /\ \A r \in Run : ~Active(r) /\ pc'[r] = pc[r]
               \/ /\ pc'[Caller] \in {"free"} \cup Reconnecting
                  /\ \E q \in Run : \A r \in Run : r # q => ~Active(r) /\ pc'[r] = pc[r]
                  /\ \A r \in Run : \/ pc'[r] = pc[r] \/ pc'[r] = "done"
                                      \/ (pc[r] = "idle" /\ pc'[r] \in {"called", "started"})
                                      \/ (pc[r] \in {"called", "started"} /\ pc'[r] = "started")
                                      \/ (pc[r] = "started" /\ pc'[r] = "running")
        PROVE  OneRunAtATime' /\ RunsAgree'
    <2>1. RunsAgree'
      BY <1>2 DEF JoinedInv, RunsAgree
    <2>2. session' = session /\ reached' = reached
      BY <1>2
    <2>3. CASE \A r \in Run : ~Active(r) /\ pc'[r] = pc[r]
      <3>1. \A r \in Run : pc'[r] = pc[r] /\ pc'[r] \in {"idle", "done"}
        BY <2>3 DEF Active
      <3>2. \A r \in Run : pc'[r] = "idle" => reached'[r] = {}
        BY <2>2, <3>1 DEF JoinedInv, OneRunAtATime
      <3>3. /\ \A r, q \in Run : Active(r)' /\ Active(q)' => r = q
            /\ \A r \in Run : Active(r)' => pc'[Caller] \in {"free"} \cup Reconnecting
        BY <3>1 DEF Active
      <3> QED
        BY <2>1, <3>1, <3>2, <3>3 DEF OneRunAtATime
    <2>4. CASE /\ pc'[Caller] \in {"free"} \cup Reconnecting
               /\ \E q \in Run : \A r \in Run : r # q => ~Active(r) /\ pc'[r] = pc[r]
               /\ \A r \in Run : \/ pc'[r] = pc[r] \/ pc'[r] = "done"
                                   \/ (pc[r] = "idle" /\ pc'[r] \in {"called", "started"})
                                   \/ (pc[r] \in {"called", "started"} /\ pc'[r] = "started")
                                   \/ (pc[r] = "started" /\ pc'[r] = "running")
      <3>1. \A r, q \in Run : Active(r)' /\ Active(q)' => r = q
        BY <2>4 DEF Active
      <3>2. \A r \in Run : /\ pc'[r] \in {"idle", "called", "started"} => reached'[r] = {}
                           /\ pc'[r] = "running" => reached'[r] \subseteq {session'}
        BY <2>2, <2>4 DEF JoinedInv, OneRunAtATime
      <3> QED
        BY <2>1, <2>4, <3>1, <3>2 DEF OneRunAtATime
    <2> QED
      BY <1>2, <2>1, <2>3, <2>4
  <1>3. ASSUME \/ (\E configuration \in Configurations : Load(configuration))
               \/ RefreshHostname \/ RefreshDatabase \/ Leave
        PROVE  OneRunAtATime' /\ RunsAgree'
    <2>1. PICK step : Goto(Caller, step)
      BY <1>3 DEF Load, RefreshHostname, RefreshDatabase, Leave
    <2>2. \A r \in Run : pc'[r] = pc[r]
      BY <1>1, <2>1, Threads, Moved
    <2>3. \A r \in Run : ~Active(r)
      BY <1>3 DEF Load, RefreshHostname, RefreshDatabase, Leave, CallerFree, JoinedInv,
                  OneRunAtATime, Reconnecting
    <2> QED
      BY <1>2, <1>3, <2>2, <2>3 DEF Load, RefreshHostname, RefreshDatabase, Leave
  <1>4. ASSUME NEW q \in Run, Call(q)
        PROVE  OneRunAtATime' /\ RunsAgree'
    <2>1. /\ pc'[Caller] \in {"free", "finish"} /\ pc[q] = "idle" /\ pc'[q] \in {"called", "started"}
          /\ \A r \in Run : r # q => pc'[r] = pc[r]
          /\ \A r \in Run : ~Active(r)
      BY <1>1, <1>4, Threads DEF Call, CallerFree, TypeOK
    <2> QED
      BY <1>2, <1>4, <2>1 DEF Call, Reconnecting
  <1>5. ASSUME NEW t \in Thread, Finish(t) \/ ReadHostname(t)
        PROVE  OneRunAtATime' /\ RunsAgree'
    <2>1. t = Caller /\ pc[Caller] \in Reconnecting
      BY <1>1, <1>5, Threads DEF Finish, ReadHostname, Reconnecting
    <2>2. pc'[Caller] \in Reconnecting /\ \A r \in Run : pc'[r] = pc[r]
      BY <1>1, <1>5, <2>1, Threads, Moved DEF Finish, ReadHostname, Reconnecting
    <2> QED
      BY <1>5, <2>2 DEF Finish, ReadHostname, JoinedInv, OneRunAtATime, RunsAgree, Active
  <1>6. ASSUME NEW t \in Thread, Login(t)
        PROVE  OneRunAtATime' /\ RunsAgree'
    <2>1. t = Caller /\ pc[Caller] \in Reconnecting
      BY <1>1, <1>6, Threads DEF Login, Reconnecting
    <2>2. /\ pc'[Caller] = "free" /\ reached' = reached
          /\ \A r \in Run : pc'[r] = (IF pc[r] = "called" THEN "started" ELSE pc[r])
      BY <1>6, <2>1, Threads DEF Login
    <2>3. \A r \in Run : pc[r] # "running" /\ pc'[r] # "running"
      BY <1>1, <2>1, <2>2
    <2> QED
      BY <2>2, <2>3 DEF JoinedInv, OneRunAtATime, RunsAgree, Active
  <1>7. ASSUME NEW q \in Run, Serve(q) \/ End(q)
        PROVE  OneRunAtATime' /\ RunsAgree'
    <2>1. /\ UNCHANGED <<setting, session, reached>>
          /\ \/ pc[q] = "started" /\ Goto(q, "running")
             \/ pc[q] \in {"started", "running"} /\ Goto(q, "done")
      BY <1>7 DEF Serve, End
    <2>2. /\ (pc[q] = "started" /\ pc'[q] = "running") \/ pc'[q] = "done"
          /\ \A u \in Thread : u # q => pc'[u] = pc[u]
      BY <1>1, <2>1, Threads, Moved
    <2>3. pc'[Caller] \in {"free"} \cup Reconnecting /\ \A r \in Run : r # q => ~Active(r)
      BY <2>1, <2>2, Threads DEF JoinedInv, OneRunAtATime, Active
    <2>4. \A r \in Run : r # q => pc'[r] = pc[r]
      BY <2>2, Threads
    <2> QED
      BY <1>2, <2>1, <2>2, <2>3, <2>4
  <1>8. ASSUME NEW q \in Run, Statement(q)
        PROVE  OneRunAtATime' /\ RunsAgree'
    <2>1. pc[q] = "running" /\ UNCHANGED <<pc, session>>
          /\ reached' = [reached EXCEPT ![q] = @ \cup {session}]
      BY <1>1, <1>8, Threads, Moved DEF Statement, Reconnecting, RunSteps, CallerSteps
    <2>2. /\ reached'[q] \subseteq {session} /\ \A r \in Run : r # q => reached'[r] = reached[r]
      BY <1>1, <2>1 DEF JoinedInv, OneRunAtATime, TypeOK
    <2> QED
      BY <2>1, <2>2 DEF JoinedInv, OneRunAtATime, RunsAgree, Active
  <1>9. CASE LinkBreaks \/ UNCHANGED vars
    BY <1>9 DEF LinkBreaks, vars, JoinedInv, OneRunAtATime, RunsAgree, Active
  <1> QED
    BY <1>3, <1>4, <1>5, <1>6, <1>7, <1>8, <1>9 DEF Next, Stopped

\* With a joined thread the statements of a run all go to one database: the
\* ids it reads with one and writes with the next mean the same.
THEOREM OneDatabase == Spec => []OneDatabasePerRun
  <1> DEFINE Inv == joined => JoinedInv
  <1>1. Inv => OneDatabasePerRun
    BY DEF JoinedInv, RunsAgree, OneDatabasePerRun
  <1>2. Init => Inv
    <2> SUFFICES ASSUME Init PROVE JoinedInv
      OBVIOUS
    <2>1. SessionInv
      BY SessionInit
    <2>2. OneRunAtATime /\ RunsAgree
      BY Threads DEF Init, OneRunAtATime, RunsAgree, Active
    <2> QED
      BY <2>1, <2>2 DEF JoinedInv
  <1>3. Inv /\ [Next]_vars => Inv'
    BY JoinedNext, SettingNext
  <1> QED
    BY <1>1, <1>2, <1>3, PTL DEF Spec
=================================================================================
