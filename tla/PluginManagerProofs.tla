--------------------------- MODULE PluginManagerProofs ---------------------------
(***************************************************************************)
(* PluginManager keeps its map in order and implements PluginCatalog, for  *)
(* any files, libraries, scripts and specs.  The entries that execute      *)
(* leaves behind stutter: they are invisible to whoever asks for a module. *)
(* That a task is recorded in the database its module is told of holds as  *)
(* long as no file is loaded under an open session.                        *)
(***************************************************************************)
EXTENDS PluginManager, ProofLemmas

\* The last place of a name in a file is a place of that name.
LEMMA LastPlaceFacts ==
    ASSUME NEW specs \in Seq(Known), NEW n \in Name, Places(specs, n) # {}
    PROVE  /\ LastPlace(specs, n) \in Places(specs, n)
           /\ specs[LastPlace(specs, n)] \in Known
           /\ IsValid(specs[LastPlace(specs, n)])
           /\ specs[LastPlace(specs, n)].plugin_name = n
  <1>1. Len(specs) \in Nat /\ DOMAIN specs = 1 .. Len(specs)
    OBVIOUS
  <1>2. Places(specs, n) \in SUBSET (1 .. Len(specs))
    BY <1>1 DEF Places
  <1>3. \E i \in Places(specs, n) : \A j \in Places(specs, n) : j <= i
    BY <1>1, <1>2, LastInSequence
  <1>4. LastPlace(specs, n) \in Places(specs, n)
    BY <1>3, Zenon DEF LastPlace
  <1>5. LastPlace(specs, n) \in DOMAIN specs
    BY <1>4 DEF Places
  <1>6. specs[LastPlace(specs, n)] \in Known
    BY <1>5
  <1> QED
    BY <1>4, <1>6 DEF Places, Accepted

\* An empty spec is not valid: what execute leaves behind is nothing to find.
LEMMA DefaultSpecInvalid == ~IsValid(DefaultSpec)
  BY DEF IsValid, DefaultSpec

---------------------------------------------------------------------------------
(* The map. *)

MapOK ==
    /\ DOMAIN modules \subseteq Name
    /\ \A n \in DOMAIN modules : modules[n] \in Known \cup {DefaultSpec}
    /\ EntryIsOwnOrEmpty

\* Putting a valid spec under its own name, or an empty one under any, is all
\* that ever happens to a single entry.
LEMMA PutKeeps ==
    ASSUME MapOK, NEW n \in Name, NEW spec \in Known \cup {DefaultSpec},
           spec = DefaultSpec \/ (IsValid(spec) /\ spec.plugin_name = n),
           modules' = Put(n, spec)
    PROVE  MapOK'
  <1>1. DOMAIN modules' = DOMAIN modules \cup {n}
    BY DEF Put
  <1>2. \A m \in DOMAIN modules' : modules'[m] = IF m = n THEN spec ELSE modules[m]
    BY DEF Put
  <1> QED
    BY <1>1, <1>2 DEF MapOK, EntryIsOwnOrEmpty

\* A load leaves valid specs of its file, each under its own name.
LEMMA LoadKeeps ==
    ASSUME NEW file \in Files, modules' = Registered(file.specs)
    PROVE  MapOK'
  <1>1. file.specs \in Seq(Known)
    BY ManagerAssumption
  <1>2. /\ DOMAIN modules' \subseteq Name
        /\ \A n \in DOMAIN modules' :
              /\ Places(file.specs, n) # {}
              /\ modules'[n] = file.specs[LastPlace(file.specs, n)]
    BY DEF Registered
  <1>3. \A n \in DOMAIN modules' :
           /\ modules'[n] \in Known
           /\ IsValid(modules'[n])
           /\ modules'[n].plugin_name = n
    BY <1>1, <1>2, LastPlaceFacts
  <1> QED
    BY <1>2, <1>3 DEF MapOK, EntryIsOwnOrEmpty

\* What is registered is known, and has one of the names.
LEMMA OfferedFacts ==
    ASSUME NEW spec \in Offered
    PROVE  spec \in Known /\ spec.plugin_name \in Name
  <1>1. spec \in Known
    BY DEF Known
  <1> QED
    BY <1>1, ManagerAssumption

\* Every operation keeps the map in order.
LEMMA MapNext == MapOK /\ [Next]_vars => MapOK'
  <1> SUFFICES ASSUME MapOK, [Next]_vars
               PROVE  MapOK'
    OBVIOUS
  <1>1. ASSUME NEW spec \in Offered, Register(spec)
        PROVE  MapOK'
    BY <1>1, OfferedFacts, PutKeeps DEF Register, Accepted
  <1>2. ASSUME NEW file \in Files, Load(file)
        PROVE  MapOK'
    BY <1>2, LoadKeeps DEF Load
  <1>3. ASSUME NEW n \in Name, ExecuteUnknown(n)
        PROVE  MapOK'
    <2>1. CASE n \in DOMAIN modules
      BY <2>1, <1>3 DEF ExecuteUnknown, MapOK, EntryIsOwnOrEmpty
    <2>2. CASE n \notin DOMAIN modules
      BY <2>2, <1>3, PutKeeps DEF ExecuteUnknown
    <2> QED
      BY <2>1, <2>2
  <1>4. CASE UNCHANGED modules
    BY <1>4 DEF MapOK, EntryIsOwnOrEmpty
  <1> QED
    BY <1>1, <1>2, <1>3, <1>4 DEF Next, Execute, Disconnect, vars

\* Before anything is registered the map is empty.
LEMMA MapInit == Init => MapOK
  BY DEF Init, MapOK, EntryIsOwnOrEmpty

\* Every entry of PluginManager's map is a valid module under its own name or
\* an empty spec, whatever is registered, loaded and executed.
THEOREM EntriesCorrect == Spec => []EntryIsOwnOrEmpty
  <1>1. MapOK => EntryIsOwnOrEmpty
    BY DEF MapOK
  <1> QED
    BY <1>1, MapInit, MapNext, PTL DEF Spec

\* What the parameters, the session and the task recorded last can be.
TaskOK ==
    /\ settings \in Setting
    /\ session \in Setting \cup {"closed", "bad"}
    /\ task = NoTask \/ task \in [module : Name, database : Setting, told : Setting]

\* What a module is told is a database that some layer of its context names.
LEMMA ToldFacts ==
    ASSUME MapOK, TaskOK, NEW n \in DOMAIN modules, NEW context \in Contexts
    PROVE  Told(n, context) \in Setting
  <1>1. modules[n].plugin_context \in Setting
    <2>1. CASE modules[n] \in Known
      BY <2>1 DEF Setting
    <2>2. CASE modules[n] = DefaultSpec
      <3>1. DefaultSpec.plugin_context = ""
        BY DEF DefaultSpec
      <3> QED
        BY <2>2, <3>1, Zenon DEF Setting
    <2> QED
      BY <2>1, <2>2 DEF MapOK
  <1>2. context \in Setting /\ settings \in Setting
    BY DEF Setting, TaskOK
  <1> QED
    BY <1>1, <1>2 DEF Told, Over

\* Every operation keeps parameters, session and task in order.
LEMMA TaskNext == MapOK /\ TaskOK /\ [Next]_vars => TaskOK'
  <1> SUFFICES ASSUME MapOK, TaskOK, [Next]_vars
               PROVE  TaskOK'
    OBVIOUS
  <1>1. ASSUME NEW spec \in Offered, Register(spec)
        PROVE  TaskOK'
    BY <1>1 DEF Register, TaskOK
  <1>2. ASSUME NEW file \in Files, Load(file)
        PROVE  TaskOK'
    <2>1. Configured(file) \in Setting
      BY DEF Configured, Setting, TaskOK
    <2> QED
      BY <1>2, <2>1 DEF Load, TaskOK
  <1>3. ASSUME NEW n \in Name, NEW context \in Contexts, Execute(n, context)
        PROVE  TaskOK'
    <2>1. session' \in Setting \cup {"closed", "bad"}
      BY <1>3 DEF Execute, TaskOK
    <2>2. n \in DOMAIN modules
      BY <1>3 DEF Execute, Contains
    <2>3. Told(n, context) \in Setting
      BY <2>2, ToldFacts
    <2>4. \/ task' = task
          \/ /\ session' \in Setting
             /\ task' = [module |-> n, database |-> session', told |-> Told(n, context)]
      BY <1>3 DEF Execute
    <2>5. task' = NoTask \/ task' \in [module : Name, database : Setting, told : Setting]
      BY <2>3, <2>4 DEF TaskOK
    <2> QED
      BY <1>3, <2>1, <2>5 DEF Execute, TaskOK
  <1>4. CASE UNCHANGED <<settings, session, task>>
    BY <1>4 DEF TaskOK
  <1>5. CASE Disconnect
    BY <1>5 DEF Disconnect, TaskOK
  <1> QED
    BY <1>1, <1>2, <1>3, <1>4, <1>5 DEF Next, ExecuteUnknown, vars

\* Every variable keeps its type: the map holds known specs, a task names a
\* registered module and databases that files, callers and specs name.
THEOREM TypeCorrect == Spec => []TypeOK
  <1>1. Init => TaskOK
    BY DEF Init, TaskOK, Setting
  <1>2. MapOK /\ TaskOK => TypeOK
    BY DEF MapOK, TaskOK, TypeOK
  <1> QED
    BY <1>1, <1>2, MapInit, MapNext, TaskNext, PTL DEF Spec

---------------------------------------------------------------------------------
(* The database of a task. *)

\* A session that is open is where the connection's parameters say, and a task
\* was told of the database it is in.
SessionOK ==
    /\ session \in Setting => session = settings
    /\ OutputTableReachable

\* If no layer of a module's context but the connection's names a database, and
\* no file with other parameters is loaded while a session is open, then every
\* module is told of the database its table is in: nothing but such a load can
\* come between the two.
THEOREM ReachableUnlessReloaded ==
    ASSUME \A context \in Contexts : context = "",
           \A spec \in Known : spec.plugin_context = ""
    PROVE  Spec /\ [][(session \in Setting) => settings' = settings]_vars
               => []OutputTableReachable
  <1>1. Init => SessionOK
    <2>1. "closed" \notin Setting
      BY ManagerAssumption
    <2> QED
      BY <2>1 DEF Init, SessionOK, OutputTableReachable
  <1>2. MapOK /\ TaskOK /\ SessionOK /\ [Next]_vars /\
           [(session \in Setting) => settings' = settings]_vars
            => SessionOK'
    <2> SUFFICES ASSUME MapOK, TaskOK, SessionOK, [Next]_vars,
                        [(session \in Setting) => settings' = settings]_vars
                 PROVE  SessionOK'
      OBVIOUS
    <2>1. ASSUME NEW n \in Name, NEW context \in Contexts, Execute(n, context)
          PROVE  SessionOK'
      <3>1. n \in DOMAIN modules /\ modules[n].plugin_context = "" /\ context = ""
        <4>1. n \in DOMAIN modules /\ modules[n] \in Known \cup {DefaultSpec}
          BY <2>1 DEF Execute, Contains, MapOK
        <4>2. DefaultSpec.plugin_context = ""
          BY DEF DefaultSpec
        <4> QED
          BY <4>1, <4>2
      <3>2. Told(n, context) = settings
        BY <3>1 DEF Told, Over
      <3>3. session' \in Setting => session' = settings
        <4>1. "bad" \notin Setting
          BY ManagerAssumption
        <4> QED
          BY <2>1, <4>1 DEF Execute, SessionOK
      <3>4. /\ settings' = settings
            /\ \/ task' = task
               \/ /\ session' \in Setting
                  /\ task' = [module |-> n, database |-> session', told |-> Told(n, context)]
        BY <2>1 DEF Execute
      <3>5. OutputTableReachable'
        <4>1. CASE task' = task
          BY <4>1 DEF SessionOK, OutputTableReachable
        <4>2. CASE /\ session' \in Setting
                   /\ task' = [module |-> n, database |-> session', told |-> Told(n, context)]
          <5>1. task'.database = session' /\ task'.told = settings
            BY <3>2, <4>2
          <5> QED
            BY <3>3, <4>2, <5>1 DEF OutputTableReachable
        <4> QED
          BY <3>4, <4>1, <4>2
      <3> QED
        BY <3>3, <3>4, <3>5 DEF SessionOK
    <2>2. ASSUME NEW file \in Files, Load(file)
          PROVE  SessionOK'
      <3>1. UNCHANGED <<session, task>>
        BY <2>2 DEF Load
      <3>2. session \in Setting => settings' = settings
        BY DEF vars
      <3> QED
        BY <3>1, <3>2 DEF SessionOK, OutputTableReachable
    <2>3. CASE UNCHANGED <<settings, session, task>>
      BY <2>3 DEF SessionOK, OutputTableReachable
    <2>4. CASE Disconnect
      <3>1. "bad" \notin Setting
        BY ManagerAssumption
      <3> QED
        BY <2>4, <3>1 DEF Disconnect, SessionOK, OutputTableReachable
    <2> QED
      BY <2>1, <2>2, <2>3, <2>4 DEF Next, Register, ExecuteUnknown, vars
  <1>3. Init => TaskOK
    BY DEF Init, TaskOK, Setting
  <1>4. SessionOK => OutputTableReachable
    BY DEF SessionOK
  <1> QED
    BY <1>1, <1>2, <1>3, <1>4, MapInit, MapNext, TaskNext, PTL DEF Spec

---------------------------------------------------------------------------------
(* The catalog. *)

catalogued == [n \in Name |-> SpecOf(n)]

\* An empty map is an empty catalog.
LEMMA CatalogInit == Init => Catalog!Init
  BY DEF Init, Catalog!Init, SpecOf, Contains, Catalog!DefaultSpec, DefaultSpec

\* Registering a valid spec puts it into the catalog.
LEMMA CatalogRegister ==
    ASSUME NEW spec \in Offered, Register(spec)
    PROVE  Catalog!Register(spec)
  <1>1. spec.plugin_name \in Name /\ IsValid(spec)
    BY OfferedFacts DEF Register, Accepted
  <1>2. /\ DOMAIN modules' = DOMAIN modules \cup {spec.plugin_name}
        /\ \A m \in DOMAIN modules' :
              modules'[m] = IF m = spec.plugin_name THEN spec ELSE modules[m]
    BY DEF Register, Put
  <1>3. \A n \in Name : SpecOf(n)' = IF n = spec.plugin_name THEN spec ELSE SpecOf(n)
    BY <1>1, <1>2 DEF SpecOf, Contains
  <1>4. catalogued' = [catalogued EXCEPT ![spec.plugin_name] = spec]
    BY <1>3 DEF catalogued
  <1> QED
    BY <1>1, <1>4 DEF Catalog!Register, catalogued, Catalog!IsValid, IsValid

\* A load makes the catalog what its file says.
LEMMA CatalogLoad ==
    ASSUME NEW file \in Files, Load(file)
    PROVE  Catalog!Load(file.specs)
  <1> DEFINE specs == file.specs
  <1>1. specs \in Seq(Known)
    BY ManagerAssumption
  <1>2. /\ DOMAIN modules' = {n \in Name : Places(specs, n) # {}}
        /\ \A n \in DOMAIN modules' : modules'[n] = specs[LastPlace(specs, n)]
    BY DEF Load, Registered
  <1>3. ASSUME NEW n \in Name
        PROVE  SpecOf(n)' = IF Places(specs, n) = {} THEN DefaultSpec
                            ELSE specs[LastPlace(specs, n)]
    <2> HIDE DEF specs
    <2>1. CASE Places(specs, n) = {}
      BY <1>2, <2>1 DEF SpecOf, Contains
    <2>2. CASE Places(specs, n) # {}
      <3>1. IsValid(specs[LastPlace(specs, n)])
        BY <1>1, <2>2, LastPlaceFacts
      <3> QED
        BY <1>2, <2>2, <3>1 DEF SpecOf, Contains
    <2> QED
      BY <2>1, <2>2
  <1>4. \A n \in Name : /\ Catalog!Places(specs, n) = Places(specs, n)
                        /\ Catalog!LastPlace(specs, n) = LastPlace(specs, n)
    BY DEF Catalog!Places, Catalog!LastPlace, Places, LastPlace, Accepted,
           Catalog!IsValid, IsValid
  <1> HIDE DEF specs
  <1>5. catalogued' = [n \in Name |-> IF Catalog!Places(specs, n) = {}
                                      THEN Catalog!DefaultSpec
                                      ELSE specs[Catalog!LastPlace(specs, n)]]
    BY <1>3, <1>4, Zenon DEF catalogued, Catalog!DefaultSpec, DefaultSpec
  <1> QED
    BY <1>5 DEF specs, Catalog!Load, catalogued

\* Asking for an unknown name, or running a known one, is invisible.
LEMMA CatalogUnknown ==
    ASSUME NEW n \in Name, ExecuteUnknown(n)
    PROVE  UNCHANGED catalogued
  <1>1. /\ ~Contains(n)
        /\ modules' = IF n \in DOMAIN modules THEN modules ELSE Put(n, DefaultSpec)
    BY DEF ExecuteUnknown
  <1>2. CASE n \in DOMAIN modules
    BY <1>1, <1>2 DEF catalogued, SpecOf, Contains
  <1>3. CASE n \notin DOMAIN modules
    <2>1. /\ DOMAIN modules' = DOMAIN modules \cup {n}
          /\ \A m \in DOMAIN modules' : modules'[m] = IF m = n THEN DefaultSpec ELSE modules[m]
      BY <1>1, <1>3 DEF Put
    <2>2. \A m \in Name : SpecOf(m)' = SpecOf(m)
      BY <1>1, <2>1, DefaultSpecInvalid DEF SpecOf, Contains
    <2> QED
      BY <2>2 DEF catalogued
  <1> QED
    BY <1>2, <1>3

\* Every step of the manager is one of the catalog, or changes nothing in it.
LEMMA CatalogNext == [Next]_vars => [Catalog!Next]_catalogued
  <1> SUFFICES ASSUME [Next]_vars
               PROVE  [Catalog!Next]_catalogued
    OBVIOUS
  <1>1. ASSUME NEW spec \in Offered, Register(spec)
        PROVE  Catalog!Next
    BY <1>1, CatalogRegister DEF Catalog!Next
  <1>2. ASSUME NEW file \in Files, Load(file)
        PROVE  Catalog!Next
    BY <1>2, CatalogLoad DEF Catalog!Next
  <1>3. ASSUME NEW n \in Name, ExecuteUnknown(n)
        PROVE  UNCHANGED catalogued
    BY <1>3, CatalogUnknown
  <1>4. CASE UNCHANGED modules
    BY <1>4 DEF catalogued, SpecOf, Contains
  <1> QED
    BY <1>1, <1>2, <1>3, <1>4 DEF Next, Execute, Disconnect, vars

\* Whatever is registered, loaded and executed, PluginManager answers for each
\* name as the catalog does: the latest valid spec since the last load.
THEOREM CatalogImplemented == Spec => CatalogSpec
  BY CatalogInit, CatalogNext, PTL DEF Spec, CatalogSpec, Catalog!Spec, catalogued
=================================================================================
