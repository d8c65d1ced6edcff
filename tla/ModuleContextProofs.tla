-------------------------- MODULE ModuleContextProofs --------------------------
(***************************************************************************)
(* Theorems about ModuleContext: for any contexts, files and calls no      *)
(* run's account is found outside its own context, and what a module is    *)
(* started with is its own account and table.  Both rest on given[r] being *)
(* a context of the run's own; and so do that nobody else writes it before *)
(* the module is started, and that the connection's context is what        *)
(* fromXml made of one file.                                               *)
(***************************************************************************)
EXTENDS ModuleContext, ProofLemmas

\* Whoever runs holds its own context.
GivenOwn == \A r \in Run : step[r] # "idle" => given[r] = r

\* The account is there from the moment it is told.
AccountTold ==
    \A r \in Run : step[r] = "registering" =>
        Account \in DOMAIN properties[r] /\ properties[r][Account] = r

Inv ==
    /\ TypeOK
    /\ GivenOwn
    /\ AccountTold
    /\ AccountsStayPrivate
    /\ OwnAccountSeen

---------------------------------------------------------------------------------

\* Runs, the caller's contexts and the connection's are different objects.
LEMMA Objects ==
    /\ Connection \notin Run /\ Connection \notin Caller
    /\ \A c \in Caller : c \notin Run /\ c \in Object
    /\ \A r \in Run : r \in Object
    /\ Connection \in Object
  BY ContextAssumption DEF Connection, Object

\* Some properties are entries if their names and values are.
LEMMA AreEntries ==
    ASSUME NEW S \in SUBSET Key, NEW e, e \in [S -> Value \cup Run]
    PROVE  e \in Entries
  BY DEF Entries

\* And the other way round.
LEMMA EntriesAre ==
    ASSUME NEW e \in Entries
    PROVE  /\ DOMAIN e \subseteq Key
           /\ e \in [DOMAIN e -> Value \cup Run]
           /\ \A k \in DOMAIN e : e[k] \in Value \cup Run
  BY DEF Entries

\* Nothing is among the entries.
LEMMA NoEntriesAreEntries == NoEntries \in Entries /\ DOMAIN NoEntries = {}
  <1>1. NoEntries \in [{} -> Value \cup Run] /\ DOMAIN NoEntries = {}
    BY DEF NoEntries
  <1> QED
    BY <1>1, AreEntries

\* What copy_to leaves in a context is from one of the two.
LEMMA Copied ==
    ASSUME NEW upper \in Entries, NEW lower \in Entries
    PROVE  /\ CopyTo(upper, lower) \in Entries
           /\ \A k \in DOMAIN CopyTo(upper, lower) :
                 \/ k \in DOMAIN upper /\ CopyTo(upper, lower)[k] = upper[k]
                 \/ k \in DOMAIN lower /\ CopyTo(upper, lower)[k] = lower[k]
  <1>1. CopyTo(upper, lower) \in [DOMAIN upper \cup DOMAIN lower -> Value \cup Run]
    BY EntriesAre DEF CopyTo
  <1>2. DOMAIN upper \cup DOMAIN lower \in SUBSET Key
    BY EntriesAre
  <1>3. CopyTo(upper, lower) \in Entries
    BY <1>1, <1>2, AreEntries
  <1> QED
    BY <1>3 DEF CopyTo

\* set_property changes one property.
LEMMA Set ==
    ASSUME NEW entries \in Entries, NEW k \in Key, NEW v \in Value \cup Run
    PROVE  /\ With(entries, k, v) \in Entries
           /\ k \in DOMAIN With(entries, k, v) /\ With(entries, k, v)[k] = v
           /\ \A j \in DOMAIN With(entries, k, v) :
                 j # k => j \in DOMAIN entries /\ With(entries, k, v)[j] = entries[j]
  <1>1. With(entries, k, v) \in [DOMAIN entries \cup {k} -> Value \cup Run]
    BY EntriesAre DEF With
  <1>2. DOMAIN entries \cup {k} \in SUBSET Key
    BY EntriesAre
  <1>3. With(entries, k, v) \in Entries
    BY <1>1, <1>2, AreEntries
  <1> QED
    BY <1>3 DEF With

\* What is in a sequence.
LEMMA InSequence ==
    ASSUME NEW T, NEW s \in Seq(T)
    PROVE  \A i \in DOMAIN s : s[i] \in T
  OBVIOUS

\* A file has no accounts of runs.
LEMMA FromFile ==
    ASSUME NEW elements \in Texts, NEW old
    PROVE  /\ FromXml(elements, old) \in Entries
           /\ \A k \in DOMAIN FromXml(elements, old) : FromXml(elements, old)[k] \in Value
  <1> DEFINE S == {j \in Key : \E i \in DOMAIN elements : IsLast(elements, j, i)}
  <1>1. elements \in Seq([key : Key, text : Value])
    BY ContextAssumption
  <1>2. ASSUME NEW k \in S
        PROVE  elements[CHOOSE i \in DOMAIN elements : IsLast(elements, k, i)].text \in Value
    <2>1. \E i \in DOMAIN elements : IsLast(elements, k, i)
      OBVIOUS
    <2>2. (CHOOSE i \in DOMAIN elements : IsLast(elements, k, i)) \in DOMAIN elements
      BY <2>1
    <2>3. \A i \in DOMAIN elements : elements[i] \in [key : Key, text : Value]
      BY <1>1, InSequence
    <2>4. \A e \in [key : Key, text : Value] : e.text \in Value
      OBVIOUS
    <2> QED
      BY <2>2, <2>3, <2>4
  <1>3. FromXml(elements, old) = [k \in S |->
            elements[CHOOSE i \in DOMAIN elements : IsLast(elements, k, i)].text]
    BY DEF FromXml, Parsed
  <1>4. FromXml(elements, old) \in [S -> Value] /\ DOMAIN FromXml(elements, old) = S
    BY <1>2, <1>3
  <1>5. FromXml(elements, old) \in [S -> Value \cup Run]
    BY <1>4
  <1>6. S \in SUBSET Key
    OBVIOUS
  <1>7. FromXml(elements, old) \in Entries
    BY <1>5, <1>6, AreEntries
  <1> QED
    BY <1>4, <1>7

---------------------------------------------------------------------------------

\* A context that is given to the manager names no account of a run.
LEMMA Given ==
    ASSUME NEW entries \in Arguments \cup {NoEntries}
    PROVE  entries \in Entries /\ \A k \in DOMAIN entries : entries[k] \notin Run
  <1>1. CASE entries = NoEntries
    BY <1>1, NoEntriesAreEntries
  <1>2. CASE entries \in Arguments
    <2>1. PICK S \in SUBSET Key : entries \in [S -> Value]
      BY <1>2, ContextAssumption
    <2>2. entries \in [S -> Value \cup Run] /\ DOMAIN entries = S
      BY <2>1
    <2>3. \A k \in DOMAIN entries : entries[k] \in Value
      BY <2>1
    <2> QED
      BY <2>2, <2>3, AreEntries, ContextAssumption
  <1> QED
    BY <1>1, <1>2

\* There is no run's account in the contexts at first.
LEMMA ContextInit == Init => Inv
  <1> SUFFICES ASSUME Init PROVE Inv
    OBVIOUS
  <1>1. PICK entries \in Arguments \cup {NoEntries} :
            properties = [o \in Object |-> IF o = Connection THEN entries ELSE NoEntries]
    BY DEF Init
  <1>2. TypeOK
    BY <1>1, Given, NoEntriesAreEntries DEF Init, TypeOK, Step
  <1>3. \A o \in Object : \A k \in DOMAIN properties[o] : properties[o][k] \notin Run
    BY <1>1, Given
  <1>4. AccountsStayPrivate
    BY <1>3 DEF AccountsStayPrivate
  <1>5. GivenOwn /\ AccountTold /\ OwnAccountSeen
    BY DEF Init, GivenOwn, AccountTold, OwnAccountSeen
  <1> QED
    BY <1>2, <1>4, <1>5 DEF Inv

\* Writing one context keeps the accounts where they are.
LEMMA Written ==
    ASSUME Inv, NEW o \in Object, NEW entries \in Entries,
           properties' = [properties EXCEPT ![o] = entries],
           \A k \in DOMAIN entries : entries[k] \in Run => entries[k] = o
    PROVE  /\ properties' \in [Object -> Entries]
           /\ AccountsStayPrivate'
           /\ properties'[o] = entries
           /\ \A p \in Object : p # o => properties'[p] = properties[p]
  <1>1. TypeOK
    BY DEF Inv
  <1>2. /\ properties' \in [Object -> Entries] /\ properties'[o] = entries
        /\ \A p \in Object : p # o => properties'[p] = properties[p]
    BY <1>1 DEF TypeOK
  <1>3. AccountsStayPrivate'
    BY <1>2 DEF AccountsStayPrivate, Inv
  <1> QED
    BY <1>2, <1>3

\* The caller writes contexts no run holds.
LEMMA ContextCaller ==
    ASSUME Inv,
           \/ \E c \in Caller : Construct(c)
           \/ \E c \in Caller, k \in Key, v \in Value : SetProperty(c, k, v)
           \/ \E o \in Caller \cup {Connection}, elements \in Texts : Read(o, elements)
    PROVE  Inv'
  <1>1. TypeOK /\ UNCHANGED <<given, step, seen>>
    BY DEF Inv, Construct, SetProperty, Read
  <1>2. CASE \E c \in Caller : Construct(c)
    <2>1. PICK c \in Caller : Construct(c)
      BY <1>2
    <2>2. TypeOK'
      BY <1>1, <2>1 DEF Construct, TypeOK
    <2> QED
      BY <1>1, <2>1, <2>2
         DEF Construct, Inv, GivenOwn, AccountTold, AccountsStayPrivate, OwnAccountSeen
  <1>3. ASSUME NEW o \in Caller \cup {Connection}, NEW entries \in Entries,
               properties' = [properties EXCEPT ![o] = entries], UNCHANGED made,
               \A k \in DOMAIN entries : entries[k] \notin Run
        PROVE  Inv'
    <2>1. o \in Object /\ o \notin Run
      BY Objects
    <2>2. /\ properties' \in [Object -> Entries] /\ AccountsStayPrivate'
          /\ \A p \in Object : p # o => properties'[p] = properties[p]
      BY <1>3, <2>1, Written
    <2>3. TypeOK'
      BY <1>1, <1>3, <2>2 DEF TypeOK
    <2>4. \A r \in Run : properties'[r] = properties[r]
      BY <2>1, <2>2, Objects
    <2> QED
      BY <1>1, <2>2, <2>3, <2>4 DEF Inv, GivenOwn, AccountTold, OwnAccountSeen
  <1>4. CASE \E c \in Caller, k \in Key, v \in Value : SetProperty(c, k, v)
    <2>1. PICK c \in Caller, k \in Key, v \in Value : SetProperty(c, k, v)
      BY <1>4
    <2>2. properties[c] \in Entries /\ \A j \in DOMAIN properties[c] : properties[c][j] \notin Run
      BY <1>1, Objects DEF TypeOK, Inv, AccountsStayPrivate
    <2>3. /\ With(properties[c], k, v) \in Entries
          /\ \A j \in DOMAIN With(properties[c], k, v) : With(properties[c], k, v)[j] \notin Run
      <3>1. v \in Value \cup Run /\ v \notin Run
        BY ContextAssumption
      <3>2. /\ With(properties[c], k, v) \in Entries
            /\ With(properties[c], k, v)[k] = v
            /\ \A j \in DOMAIN With(properties[c], k, v) :
                  j # k => j \in DOMAIN properties[c] /\ With(properties[c], k, v)[j] = properties[c][j]
        BY <2>2, <3>1, Set
      <3> QED
        BY <2>2, <3>1, <3>2
    <2> QED
      BY <1>3, <2>1, <2>3 DEF SetProperty
  <1>5. CASE \E o \in Caller \cup {Connection}, elements \in Texts : Read(o, elements)
    <2>1. PICK o \in Caller \cup {Connection}, elements \in Texts : Read(o, elements)
      BY <1>5
    <2>2. /\ FromXml(elements, properties[o]) \in Entries
          /\ \A k \in DOMAIN FromXml(elements, properties[o]) :
                FromXml(elements, properties[o])[k] \notin Run
      BY FromFile, ContextAssumption
    <2> QED
      BY <1>3, <2>1, <2>2 DEF Read
  <1> QED
    BY <1>2, <1>4, <1>5

\* A run's context is filled from contexts that hold no account of a run.
LEMMA ContextExecute ==
    ASSUME Inv, NEW r \in Run, NEW c \in Caller, NEW s \in Caller \cup {Null}, Execute(r, c, s)
    PROVE  Inv'
  <1>1. /\ TypeOK /\ given' = [given EXCEPT ![r] = r]
        /\ step[r] = "idle" /\ step' = [step EXCEPT ![r] = "prepared"]
        /\ s = Null \/ s \in Caller
        /\ UNCHANGED <<made, seen>>
    BY DEF Inv, Execute, Fresh
  <1>2. given'[r] = r
    BY <1>1 DEF TypeOK
  <1>3. ASSUME NEW o \in Caller \cup {Connection}
        PROVE  properties[o] \in Entries /\ \A k \in DOMAIN properties[o] : properties[o][k] \notin Run
    BY <1>1, Objects DEF TypeOK, Inv, AccountsStayPrivate
  <1>4. Layered(c, s) \in Entries /\ \A k \in DOMAIN Layered(c, s) : Layered(c, s)[k] \notin Run
    <2> DEFINE callers == CopyTo(properties[c], properties[Connection])
    <2>1. callers \in Entries /\ \A k \in DOMAIN callers : callers[k] \notin Run
      BY <1>3, Copied
    <2>2. CASE s = Null
      BY <2>1, <2>2 DEF Layered
    <2>3. CASE s # Null
      <3>1. /\ CopyTo(properties[s], callers) \in Entries
            /\ \A k \in DOMAIN CopyTo(properties[s], callers) :
                  CopyTo(properties[s], callers)[k] \notin Run
        BY <1>1, <1>3, <2>1, <2>3, Copied
      <3> QED
        BY <2>3, <3>1 DEF Layered
    <2> QED
      BY <2>2, <2>3
  <1>5. properties' = [properties EXCEPT ![r] = Layered(c, s)]
    BY <1>2 DEF Execute
  <1>6. /\ properties' \in [Object -> Entries] /\ AccountsStayPrivate'
        /\ \A p \in Object : p # r => properties'[p] = properties[p]
    BY <1>4, <1>5, Objects, Written
  <1>7. TypeOK'
    BY <1>1, <1>6, Objects DEF TypeOK, Step
  <1>8. step'[r] = "prepared" /\ \A q \in Run : q # r => step'[q] = step[q] /\ given'[q] = given[q]
    BY <1>1 DEF TypeOK
  <1>9. GivenOwn' /\ AccountTold' /\ OwnAccountSeen'
    BY <1>1, <1>2, <1>6, <1>8, Objects DEF Inv, GivenOwn, AccountTold, OwnAccountSeen
  <1> QED
    BY <1>6, <1>7, <1>9 DEF Inv

\* The run's thread writes the run's own context.
LEMMA ContextRun ==
    ASSUME Inv, NEW r \in Run,
           \/ TellAccount(r) \/ Start(r) \/ Return(r)
           \/ \E k \in Key, v \in Value : ModuleSets(r, k, v)
    PROVE  Inv'
  <1>1. /\ TypeOK /\ given[r] = r /\ properties[r] \in Entries /\ r \in Object
        /\ \A k \in DOMAIN properties[r] : properties[r][k] \in Run => properties[r][k] = r
        /\ UNCHANGED <<made, given>>
    BY Objects DEF Inv, TypeOK, GivenOwn, AccountsStayPrivate, TellAccount, Start, Return, ModuleSets
  <1>2. ASSUME NEW k \in Key, NEW v \in Value \cup {r},
               properties' = [properties EXCEPT ![r] = With(properties[r], k, v)]
        PROVE  /\ properties' \in [Object -> Entries] /\ AccountsStayPrivate'
               /\ properties'[r] = With(properties[r], k, v)
               /\ k \in DOMAIN properties'[r] /\ properties'[r][k] = v
               /\ \A q \in Run : q # r => properties'[q] = properties[q]
    <2>1. /\ With(properties[r], k, v) \in Entries
          /\ k \in DOMAIN With(properties[r], k, v) /\ With(properties[r], k, v)[k] = v
          /\ \A j \in DOMAIN With(properties[r], k, v) :
                With(properties[r], k, v)[j] \in Run => With(properties[r], k, v)[j] = r
      <3>1. v \in Value \cup Run /\ (v \in Run => v = r)
        BY ContextAssumption
      <3>2. /\ With(properties[r], k, v) \in Entries
            /\ k \in DOMAIN With(properties[r], k, v) /\ With(properties[r], k, v)[k] = v
            /\ \A j \in DOMAIN With(properties[r], k, v) :
                  j # k => j \in DOMAIN properties[r] /\ With(properties[r], k, v)[j] = properties[r][j]
        BY <1>1, <3>1, Set
      <3> QED
        BY <1>1, <3>1, <3>2
    <2> QED
      BY <1>1, <1>2, <2>1, Written, Objects
  <1>3. CASE TellAccount(r)
    <2>1. /\ properties' = [properties EXCEPT ![r] = With(properties[r], Account, r)]
          /\ step' = [step EXCEPT ![r] = "registering"] /\ seen' = seen
          /\ Account \in Key
      BY <1>1, <1>3, ContextAssumption DEF TellAccount
    <2>2. step'[r] = "registering" /\ \A q \in Run : q # r => step'[q] = step[q]
      BY <1>1, <2>1 DEF TypeOK
    <2>3. TypeOK'
      BY <1>1, <1>2, <2>1 DEF TypeOK, Step
    <2>4. Account \in DOMAIN properties'[r] /\ properties'[r][Account] = r
      BY <1>2, <2>1
    <2>5. \A q \in Run : q # r => properties'[q] = properties[q]
      BY <1>2, <2>1
    <2>6. GivenOwn' /\ AccountTold' /\ OwnAccountSeen'
      BY <1>1, <2>1, <2>2, <2>4, <2>5 DEF Inv, GivenOwn, AccountTold, OwnAccountSeen
    <2> QED
      BY <1>2, <2>1, <2>3, <2>6 DEF Inv
  <1>4. CASE Start(r)
    <2>1. /\ step[r] = "registering"
          /\ properties' = [properties EXCEPT ![r] = With(properties[r], Output, r)]
          /\ step' = [step EXCEPT ![r] = "executing"] /\ seen' = [seen EXCEPT ![r] = properties'[r]]
          /\ Output \in Key
      BY <1>1, <1>4, ContextAssumption DEF Start, Told
    <2>2. step'[r] = "executing" /\ \A q \in Run : q # r => step'[q] = step[q]
      BY <1>1, <2>1 DEF TypeOK
    <2>3. seen'[r] = properties'[r] /\ \A q \in Run : q # r => seen'[q] = seen[q]
      BY <1>1, <2>1 DEF TypeOK
    <2>4. TypeOK'
      <3>1. properties'[r] \in Entries
        BY <1>1, <1>2, <2>1
      <3> QED
        BY <1>1, <1>2, <2>1, <3>1 DEF TypeOK, Step
    <2>5. /\ {Account, Output} \subseteq DOMAIN seen'[r]
          /\ seen'[r][Account] = r /\ seen'[r][Output] = r
      <3>1. Account \in DOMAIN properties[r] /\ properties[r][Account] = r
        BY <2>1 DEF Inv, AccountTold
      <3>2. Account \in DOMAIN With(properties[r], Output, r) /\ With(properties[r], Output, r)[Account] = r
        BY <3>1 DEF With
      <3>3. /\ properties'[r] = With(properties[r], Output, r)
            /\ Output \in DOMAIN properties'[r] /\ properties'[r][Output] = r
        BY <1>2, <2>1
      <3> QED
        BY <2>3, <3>2, <3>3
    <2>6. GivenOwn' /\ AccountTold' /\ OwnAccountSeen'
      BY <1>1, <1>2, <2>1, <2>2, <2>3, <2>5 DEF Inv, GivenOwn, AccountTold, OwnAccountSeen
    <2> QED
      BY <1>2, <2>1, <2>4, <2>6 DEF Inv
  <1>5. CASE Return(r)
    <2>1. UNCHANGED <<properties, seen>> /\ step' = [step EXCEPT ![r] = "done"]
      BY <1>5 DEF Return
    <2>2. step'[r] = "done" /\ \A q \in Run : q # r => step'[q] = step[q]
      BY <1>1, <2>1 DEF TypeOK
    <2>3. TypeOK'
      BY <1>1, <2>1 DEF TypeOK, Step
    <2>4. AccountsStayPrivate'
      BY <2>1 DEF Inv, AccountsStayPrivate
    <2>5. GivenOwn' /\ AccountTold' /\ OwnAccountSeen'
      BY <1>1, <2>1, <2>2 DEF Inv, GivenOwn, AccountTold, OwnAccountSeen
    <2> QED
      BY <2>3, <2>4, <2>5 DEF Inv
  <1>6. CASE \E k \in Key, v \in Value : ModuleSets(r, k, v)
    <2>1. PICK k \in Key, v \in Value :
              /\ step[r] = "executing" /\ UNCHANGED <<step, seen>>
              /\ properties' = [properties EXCEPT ![r] = With(properties[r], k, v)]
      BY <1>1, <1>6 DEF ModuleSets
    <2>2. TypeOK'
      BY <1>1, <1>2, <2>1 DEF TypeOK
    <2>3. GivenOwn' /\ AccountTold' /\ OwnAccountSeen'
      BY <1>1, <1>2, <2>1 DEF Inv, GivenOwn, AccountTold, OwnAccountSeen
    <2> QED
      BY <1>2, <2>1, <2>2, <2>3 DEF Inv
  <1> QED
    BY <1>3, <1>4, <1>5, <1>6

\* Every step keeps the accounts private.
LEMMA ContextNext == Inv /\ [Next]_vars => Inv'
  <1> SUFFICES ASSUME Inv, [Next]_vars PROVE Inv'
    OBVIOUS
  <1>1. CASE UNCHANGED vars
    BY <1>1 DEF vars, Inv, TypeOK, GivenOwn, AccountTold, AccountsStayPrivate, OwnAccountSeen
  <1> QED
    BY <1>1, ContextCaller, ContextExecute, ContextRun DEF Next

\* No account gets into a context but that of its run.
THEOREM AccountsPrivate == Spec => []AccountsStayPrivate
  <1>1. Inv => AccountsStayPrivate
    BY DEF Inv
  <1> QED
    BY <1>1, ContextInit, ContextNext, PTL DEF Spec

\* What a module is started with is its own account and its own table.
THEOREM OwnAccount == Spec => []OwnAccountSeen
  <1>1. Inv => OwnAccountSeen
    BY DEF Inv
  <1> QED
    BY <1>1, ContextInit, ContextNext, PTL DEF Spec

---------------------------------------------------------------------------------
(* The connection's context. *)

\* An element is its name and its text.
LEMMA AnElement ==
    ASSUME NEW e \in [key : Key, text : Value], NEW k, NEW v, e.key = k, e.text = v
    PROVE  e = [key |-> k, text |-> v]
  OBVIOUS

\* fromXml finds every name that has a text, and a text it has.
LEMMA EveryName ==
    ASSUME NEW elements \in Texts, NEW old
    PROVE  LET names == {k \in Key : \E i \in DOMAIN elements :
                            elements[i].key = k /\ elements[i].text # ""}
           IN  /\ DOMAIN FromXml(elements, old) = names
               /\ \A k \in names : \E i \in DOMAIN elements :
                     elements[i] = [key |-> k, text |-> FromXml(elements, old)[k]]
  <1> DEFINE Places(k) == {i \in DOMAIN elements : elements[i].key = k /\ elements[i].text # ""}
  <1> DEFINE names == {k \in Key : \E i \in DOMAIN elements :
                            elements[i].key = k /\ elements[i].text # ""}
  <1> DEFINE last(k) == CHOOSE i \in DOMAIN elements : IsLast(elements, k, i)
  <1>1. elements \in Seq([key : Key, text : Value])
    BY ContextAssumption
  <1>2. Len(elements) \in Nat /\ DOMAIN elements = 1 .. Len(elements)
    BY <1>1
  <1>3. ASSUME NEW k \in names
        PROVE  \E i \in DOMAIN elements : IsLast(elements, k, i)
    <2>1. Places(k) \in SUBSET (1 .. Len(elements)) /\ Places(k) # {}
      BY <1>2
    <2>2. PICK i \in Places(k) : \A j \in Places(k) : j <= i
      <3> HIDE DEF Places
      <3> QED
        BY <1>2, <2>1, LastInSequence
    <2> QED
      BY <2>2 DEF IsLast
  <1>4. ASSUME NEW k \in Key, NEW i \in DOMAIN elements, IsLast(elements, k, i)
        PROVE  elements[i].key = k /\ elements[i].text # ""
    BY <1>4 DEF IsLast
  <1>5. {j \in Key : \E i \in DOMAIN elements : IsLast(elements, j, i)} = names
    <2>1. \A j \in Key : (\E i \in DOMAIN elements : IsLast(elements, j, i)) => j \in names
      BY <1>4
    <2>2. \A j \in names : j \in Key /\ \E i \in DOMAIN elements : IsLast(elements, j, i)
      BY <1>3
    <2> HIDE DEF names
    <2> QED
      BY <2>1, <2>2
  <1>6. FromXml(elements, old) = [k \in names |-> elements[last(k)].text]
    BY <1>5 DEF FromXml, Parsed
  <1>7. ASSUME NEW k \in names
        PROVE  /\ last(k) \in DOMAIN elements
               /\ elements[last(k)] = [key |-> k, text |-> FromXml(elements, old)[k]]
    <2>1. last(k) \in DOMAIN elements /\ IsLast(elements, k, last(k))
      BY <1>3
    <2>2. elements[last(k)].key = k
      BY <1>4, <2>1
    <2>3. elements[last(k)] \in [key : Key, text : Value]
      BY <1>1, <2>1, InSequence
    <2>4. FromXml(elements, old)[k] = elements[last(k)].text
      BY <1>6
    <2> HIDE DEF last
    <2> QED
      BY <2>1, <2>2, <2>3, <2>4, AnElement
  <1> QED
    BY <1>6, <1>7

\* A context is written by the caller, if it is not a run's, and by the run
\* whose context it is.
LEMMA Writer ==
    ASSUME Inv, [Next]_vars, NEW o \in Object, properties'[o] # properties[o]
    PROVE  \/ o \notin Run /\ \E k \in Key, v \in Value : SetProperty(o, k, v)
           \/ o \notin Run /\ \E elements \in Texts : Read(o, elements)
           \/ o \in Run /\ step[o] = "idle" /\ step'[o] = "prepared"
           \/ o \in Run /\ step[o] = "prepared" /\ step'[o] = "registering"
           \/ o \in Run /\ step[o] = "registering" /\ step'[o] = "executing"
           \/ o \in Run /\ step[o] = "executing"
  <1>1. /\ properties \in [Object -> Entries]
        /\ \A r \in Run : step[r] # "idle" => given[r] = r
        /\ given \in [Run -> Object \cup {Null}]
        /\ step \in [Run -> Step]
    BY DEF Inv, TypeOK, GivenOwn
  <1>2. ASSUME NEW p \in Object, NEW entries,
               properties' = [properties EXCEPT ![p] = entries]
        PROVE  o = p
    BY <1>1, <1>2
  <1>3. CASE UNCHANGED vars \/ \E c \in Caller : Construct(c)
    BY <1>3 DEF vars, Construct
  <1>4. CASE \E c \in Caller, k \in Key, v \in Value : SetProperty(c, k, v)
    <2>1. PICK c \in Caller, k \in Key, v \in Value : SetProperty(c, k, v)
      BY <1>4
    <2>2. c \in Object /\ c \notin Run
      BY Objects
    <2>3. o = c
      BY <1>2, <2>1, <2>2 DEF SetProperty
    <2> QED
      BY <2>1, <2>2, <2>3
  <1>5. CASE \E p \in Caller \cup {Connection}, elements \in Texts : Read(p, elements)
    <2>1. PICK p \in Caller \cup {Connection}, elements \in Texts : Read(p, elements)
      BY <1>5
    <2>2. p \in Object /\ p \notin Run
      BY Objects
    <2>3. o = p
      BY <1>2, <2>1, <2>2 DEF Read
    <2> QED
      BY <2>1, <2>2, <2>3
  <1>6. CASE \E r \in Run, c \in Caller, s \in Caller \cup {Null} : Execute(r, c, s)
    <2>1. PICK r \in Run, c \in Caller, s \in Caller \cup {Null} : Execute(r, c, s)
      BY <1>6
    <2>2. given'[r] = r /\ step[r] = "idle" /\ step'[r] = "prepared" /\ r \in Object
      BY <1>1, <2>1, Objects DEF Execute, Fresh
    <2>3. o = r
      BY <1>2, <2>1, <2>2 DEF Execute
    <2> QED
      BY <2>2, <2>3
  <1>7. ASSUME NEW r \in Run, TellAccount(r) \/ Start(r) \/ Return(r)
        PROVE  /\ o = r
               /\ \/ step[r] = "prepared" /\ step'[r] = "registering"
                  \/ step[r] = "registering" /\ step'[r] = "executing"
    <2>1. given[r] = r /\ r \in Object
      BY <1>1, <1>7, Objects DEF TellAccount, Start, Return
    <2>2. CASE TellAccount(r)
      BY <1>1, <1>2, <2>1, <2>2 DEF TellAccount
    <2>3. CASE Start(r)
      BY <1>1, <1>2, <2>1, <2>3 DEF Start
    <2>4. CASE Return(r)
      BY <2>4 DEF Return
    <2> QED
      BY <1>7, <2>2, <2>3, <2>4
  <1>8. CASE \E r \in Run, k \in Key, v \in Value : ModuleSets(r, k, v)
    <2>1. PICK r \in Run, k \in Key, v \in Value : ModuleSets(r, k, v)
      BY <1>8
    <2>2. given[r] = r /\ r \in Object /\ step[r] = "executing"
      BY <1>1, <2>1, Objects DEF ModuleSets
    <2>3. o = r
      BY <1>2, <2>1, <2>2 DEF ModuleSets
    <2> QED
      BY <2>2, <2>3
  <1> QED
    BY <1>3, <1>4, <1>5, <1>6, <1>7, <1>8 DEF Next

\* Whatever caller, loads and other runs do, a run is started with what
\* execute prepared for it, its account and its table.
THEOREM Untouched == Spec => UntouchedUntilStart
  <1> DEFINE Kept == \A r \in Run :
          step[r] \in {"prepared", "registering"} /\ step'[r] = step[r] =>
              properties'[given[r]] = properties[given[r]]
  <1>1. Inv /\ [Next]_vars => [Kept]_vars
    <2> SUFFICES ASSUME Inv, [Next]_vars,
                        NEW r \in Run, step[r] \in {"prepared", "registering"}, step'[r] = step[r],
                        properties'[given[r]] # properties[given[r]]
                 PROVE  FALSE
      OBVIOUS
    <2>1. given[r] = r /\ r \in Object
      BY Objects DEF Inv, GivenOwn
    <2> QED
      BY <2>1, Writer
  <1> HIDE DEF Kept
  <1>2. Spec => [][Kept]_vars
    BY <1>1, ContextInit, ContextNext, PTL DEF Spec
  <1> QED
    BY <1>2 DEF Kept, UntouchedUntilStart

\* However often and over whatever a file is read, and whatever runs and the
\* caller do meanwhile, the connection's properties are those of one file.
THEOREM OneFileRead == Spec => []OneFile
  <1>1. Init => OneFile
    <2> SUFFICES ASSUME Init PROVE OneFile
      OBVIOUS
    <2>1. properties[Connection] \in Arguments \cup {NoEntries}
      BY Objects DEF Init
    <2> QED
      BY <2>1 DEF OneFile
  <1>2. Inv /\ OneFile /\ [Next]_vars => OneFile'
    <2> SUFFICES ASSUME Inv, OneFile, [Next]_vars PROVE OneFile'
      OBVIOUS
    <2>1. CASE \E elements \in Texts : Read(Connection, elements)
      <3>1. PICK elements \in Texts : Read(Connection, elements)
        BY <2>1
      <3>2. properties'[Connection] = FromXml(elements, properties[Connection])
        BY <3>1, Objects DEF Read, Inv, TypeOK
      <3> DEFINE names == {k \in Key : \E i \in DOMAIN elements :
                              elements[i].key = k /\ elements[i].text # ""}
      <3> DEFINE parsed == FromXml(elements, properties[Connection])
      <3>3. /\ DOMAIN parsed = names
            /\ \A k \in names : \E i \in DOMAIN elements : elements[i] = [key |-> k, text |-> parsed[k]]
        BY EveryName
      <3>4. /\ DOMAIN properties'[Connection] = names
            /\ \A k \in names : \E i \in DOMAIN elements :
                  elements[i] = [key |-> k, text |-> properties'[Connection][k]]
        <4> HIDE DEF names, parsed
        <4>1. properties'[Connection] = parsed
          BY <3>2 DEF parsed
        <4> QED
          BY <3>3, <4>1
      <3> QED
        BY <3>4 DEF OneFile
    <2>2. CASE ~ \E elements \in Texts : Read(Connection, elements)
      <3>1. properties'[Connection] = properties[Connection]
        <4>1. /\ ~ \E k \in Key, v \in Value : SetProperty(Connection, k, v)
              /\ Connection \notin Run /\ Connection \in Object
          BY Objects DEF SetProperty, Inv, TypeOK
        <4> QED
          BY <2>2, <4>1, Writer
      <3>2. CASE properties[Connection] \in Arguments \cup {NoEntries}
        BY <3>1, <3>2 DEF OneFile
      <3>3. CASE properties[Connection] \notin Arguments \cup {NoEntries}
        <4> DEFINE Names(elements) == {k \in Key : \E i \in DOMAIN elements :
                                          elements[i].key = k /\ elements[i].text # ""}
        <4>1. PICK elements \in Texts :
                  /\ DOMAIN properties[Connection] = Names(elements)
                  /\ \A k \in Names(elements) : \E i \in DOMAIN elements :
                        elements[i] = [key |-> k, text |-> properties[Connection][k]]
          BY <3>3 DEF OneFile
        <4>2. /\ DOMAIN properties'[Connection] = Names(elements)
              /\ \A k \in Names(elements) : \E i \in DOMAIN elements :
                    elements[i] = [key |-> k, text |-> properties'[Connection][k]]
          <5> HIDE DEF Names
          <5> QED
            BY <3>1, <4>1
        <4> QED
          BY <4>2 DEF OneFile
      <3> QED
        BY <3>2, <3>3
    <2> QED
      BY <2>1, <2>2
  <1> QED
    BY <1>1, <1>2, ContextInit, ContextNext, PTL DEF Spec
================================================================================
