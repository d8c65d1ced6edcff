----------------------------- MODULE SpecFileProofs -----------------------------
(***************************************************************************)
(* Theorems about SpecFile.  Whatever is added, read and written, a spec   *)
(* that can be written and read back survives it as far as Survives says:  *)
(* all that needs is that its type is one the file format has a word for.  *)
(* That the controller can read its own file needs more: specs and files   *)
(* without the three texts that toXml writes, empty or not, are a finding. *)
(***************************************************************************)
EXTENDS SpecFile, SequenceTheorems, TLAPS

---------------------------------------------------------------------------------
(* One spec. *)

\* The children of a written element are four texts of the spec.
LEMMA WrittenTexts ==
    ASSUME NEW spec
    PROVE  LET text == ToXml(spec).text
           IN  /\ DOMAIN text = {"Name", "FilePath", "Description", "Type"}
               /\ text["Name"] = spec.plugin_name
               /\ text["FilePath"] = spec.plugin_file_path
               /\ text["Description"] = spec.plugin_description
               /\ text["Type"] = spec.plugin_type
  BY DEF ToXml, Always

\* A stage that is not written is read as unknown, and an input stream as
\* empty; the other values are read as they were written.
LEMMA ReadBack ==
    ASSUME NEW spec, spec.plugin_type \in ModuleType
    PROVE  LET back == FromXml(ToXml(spec))
           IN  /\ back.plugin_name = spec.plugin_name
               /\ back.plugin_file_path = spec.plugin_file_path
               /\ back.plugin_description = spec.plugin_description
               /\ back.plugin_version = spec.plugin_version
               /\ back.plugin_type = spec.plugin_type
               /\ back.plugin_stage = "UnknownInput"
               /\ back.plugin_context = {NonEmpty(p) : p \in spec.plugin_context}
  <1> DEFINE element == ToXml(spec)
  <1>1. /\ DOMAIN element.text = {"Name", "FilePath", "Description", "Type"}
        /\ element.text["Name"] = spec.plugin_name
        /\ element.text["FilePath"] = spec.plugin_file_path
        /\ element.text["Description"] = spec.plugin_description
        /\ element.text["Type"] = spec.plugin_type
    BY WrittenTexts
  <1>2. element.version = spec.plugin_version /\ element.properties = spec.plugin_context
    BY DEF ToXml
  <1>3. ParseType(spec.plugin_type) = spec.plugin_type /\ ParseStage("") = "UnknownInput"
    BY DEF ParseType, ParseStage, ModuleStage
  <1> HIDE DEF element
  <1> QED
    BY <1>1, <1>2, <1>3 DEF FromXml, element

\* What is read has a type, whatever the file says.
LEMMA TypeRead ==
    ASSUME NEW element
    PROVE  FromXml(element).plugin_type \in ModuleType
  BY DEF FromXml, ParseType, ModuleType

---------------------------------------------------------------------------------
(* The list. *)

IsSequence(s) == s \in Seq({s[i] : i \in DOMAIN s})

\* A function on the numbers up to one is a sequence.
LEMMA UpToItsLength ==
    ASSUME NEW n \in Nat, NEW t, t = [i \in 1 .. n |-> t[i]]
    PROVE  IsSequence(t)
  BY DEF IsSequence

\* A sequence with one element more is one.
LEMMA Appended ==
    ASSUME NEW s, IsSequence(s), NEW e
    PROVE  /\ IsSequence(Append(s, e))
           /\ \A i \in DOMAIN Append(s, e) :
                 \/ Append(s, e)[i] = e
                 \/ i \in DOMAIN s /\ Append(s, e)[i] = s[i]
  <1> DEFINE S == {s[i] : i \in DOMAIN s} \cup {e}
  <1>1. s \in Seq(S)
    <2>1. {s[i] : i \in DOMAIN s} \subseteq S
      OBVIOUS
    <2> HIDE DEF S
    <2> QED
      BY <2>1 DEF IsSequence
  <1>2. Append(s, e) \in Seq(S) /\ Len(s) \in Nat /\ DOMAIN s = 1 .. Len(s)
    <2>1. e \in S
      OBVIOUS
    <2> HIDE DEF S
    <2> QED
      BY <1>1, <2>1
  <1>3. DOMAIN Append(s, e) = 1 .. Len(s) + 1
    BY <1>1
  <1>4. \A i \in DOMAIN Append(s, e) :
           \/ Append(s, e)[i] = e
           \/ i \in DOMAIN s /\ Append(s, e)[i] = s[i]
    BY <1>1, <1>2, <1>3
  <1>5. PICK n \in Nat : Append(s, e) \in [1 .. n -> S]
    <2>1. Append(s, e) \in UNION {[1 .. m -> S] : m \in Nat}
      BY <1>2, SeqDef, Zenon
    <2> HIDE DEF S
    <2> QED
      BY <2>1, Zenon
  <1>6. IsSequence(Append(s, e))
    <2>1. Append(s, e) = [i \in 1 .. n |-> Append(s, e)[i]]
      BY <1>5
    <2> QED
      BY <2>1, UpToItsLength
  <1> QED
    BY <1>4, <1>6

\* So is one that is made element by element.
LEMMA SameLength ==
    ASSUME NEW s, IsSequence(s), NEW t, t = [i \in DOMAIN s |-> t[i]]
    PROVE  IsSequence(t)
  <1>1. Len(s) \in Nat /\ DOMAIN t = 1 .. Len(s)
    BY DEF IsSequence
  <1> QED
    BY <1>1, UpToItsLength DEF IsSequence

ListTyped ==
    /\ IsSequence(list)
    /\ IsSequence(file)
    /\ \A i \in DOMAIN list : list[i].plugin_type \in ModuleType

\* An empty sequence is one.
LEMMA NothingIsSequence == IsSequence(<< >>) /\ \A i \in DOMAIN << >> : FALSE
  <1>1. << >> \in Seq({<< >>[i] : i \in DOMAIN << >>}) /\ Len(<< >>) = 0
    OBVIOUS
  <1>2. DOMAIN << >> = 1 .. Len(<< >>)
    BY <1>1
  <1> QED
    BY <1>1, <1>2 DEF IsSequence

\* The list is empty at first, and the file one that somebody wrote.
LEMMA ListInit == Init => ListTyped
  BY NothingIsSequence, FileAssumption DEF Init, ListTyped, IsSequence

\* What a read makes of the file, and a write of the list.
LEMMA ReadFacts ==
    ASSUME Read
    PROVE  /\ \A i \in DOMAIN file : Readable(file[i])
           /\ list' = [i \in DOMAIN file |-> list'[i]]
           /\ \A i \in DOMAIN file : list'[i] = FromXml(file[i])
           /\ UNCHANGED <<file, written>>
  BY DEF Read

\* What a write makes of the list.
LEMMA WriteFacts ==
    ASSUME Write
    PROVE  /\ file' = [i \in DOMAIN list |-> file'[i]]
           /\ \A i \in DOMAIN list : file'[i] = ToXml(list[i])
           /\ written' = TRUE /\ UNCHANGED list
  BY DEF Write

\* Whatever is added and read, the types in the list are types of modules.
LEMMA ListNext == ListTyped /\ [Next]_vars => ListTyped'
  <1> SUFFICES ASSUME ListTyped, [Next]_vars PROVE ListTyped'
    OBVIOUS
  <1>1. ASSUME NEW spec \in Specs, Add(spec)
        PROVE  ListTyped'
    <2>1. list' = Append(list, spec) /\ file' = file /\ spec.plugin_type \in ModuleType
      BY <1>1, FileAssumption DEF Add
    <2> QED
      BY <2>1, Appended DEF ListTyped
  <1>2. CASE Write
    <2>1. IsSequence(file')
      BY <1>2, WriteFacts, SameLength DEF ListTyped
    <2> QED
      BY <1>2, <2>1, WriteFacts DEF ListTyped
  <1>3. CASE Read
    <2>1. IsSequence(list')
      BY <1>3, ReadFacts, SameLength DEF ListTyped
    <2>2. \A i \in DOMAIN list' : list'[i].plugin_type \in ModuleType
      BY <1>3, ReadFacts, TypeRead
    <2> QED
      BY <1>3, <2>1, <2>2, ReadFacts DEF ListTyped
  <1>4. CASE Edit
    BY <1>4, FileAssumption DEF Edit, ListTyped, IsSequence
  <1>5. CASE UNCHANGED <<list, file>>
    BY <1>5 DEF ListTyped
  <1> QED
    BY <1>1, <1>2, <1>3, <1>4, <1>5 DEF Next, Crash, vars

\* What is written of a spec of the list and read back is the same spec, but for
\* its stage, its input stream and the empty ones of its properties.  It is
\* valid if the spec was, and else only if the spec was invalid for its stage.
THEOREM SpecsSurvive == Spec => []Survives
  <1>1. ListTyped => Survives
    <2> SUFFICES ASSUME ListTyped, NEW i \in DOMAIN list
                 PROVE  LET spec == list[i]
                            back == FromXml(ToXml(spec))
                        IN  /\ back.plugin_name = spec.plugin_name
                            /\ back.plugin_file_path = spec.plugin_file_path
                            /\ back.plugin_description = spec.plugin_description
                            /\ back.plugin_version = spec.plugin_version
                            /\ back.plugin_type = spec.plugin_type
                            /\ back.plugin_context = {NonEmpty(p) : p \in spec.plugin_context}
                            /\ IsValid(spec) => IsValid(back)
                            /\ IsValid(back) =>
                                  \/ IsValid(spec)
                                  \/ /\ spec.plugin_stage = "ProcessingInput"
                                     /\ spec.plugin_input_stream = ""
      BY DEF Survives
    <2>1. list[i].plugin_type \in ModuleType
      BY DEF ListTyped
    <2> QED
      BY <2>1, ReadBack DEF IsValid
  <1> QED
    BY <1>1, ListInit, ListNext, PTL DEF Spec

---------------------------------------------------------------------------------
(* The controller's own file. *)

\* What toXml writes without asking whether it is there.
Whole(spec) ==
    /\ spec.plugin_name # ""
    /\ spec.plugin_file_path # ""
    /\ spec.plugin_description # ""

WholeSpecs == \A spec \in Specs : Whole(spec)

\* A file that can be read at all.
CanBeRead(f) == \A i \in DOMAIN f : Readable(f[i])

WholeFile(f) == CanBeRead(f) => \A i \in DOMAIN f : Whole(FromXml(f[i]))

WholeFiles == \A f \in HandWritten : WholeFile(f)

\* A spec with these texts, and a type, is written readably.
LEMMA WholeIsReadable ==
    ASSUME NEW spec, Whole(spec), spec.plugin_type \in ModuleType
    PROVE  Readable(ToXml(spec))
  <1>1. spec.plugin_type # ""
    BY DEF ModuleType
  <1> QED
    BY <1>1, WrittenTexts DEF Readable, Whole

\* All specs are whole, those in the list as those in the file; the controller's
\* own file is made of such specs, and the process has not ended over it.
WholeInv ==
    /\ ListTyped
    /\ \A i \in DOMAIN list : Whole(list[i])
    /\ WholeFile(file)
    /\ written => CanBeRead(file) /\ ~crashed

\* Every step keeps the specs whole.
LEMMA WholeNext == WholeSpecs /\ WholeFiles /\ WholeInv /\ [Next]_vars => WholeInv'
  <1> SUFFICES ASSUME WholeSpecs, WholeFiles, WholeInv, [Next]_vars PROVE WholeInv'
    OBVIOUS
  <1>1. ListTyped'
    BY ListNext DEF WholeInv
  <1>2. ASSUME NEW spec \in Specs, Add(spec), UNCHANGED crashed
        PROVE  WholeInv'
    <2>1. list' = Append(list, spec) /\ UNCHANGED <<file, written>> /\ Whole(spec)
      BY <1>2 DEF Add, WholeSpecs
    <2>2. \A i \in DOMAIN list' : Whole(list'[i])
      BY <2>1, Appended DEF WholeInv, ListTyped
    <2> QED
      BY <1>1, <1>2, <2>1, <2>2 DEF WholeInv
  <1>3. ASSUME Write, ~crashed, UNCHANGED crashed
        PROVE  WholeInv'
    <2>1. \A i \in DOMAIN file' : Readable(file'[i]) /\ Whole(FromXml(file'[i]))
      <3> SUFFICES ASSUME NEW i \in DOMAIN file'
                   PROVE  Readable(file'[i]) /\ Whole(FromXml(file'[i]))
        OBVIOUS
      <3>1. i \in DOMAIN list /\ file'[i] = ToXml(list[i])
        BY <1>3, WriteFacts
      <3>2. Whole(list[i]) /\ list[i].plugin_type \in ModuleType
        BY <3>1 DEF WholeInv, ListTyped
      <3> QED
        BY <3>1, <3>2, WholeIsReadable, ReadBack DEF Whole
    <2> QED
      BY <1>1, <1>3, <2>1, WriteFacts DEF WholeInv, WholeFile, CanBeRead
  <1>4. ASSUME Read, UNCHANGED crashed
        PROVE  WholeInv'
    <2>1. \A i \in DOMAIN list' : Whole(list'[i])
      BY <1>4, ReadFacts DEF WholeInv, WholeFile, CanBeRead
    <2> QED
      BY <1>1, <1>4, <2>1, ReadFacts DEF WholeInv
  <1>5. ASSUME Edit, UNCHANGED crashed
        PROVE  WholeInv'
    BY <1>1, <1>5 DEF Edit, WholeInv, WholeFiles
  <1>6. CASE Crash
    BY <1>1, <1>6 DEF Crash, WholeInv, CanBeRead
  <1>7. CASE UNCHANGED vars
    BY <1>1, <1>7 DEF vars, WholeInv
  <1> QED
    BY <1>2, <1>3, <1>4, <1>5, <1>6, <1>7 DEF Next

\* If every spec that is added, and every file somebody writes that can be read,
\* has the three texts, the controller can read every file it has written.
THEOREM OwnFileRead == WholeSpecs /\ WholeFiles /\ Spec => []WrittenCanBeRead
  <1> SUFFICES ASSUME WholeSpecs, WholeFiles PROVE Spec => []WrittenCanBeRead
    OBVIOUS
  <1>1. Init => WholeInv
    <2> SUFFICES ASSUME Init PROVE WholeInv
      OBVIOUS
    <2>1. WholeFile(file)
      BY NothingIsSequence DEF Init, WholeFiles, WholeFile
    <2>2. \A i \in DOMAIN list : FALSE
      BY NothingIsSequence DEF Init
    <2> QED
      BY <2>1, <2>2, ListInit DEF Init, WholeInv
  <1>2. WholeInv => WrittenCanBeRead
    BY DEF WholeInv, WrittenCanBeRead
  <1>3. WholeInv /\ [Next]_vars => WholeInv'
    BY WholeNext
  <1> QED
    BY <1>1, <1>2, <1>3, PTL DEF Spec
=================================================================================
