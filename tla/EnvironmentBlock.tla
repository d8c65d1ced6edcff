---------------------------- MODULE EnvironmentBlock ----------------------------
(***************************************************************************)
(* SystemProcessModule::parse_environment: the environment a child process *)
(* is started with.  The context's own entries, each named CONTEXT_<name>, *)
(* are laid over the inherited variables (if the module asks for them),    *)
(* and the result is written into a block of zero-terminated strings that  *)
(* grows as needed and ends in an empty string.                            *)
(*                                                                         *)
(* A character of the block is the string it belongs to and its place in   *)
(* it, and only the length of a string counts.  std::map iterates by name; *)
(* any order is considered here.                                           *)
(***************************************************************************)
EXTENDS Integers, Sequences

CONSTANTS
    Name,       \* names of context entries and, with a prefix, of variables
    Value,      \* values of both
    Size,       \* plain_component.size() of a variable and its value
    Chunk,      \* 256: the first allocation, and the spare room of later ones
    Nul         \* the character '\0'

Variable == {"", "CONTEXT_"} \X Name

ASSUME BlockAssumption ==
    /\ Size \in [Variable \X Value -> Nat \ {0}]
    /\ Chunk \in Nat \ {0}
    /\ Nul \notin (Variable \X Value) \X Nat     \* no string contains it

VARIABLES
    inherited,          \* GetEnvironmentStrings, each string split at its
                        \* first '=': the last value of each name
    entries,            \* context->entries()
    put_environment,    \* the context's "put environment" flag
    todo,               \* the variables the loop has not yet written
    block,              \* the bytes from result_environment on
    allocated,
    length,
    returned            \* the block is in the hands of CreateProcess

inputs == <<inherited, entries, put_environment>>
vars == <<inputs, todo, block, allocated, length, returned>>

PartialFunction(names) == UNION {[S -> Value] : S \in SUBSET names}

---------------------------------------------------------------------------------

Prefixed(n) == <<"CONTEXT_", n>>

Passed == IF put_environment THEN DOMAIN inherited ELSE {}

Overlaid == {Prefixed(n) : n \in DOMAIN entries}

\* Mutant: an inherited variable is not replaced.
ValueOfInherited(v) == IF v \in Passed THEN inherited[v] ELSE entries[v[2]]

\* environment[...] = ..., inherited variables first.
ValueOf(v) == IF v \in Overlaid THEN entries[v[2]] ELSE inherited[v]

Component(v) == <<v, ValueOf(v)>>

Text(component) == [k \in 1 .. Size[component] |-> <<component, k>>]

\* Mutant: the last byte of the allocation is forgotten.
TooSmallByOne(size) == length + size + 1 > allocated

TooSmall(size) == length + size + 1 >= allocated

Zeroed(n) == [i \in 0 .. n - 1 |-> Nul]                    \* LPTR

\* A string and its '\0' written at `at`, wherever that is: a byte outside the
\* allocation becomes part of the memory this call has touched.
Write(memory, at, text) ==
    [i \in DOMAIN memory \cup at .. at + Len(text) |->
        IF i \in at .. at + Len(text) - 1 THEN text[i - at + 1]
        ELSE IF i = at + Len(text) THEN Nul
        ELSE memory[i]]

\* A zeroed block of n bytes with the first `length` bytes of the old one.
Resized(n) == [i \in 0 .. n - 1 |-> IF i < length THEN block[i] ELSE Nul]

Init ==
    /\ inherited \in PartialFunction(Variable)
    /\ entries \in PartialFunction(Name)
    /\ put_environment \in BOOLEAN
    /\ todo = Passed \cup Overlaid
    /\ block = Zeroed(Chunk)
    /\ allocated = Chunk
    /\ length = 0
    /\ returned = FALSE

\* An iteration whose string the block has room for.
AppendString(v) ==
    LET text == Text(Component(v))
    IN  /\ ~TooSmall(Len(text))
        /\ block' = Write(block, length, text)
        /\ length' = length + Len(text) + 1
        /\ UNCHANGED allocated

\* An iteration that reallocates the block first.
GrowAndAppend(v) ==
    LET text == Text(Component(v))
    IN  /\ TooSmall(Len(text))
        /\ allocated' = allocated + Len(text) + Chunk
        /\ block' = Write(Resized(allocated'), length, text)
        /\ length' = length + Len(text) + 1

Iterate(v) ==
    /\ AppendString(v) \/ GrowAndAppend(v)
    /\ todo' = todo \ {v}
    /\ UNCHANGED <<inputs, returned>>

\* The final '\0'.
Terminate ==
    /\ todo = {}
    /\ ~returned
    /\ block' = Write(block, length, << >>)
    /\ returned' = TRUE
    /\ UNCHANGED <<inputs, todo, allocated, length>>

Next == (\E v \in todo : Iterate(v)) \/ Terminate

Spec == Init /\ [][Next]_vars

---------------------------------------------------------------------------------
(* Properties. *)

\* The state's types.  length stays below allocated, so that there is always
\* room for the '\0' that ends the block.
TypeOK ==
    /\ inherited \in PartialFunction(Variable)
    /\ entries \in PartialFunction(Name)
    /\ put_environment \in BOOLEAN
    /\ todo \subseteq Passed \cup Overlaid
    /\ allocated \in Nat
    /\ length \in 0 .. allocated - 1

\* Whatever the strings' sizes, no byte outside the current allocation is ever
\* written, neither by a string, its '\0' nor the '\0' that ends the block.
InBounds == DOMAIN block = 0 .. allocated - 1

\* The first '\0' from place i on.
EndOf(i) ==
    CHOOSE j \in i .. allocated - 1 : block[j] = Nul /\ \A k \in i .. j - 1 : block[k] # Nul

\* The strings a child finds from each place on: up to the first empty one.
StringsFrom ==
    LET from[i \in 0 .. allocated] ==
            IF i = allocated \/ block[i] = Nul THEN {}
            ELSE {[k \in 1 .. EndOf(i) - i |-> block[i + k - 1]]} \cup from[EndOf(i) + 1]
    IN  from

\* The child finds every context entry under its prefixed name, whole and with
\* the context's value even when a variable of that name was inherited; the
\* inherited variables, if they were asked for; and nothing else.
ChildSees ==
    returned =>
        StringsFrom[0] =
               {Text(<<Prefixed(n), entries[n]>>) : n \in DOMAIN entries}
          \cup {Text(<<v, inherited[v]>>) : v \in Passed \ Overlaid}
=================================================================================
