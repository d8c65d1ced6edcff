------------------------- MODULE EnvironmentBlockProofs -------------------------
(***************************************************************************)
(* parse_environment writes no byte outside its allocation, and a child    *)
(* finds in its block exactly the strings it should, for any names,        *)
(* values, string sizes and chunk.                                         *)
(*                                                                         *)
(* InBounds is not inductive by itself: what keeps it is that length stays *)
(* below allocated (in TypeOK), which the test before each string and the  *)
(* size of each new block establish.  What the child finds follows from    *)
(* where the strings are laid: each has a place, the places follow one     *)
(* another without a gap, and behind length there are only zeros, so that  *)
(* a walk from the first place passes all others and ends.                 *)
(***************************************************************************)
EXTENDS EnvironmentBlock, ProofLemmas

SizeOf(v) == Size[Component(v)]

\* Every variable of the new environment has a value, and the text of the two
\* has the size of the C++ string: plain_component.size().
LEMMA ComponentText ==
    ASSUME TypeOK, NEW v \in Passed \cup Overlaid
    PROVE  /\ Component(v) \in Variable \X Value
           /\ SizeOf(v) \in Nat \ {0}
           /\ Len(Text(Component(v))) = SizeOf(v)
           /\ Text(Component(v)) = [k \in 1 .. SizeOf(v) |-> <<Component(v), k>>]
  <1>1. Component(v) \in Variable \X Value
    <2>1. CASE v \in Overlaid
      <3>1. PICK n \in DOMAIN entries : v = Prefixed(n)
        BY <2>1 DEF Overlaid
      <3>2. /\ n \in Name
            /\ entries[n] \in Value
        BY <3>1 DEF TypeOK, PartialFunction
      <3>3. v \in Variable /\ v[2] = n
        BY <3>1, <3>2 DEF Prefixed, Variable
      <3> QED
        BY <2>1, <3>2, <3>3 DEF Component, ValueOf
    <2>2. CASE v \notin Overlaid
      <3>1. v \in DOMAIN inherited
        BY <2>2 DEF TypeOK, Passed
      <3>2. v \in Variable /\ inherited[v] \in Value
        BY <3>1 DEF TypeOK, PartialFunction
      <3> QED
        BY <2>2, <3>2 DEF Component, ValueOf
    <2> QED
      BY <2>1, <2>2
  <1>2. SizeOf(v) \in Nat \ {0}
    BY <1>1, BlockAssumption DEF SizeOf
  <1>3. Text(Component(v)) = [k \in 1 .. SizeOf(v) |-> <<Component(v), k>>]
    BY DEF Text, SizeOf
  <1> QED
    BY <1>1, <1>2, <1>3

\* That is so of those the loop has still to write.
LEMMA PendingText ==
    ASSUME TypeOK, NEW v \in todo
    PROVE  /\ Len(Text(Component(v))) \in Nat
           /\ DOMAIN Text(Component(v)) = 1 .. Len(Text(Component(v)))
  <1>1. v \in Passed \cup Overlaid
    BY DEF TypeOK
  <1> QED
    BY <1>1, ComponentText

\* Writing a string and its '\0' inside a block of n bytes touches no other.
LEMMA WriteInside ==
    ASSUME NEW n \in Nat, NEW memory, DOMAIN memory = 0 .. n - 1,
           NEW at \in Nat, NEW text, Len(text) \in Nat, at + Len(text) < n
    PROVE  DOMAIN Write(memory, at, text) = 0 .. n - 1
  <1>1. at .. at + Len(text) \subseteq 0 .. n - 1
    OBVIOUS
  <1> QED
    BY <1>1 DEF Write

\* And leaves each byte as it was, or that of the string or its '\0'.
LEMMA WrittenBytes ==
    ASSUME NEW n \in Nat, NEW memory, DOMAIN memory = 0 .. n - 1,
           NEW at \in Nat, NEW text, Len(text) \in Nat, at + Len(text) < n,
           NEW i \in 0 .. n - 1
    PROVE  /\ i < at => Write(memory, at, text)[i] = memory[i]
           /\ i >= at /\ i < at + Len(text) => Write(memory, at, text)[i] = text[i - at + 1]
           /\ i = at + Len(text) => Write(memory, at, text)[i] = Nul
           /\ i > at + Len(text) => Write(memory, at, text)[i] = memory[i]
  BY DEF Write

\* The first block is inside its allocation.
LEMMA BlockInit == Init => TypeOK /\ InBounds
  BY BlockAssumption DEF Init, TypeOK, InBounds, Zeroed

\* An iteration of the loop keeps the bounds, with or without a new block.
LEMMA BlockIterate ==
    ASSUME TypeOK, InBounds, NEW v \in todo, Iterate(v)
    PROVE  TypeOK' /\ InBounds'
  <1> DEFINE text == Text(Component(v))
  <1>1. Len(text) \in Nat
    BY PendingText
  <1>2. allocated \in Nat /\ length \in Nat /\ length < allocated
    BY DEF TypeOK
  <1>3. UNCHANGED inputs /\ todo' \subseteq todo
    BY DEF Iterate
  <1>4. CASE AppendString(v)
    <2>1. /\ length + Len(text) + 1 < allocated
          /\ length' = length + Len(text) + 1
          /\ allocated' = allocated
          /\ block' = Write(block, length, text)
      BY <1>1, <1>2, <1>4 DEF AppendString, TooSmall
    <2> HIDE DEF text
    <2>2. length' \in 0 .. allocated' - 1
      BY <2>1, <1>1, <1>2
    <2>3. DOMAIN block' = 0 .. allocated' - 1
      BY <2>1, <1>1, <1>2, WriteInside DEF InBounds
    <2> QED
      BY <2>1, <2>2, <2>3, <1>2, <1>3
      DEF TypeOK, InBounds, inputs, Passed, Overlaid
  <1>5. CASE GrowAndAppend(v)
    <2>1. /\ length' = length + Len(text) + 1
          /\ allocated' = allocated + Len(text) + Chunk
          /\ block' = Write(Resized(allocated'), length, text)
      BY <1>5 DEF GrowAndAppend
    <2> HIDE DEF text
    <2>2. /\ allocated' \in Nat
          /\ length' \in 0 .. allocated' - 1
      BY <2>1, <1>1, <1>2, BlockAssumption
    <2>3. DOMAIN Resized(allocated') = 0 .. allocated' - 1
      BY DEF Resized
    <2>4. DOMAIN block' = 0 .. allocated' - 1
      BY <2>1, <2>2, <2>3, <1>1, <1>2, WriteInside
    <2> QED
      BY <2>2, <2>4, <1>2, <1>3
      DEF TypeOK, InBounds, inputs, Passed, Overlaid
  <1> QED
    BY <1>4, <1>5 DEF Iterate

\* So does the '\0' that ends the block.
LEMMA BlockTerminate ==
    ASSUME TypeOK, InBounds, Terminate
    PROVE  TypeOK' /\ InBounds'
  <1>1. allocated \in Nat /\ length \in Nat /\ length < allocated
    BY DEF TypeOK
  <1>2. /\ block' = Write(block, length, << >>)
        /\ UNCHANGED <<inputs, todo, allocated, length>>
    BY DEF Terminate
  <1>3. DOMAIN block' = 0 .. allocated - 1
    BY <1>1, <1>2, WriteInside, Len(<< >>) = 0 DEF InBounds
  <1> QED
    BY <1>2, <1>3 DEF TypeOK, InBounds, inputs, Passed, Overlaid

\* parse_environment never writes outside the block it has allocated.
THEOREM BlockInBounds == Spec => [](TypeOK /\ InBounds)
  <1>1. Init => TypeOK /\ InBounds
    BY BlockInit
  <1>2. TypeOK /\ InBounds /\ [Next]_vars => (TypeOK /\ InBounds)'
    <2> SUFFICES ASSUME TypeOK, InBounds, [Next]_vars
                 PROVE  TypeOK' /\ InBounds'
      OBVIOUS
    <2>1. CASE \E v \in todo : Iterate(v)
      BY <2>1, BlockIterate
    <2>2. CASE Terminate
      BY <2>2, BlockTerminate
    <2>3. CASE UNCHANGED vars
      BY <2>3 DEF vars, inputs, TypeOK, InBounds, Passed, Overlaid
    <2> QED
      BY <2>1, <2>2, <2>3 DEF Next
  <1> QED
    BY <1>1, <1>2, PTL DEF Spec

---------------------------------------------------------------------------------
(* Where the strings are. *)

\* What is written: each variable with its value.
Written == {Component(v) : v \in (Passed \cup Overlaid) \ todo}

\* A component's string, and its '\0', are at place i of the `size` bytes of b.
StringAt(b, size, c, i) ==
    /\ i + Size[c] < size
    /\ \A k \in 1 .. Size[c] : b[i + k - 1] = <<c, k>>
    /\ b[i + Size[c]] = Nul

\* Strings begin, or end, at i.
Boundary(size, C, place, i) == i = size \/ \E c \in C : place[c] = i

\* The strings are one behind the other, the first at the beginning.
Laid(b, size, C, place) ==
    /\ Boundary(size, C, place, 0)
    /\ \A c \in C : StringAt(b, size, c, place[c])
    /\ \A c \in C : Boundary(size, C, place, place[c] + Size[c] + 1)

CanBeFound(b, size, C) == \E place \in [C -> Nat] : Laid(b, size, C, place)

LayInv ==
    /\ CanBeFound(block, length, Written)
    /\ \A i \in length .. allocated - 1 : block[i] = Nul
    /\ returned => todo = {}

\* At first there are no strings.
LEMMA LayInit == Init => LayInv
  <1> SUFFICES ASSUME Init PROVE LayInv
    OBVIOUS
  <1>1. Written = {} /\ length = 0 /\ ~returned
    BY DEF Init, Written
  <1> DEFINE place == [c \in {} |-> 0]
  <1>2. place \in [Written -> Nat] /\ Laid(block, length, Written, place)
    BY <1>1 DEF Laid, Boundary
  <1>3. \A i \in length .. allocated - 1 : block[i] = Nul
    BY <1>1, BlockAssumption DEF Init, Zeroed
  <1> QED
    BY <1>1, <1>2, <1>3 DEF LayInv, CanBeFound

\* A string stays where it is in a block that has the same bytes so far.
LEMMA SameString ==
    ASSUME NEW b, NEW size \in Nat, NEW c, Size[c] \in Nat \ {0}, NEW i \in Nat,
           StringAt(b, size, c, i),
           NEW b2, \A j \in 0 .. size - 1 : b2[j] = b[j],
           NEW size2 \in Nat, size <= size2
    PROVE  StringAt(b2, size2, c, i)
  <1>1. i + Size[c] < size /\ i + Size[c] < size2
    BY DEF StringAt
  <1>2. ASSUME NEW k \in 1 .. Size[c]
        PROVE  b2[i + k - 1] = <<c, k>>
    <2>1. i + k - 1 \in 0 .. size - 1
      BY <1>1
    <2> QED
      BY <2>1 DEF StringAt
  <1>3. b2[i + Size[c]] = Nul
    <2>1. i + Size[c] \in 0 .. size - 1
      BY <1>1
    <2> QED
      BY <2>1 DEF StringAt
  <1> QED
    BY <1>1, <1>2, <1>3 DEF StringAt

\* One string more.
LEMMA LaidLonger ==
    ASSUME NEW b, NEW size \in Nat, NEW C \in SUBSET (Variable \X Value),
           CanBeFound(b, size, C),
           NEW c \in Variable \X Value, c \notin C,
           NEW b2, \A i \in 0 .. size - 1 : b2[i] = b[i],
           \A k \in 1 .. Size[c] : b2[size + k - 1] = <<c, k>>,
           b2[size + Size[c]] = Nul
    PROVE  CanBeFound(b2, size + Size[c] + 1, C \cup {c})
  <1>0. PICK place \in [C -> Nat] : Laid(b, size, C, place)
    BY DEF CanBeFound
  <1> DEFINE longer == [d \in C \cup {c} |-> IF d = c THEN size ELSE place[d]]
  <1> DEFINE size2 == size + Size[c] + 1
  <1>1. /\ longer \in [C \cup {c} -> Nat]
        /\ longer[c] = size
        /\ \A d \in C : longer[d] = place[d] /\ place[d] \in Nat
    BY <1>0
  <1>2. \A d \in C \cup {c} : Size[d] \in Nat \ {0}
    BY BlockAssumption
  <1> HIDE DEF longer
  <1>3. StringAt(b2, size2, c, size)
    BY <1>2 DEF StringAt
  <1>4. ASSUME NEW d \in C
        PROVE  StringAt(b2, size2, d, place[d])
    <2>1. /\ StringAt(b, size, d, place[d]) /\ place[d] \in Nat
          /\ Size[d] \in Nat \ {0} /\ Size[c] \in Nat \ {0}
      BY <1>0, <1>1, <1>2 DEF Laid
    <2>2. size2 \in Nat /\ size <= size2
      BY <2>1
    <2> QED
      BY <2>1, <2>2, SameString
  <1>5. ASSUME NEW i, Boundary(size, C, place, i)
        PROVE  Boundary(size2, C \cup {c}, longer, i)
    BY <1>1, <1>5 DEF Boundary
  <1>6. Boundary(size2, C \cup {c}, longer, 0)
    BY <1>0, <1>5 DEF Laid
  <1>7. ASSUME NEW d \in C \cup {c}
        PROVE  StringAt(b2, size2, d, longer[d])
    BY <1>1, <1>3, <1>4
  <1>8. ASSUME NEW d \in C \cup {c}
        PROVE  Boundary(size2, C \cup {c}, longer, longer[d] + Size[d] + 1)
    <2>1. CASE d = c
      BY <1>1, <2>1 DEF Boundary
    <2>2. CASE d \in C
      <3>1. Boundary(size, C, place, place[d] + Size[d] + 1)
        BY <1>0, <2>2 DEF Laid
      <3> QED
        BY <1>1, <1>5, <2>2, <3>1
    <2> QED
      BY <2>1, <2>2
  <1>9. Laid(b2, size2, C \cup {c}, longer)
    BY <1>6, <1>7, <1>8 DEF Laid
  <1> QED
    BY <1>1, <1>9 DEF CanBeFound

\* A new block has the old one's strings, and zeros behind them.
LEMMA ResizedBytes ==
    ASSUME NEW n \in Nat, length \in Nat
    PROVE  /\ DOMAIN Resized(n) = 0 .. n - 1
           /\ \A i \in 0 .. n - 1 : i < length => Resized(n)[i] = block[i]
           /\ \A i \in 0 .. n - 1 : i >= length => Resized(n)[i] = Nul
  BY DEF Resized

\* What an iteration makes of the block, with or without a new one.
LEMMA IteratedBytes ==
    ASSUME TypeOK, InBounds, LayInv, NEW v \in todo, Iterate(v)
    PROVE  \E n \in Nat :
              /\ allocated' = n
              /\ length' = length + SizeOf(v) + 1
              /\ length + SizeOf(v) < n
              /\ \A i \in 0 .. length - 1 : block'[i] = block[i]
              /\ \A k \in 1 .. SizeOf(v) : block'[length + k - 1] = <<Component(v), k>>
              /\ \A i \in length + SizeOf(v) .. n - 1 : block'[i] = Nul
  <1> DEFINE text == Text(Component(v))
  <1>1. /\ SizeOf(v) \in Nat \ {0} /\ Len(text) = SizeOf(v)
        /\ \A k \in 1 .. SizeOf(v) : text[k] = <<Component(v), k>>
    <2>1. v \in Passed \cup Overlaid
      BY DEF TypeOK
    <2>2. /\ SizeOf(v) \in Nat \ {0} /\ Len(text) = SizeOf(v)
          /\ text = [k \in 1 .. SizeOf(v) |-> <<Component(v), k>>]
      BY <2>1, ComponentText
    <2> QED
      BY <2>2
  <1>2. allocated \in Nat /\ length \in Nat /\ length < allocated
    BY DEF TypeOK
  <1>3. \A i \in length .. allocated - 1 : block[i] = Nul
    BY DEF LayInv
  <1>4. PICK n \in Nat : \E memory :
            /\ allocated' = n /\ length + Len(text) < n
            /\ length' = length + Len(text) + 1
            /\ block' = Write(memory, length, text)
            /\ DOMAIN memory = 0 .. n - 1
            /\ \A i \in 0 .. n - 1 : i < length => memory[i] = block[i]
            /\ \A i \in 0 .. n - 1 : i >= length => memory[i] = Nul
    <2>1. CASE AppendString(v)
      <3>1. /\ length + Len(text) + 1 < allocated
            /\ length' = length + Len(text) + 1
            /\ allocated' = allocated
            /\ block' = Write(block, length, text)
        BY <1>1, <1>2, <2>1 DEF AppendString, TooSmall
      <3> HIDE DEF text
      <3>2. /\ DOMAIN block = 0 .. allocated - 1
            /\ \A i \in 0 .. allocated - 1 : i < length => block[i] = block[i]
            /\ \A i \in 0 .. allocated - 1 : i >= length => block[i] = Nul
        BY <1>2, <1>3 DEF InBounds
      <3>3. length + Len(text) < allocated
        BY <1>1, <1>2, <3>1
      <3> QED
        BY <1>2, <3>1, <3>2, <3>3, Zenon
    <2>2. CASE GrowAndAppend(v)
      <3> DEFINE n == allocated + Len(text) + Chunk
      <3>1. /\ length' = length + Len(text) + 1
            /\ allocated' = n
            /\ block' = Write(Resized(n), length, text)
        BY <2>2 DEF GrowAndAppend
      <3> HIDE DEF text
      <3>2. n \in Nat /\ length + Len(text) < n
        BY <1>1, <1>2, BlockAssumption
      <3> HIDE DEF n
      <3>3. /\ DOMAIN Resized(n) = 0 .. n - 1
            /\ \A i \in 0 .. n - 1 : i < length => Resized(n)[i] = block[i]
            /\ \A i \in 0 .. n - 1 : i >= length => Resized(n)[i] = Nul
        BY <3>2, <1>2, ResizedBytes
      <3> QED
        BY <3>1, <3>2, <3>3, Zenon
    <2> QED
      BY <2>1, <2>2 DEF Iterate
  <1>5. PICK memory :
            /\ allocated' = n /\ length + Len(text) < n
            /\ length' = length + Len(text) + 1
            /\ block' = Write(memory, length, text)
            /\ DOMAIN memory = 0 .. n - 1
            /\ \A i \in 0 .. n - 1 : i < length => memory[i] = block[i]
            /\ \A i \in 0 .. n - 1 : i >= length => memory[i] = Nul
    BY <1>4
  <1> HIDE DEF text
  <1>6. ASSUME NEW i \in 0 .. n - 1
        PROVE  /\ i < length => block'[i] = memory[i]
               /\ i >= length /\ i < length + Len(text) => block'[i] = text[i - length + 1]
               /\ i = length + Len(text) => block'[i] = Nul
               /\ i > length + Len(text) => block'[i] = memory[i]
    <2>1. /\ i < length => Write(memory, length, text)[i] = memory[i]
          /\ i >= length /\ i < length + Len(text) =>
                Write(memory, length, text)[i] = text[i - length + 1]
          /\ i = length + Len(text) => Write(memory, length, text)[i] = Nul
          /\ i > length + Len(text) => Write(memory, length, text)[i] = memory[i]
      <3>1. /\ Len(text) \in Nat /\ length \in Nat /\ length + Len(text) < n
            /\ DOMAIN memory = 0 .. n - 1
        BY <1>1, <1>2, <1>5
      <3> QED
        BY <3>1, WrittenBytes
    <2> QED
      BY <1>5, <2>1
  <1>7. ASSUME NEW i \in 0 .. length - 1
        PROVE  block'[i] = block[i]
    <2>1. i \in 0 .. n - 1 /\ i < length
      BY <1>1, <1>2, <1>5
    <2> QED
      BY <1>5, <1>6, <2>1
  <1>8. ASSUME NEW k \in 1 .. SizeOf(v)
        PROVE  block'[length + k - 1] = <<Component(v), k>>
    <2>1. /\ length + k - 1 \in 0 .. n - 1
          /\ length + k - 1 >= length /\ length + k - 1 < length + Len(text)
          /\ (length + k - 1) - length + 1 = k
      BY <1>1, <1>2, <1>5
    <2>2. block'[length + k - 1] = text[(length + k - 1) - length + 1]
      BY <1>6, <2>1
    <2>3. text[(length + k - 1) - length + 1] = text[k]
      BY <2>1
    <2> QED
      BY <1>1, <2>2, <2>3
  <1>9. ASSUME NEW i \in length + SizeOf(v) .. n - 1
        PROVE  block'[i] = Nul
    <2>1. /\ i \in 0 .. n - 1 /\ i >= length
          /\ i = length + Len(text) \/ i > length + Len(text)
      BY <1>1, <1>2, <1>5
    <2>2. memory[i] = Nul
      BY <1>5, <2>1
    <2> QED
      BY <1>6, <2>1, <2>2
  <1> QED
    BY <1>1, <1>5, <1>7, <1>8, <1>9

\* An iteration leaves the strings where they are and writes one more.
LEMMA LayIterate ==
    ASSUME TypeOK, InBounds, LayInv, NEW v \in todo, Iterate(v)
    PROVE  LayInv'
  <1> DEFINE c == Component(v)
  <1>1. PICK n \in Nat :
            /\ allocated' = n
            /\ length' = length + SizeOf(v) + 1
            /\ length + SizeOf(v) < n
            /\ \A i \in 0 .. length - 1 : block'[i] = block[i]
            /\ \A k \in 1 .. SizeOf(v) : block'[length + k - 1] = <<Component(v), k>>
            /\ \A i \in length + SizeOf(v) .. n - 1 : block'[i] = Nul
    BY IteratedBytes
  <1>2. /\ length \in Nat /\ v \in Passed \cup Overlaid
        /\ UNCHANGED inputs /\ todo' = todo \ {v} /\ returned' = returned
    BY DEF TypeOK, Iterate
  <1>3. SizeOf(v) \in Nat \ {0} /\ SizeOf(v) = Size[c] /\ c \in Variable \X Value
    BY <1>2, ComponentText DEF SizeOf
  <1>4. Written \in SUBSET (Variable \X Value) /\ c \notin Written
    <2>1. \A w \in (Passed \cup Overlaid) \ todo : Component(w) \in Variable \X Value
      BY ComponentText
    <2>2. \A w \in (Passed \cup Overlaid) \ todo : Component(w) # c
      BY DEF Component
    <2> QED
      BY <2>1, <2>2 DEF Written
  <1>5. Written' = Written \cup {c}
    <2>1. Passed' = Passed /\ Overlaid' = Overlaid
      BY <1>2 DEF inputs, Passed, Overlaid
    <2>2. \A w : Component(w)' = Component(w)
      BY <1>2 DEF Component, ValueOf, Overlaid, inputs
    <2>3. (Passed \cup Overlaid) \ todo' = ((Passed \cup Overlaid) \ todo) \cup {v}
      BY <1>2
    <2> HIDE DEF c
    <2>4. Written' = {Component(w) : w \in (Passed \cup Overlaid) \ todo'}
      BY <2>1, <2>2 DEF Written
    <2> QED
      BY <2>3, <2>4 DEF Written, c
  <1>6. CanBeFound(block, length, Written)
    BY DEF LayInv
  <1>7. block'[length + Size[c]] = Nul
    <2>1. length + SizeOf(v) \in length + SizeOf(v) .. n - 1
      BY <1>1, <1>2, <1>3
    <2> QED
      BY <1>1, <1>3, <2>1
  <1>8. CanBeFound(block', length + Size[c] + 1, Written \cup {c})
    <2>1. /\ \A i \in 0 .. length - 1 : block'[i] = block[i]
          /\ \A k \in 1 .. Size[c] : block'[length + k - 1] = <<c, k>>
      BY <1>1, <1>3
    <2> HIDE DEF c
    <2> QED
      BY <1>2, <1>3, <1>4, <1>6, <1>7, <2>1, LaidLonger
  <1>9. CanBeFound(block', length', Written')
    BY <1>1, <1>3, <1>5, <1>8
  <1>10. \A i \in length' .. allocated' - 1 : block'[i] = Nul
    <2>1. \A i \in length + SizeOf(v) + 1 .. n - 1 : block'[i] = Nul
      BY <1>1, <1>2, <1>3
    <2> QED
      BY <1>1, <2>1
  <1>11. ~returned'
    BY <1>2 DEF LayInv
  <1> QED
    BY <1>9, <1>10, <1>11 DEF LayInv, CanBeFound, Laid, StringAt, Boundary

\* The '\0' that ends the block is there already.
LEMMA LayTerminate ==
    ASSUME TypeOK, InBounds, LayInv, Terminate
    PROVE  LayInv'
  <1>1. /\ length \in Nat /\ allocated \in Nat /\ length < allocated
        /\ DOMAIN block = 0 .. allocated - 1 /\ block[length] = Nul
    BY DEF TypeOK, InBounds, LayInv
  <1>2. /\ todo = {} /\ returned' /\ block' = Write(block, length, << >>)
        /\ UNCHANGED <<inputs, todo, allocated, length>>
    BY DEF Terminate
  <1>3. Len(<< >>) = 0
    OBVIOUS
  <1>4. \A i \in 0 .. allocated - 1 : block'[i] = block[i]
    BY <1>1, <1>2, <1>3 DEF Write
  <1>5. Written' = Written
    BY <1>2 DEF Written, Component, ValueOf, Passed, Overlaid, inputs
  <1>6. CanBeFound(block', length, Written)
    <2>1. PICK place \in [Written -> Nat] : Laid(block, length, Written, place)
      BY DEF LayInv, CanBeFound
    <2>2. \A i \in 0 .. length - 1 : block'[i] = block[i]
      BY <1>1, <1>4
    <2>3. ASSUME NEW c \in Written
          PROVE  StringAt(block', length, c, place[c])
      <3>1. Size[c] \in Nat \ {0} /\ place[c] \in Nat /\ StringAt(block, length, c, place[c])
        BY <2>1, ComponentText DEF Written, SizeOf, TypeOK, Laid
      <3>2. length \in Nat /\ length <= length
        BY <1>1
      <3> QED
        BY <2>2, <3>1, <3>2, SameString
    <2> QED
      BY <2>1, <2>3 DEF Laid, CanBeFound
  <1>7. \A i \in length .. allocated - 1 : block'[i] = Nul
    <2>1. \A i \in length .. allocated - 1 : i \in 0 .. allocated - 1 /\ block[i] = Nul
      BY <1>1 DEF LayInv
    <2> QED
      BY <1>4, <2>1
  <1>8. CanBeFound(block', length', Written')
    BY <1>2, <1>5, <1>6
  <1> QED
    BY <1>2, <1>7, <1>8 DEF LayInv, CanBeFound, Laid, StringAt, Boundary

---------------------------------------------------------------------------------
(* What the child finds. *)

\* Every string ends, as there are zeros at the end of the block.
LEMMA EndFacts ==
    ASSUME TypeOK, LayInv, NEW i \in 0 .. allocated - 1
    PROVE  /\ EndOf(i) \in i .. allocated - 1
           /\ block[EndOf(i)] = Nul
           /\ \A k \in i .. EndOf(i) - 1 : block[k] # Nul
  <1> DEFINE IsEnd(h, j) == block[j] = Nul /\ \A k \in h .. j - 1 : block[k] # Nul
  <1> DEFINE T == {h \in 0 .. allocated - 1 : \E j \in h .. allocated - 1 : IsEnd(h, j)}
  <1>1. allocated - 1 \in Nat /\ block[allocated - 1] = Nul
    BY DEF TypeOK, LayInv
  <1>2. ASSUME NEW h \in 0 .. allocated - 1, \A j \in 0 .. allocated - 1 : j > h => j \in T
        PROVE  h \in T
    <2>1. CASE block[h] = Nul
      <3>1. IsEnd(h, h) /\ h \in h .. allocated - 1
        BY <1>1, <2>1
      <3> QED
        BY <3>1
    <2>2. CASE block[h] # Nul
      <3>1. h + 1 \in 0 .. allocated - 1 /\ h + 1 > h
        BY <1>1, <2>2
      <3>2. h + 1 \in T
        BY <1>2, <3>1
      <3>3. PICK j \in h + 1 .. allocated - 1 : IsEnd(h + 1, j)
        BY <3>2
      <3>4. \A k \in h .. j - 1 : k = h \/ k \in h + 1 .. j - 1
        BY <1>1
      <3>5. IsEnd(h, j) /\ j \in h .. allocated - 1
        BY <1>1, <2>2, <3>3, <3>4
      <3> QED
        BY <3>5
    <2> QED
      BY <2>1, <2>2
  <1>3. i \in T
    <2> HIDE DEF T
    <2> QED
      BY <1>1, <1>2, FromTheEnd
  <1>4. \E j \in i .. allocated - 1 : block[j] = Nul /\ \A k \in i .. j - 1 : block[k] # Nul
    BY <1>3
  <1> QED
    BY <1>4, Zenon DEF EndOf

\* The strings from a place on are the one there and those behind it.
LEMMA StringsFromIs ==
    ASSUME TypeOK, LayInv, NEW i \in 0 .. allocated
    PROVE  StringsFrom[i] =
              IF i = allocated \/ block[i] = Nul THEN {}
              ELSE {[k \in 1 .. EndOf(i) - i |-> block[i + k - 1]]} \cup StringsFrom[EndOf(i) + 1]
  <1> DEFINE S == 0 .. allocated
  <1> DEFINE next == [h \in {j \in S : ~ (j = allocated \/ block[j] = Nul)} |-> EndOf(h) + 1]
  <1> DEFINE g == [h \in S |-> [k \in 1 .. EndOf(h) - h |-> block[h + k - 1]]]
  <1> DEFINE f == Collecting(S, next, g)
  <1> DEFINE from == CHOOSE e : e = [h \in S |->
            IF h = allocated \/ block[h] = Nul THEN {}
            ELSE {[k \in 1 .. EndOf(h) - h |-> block[h + k - 1]]} \cup e[EndOf(h) + 1]]
  <1>1. ASSUME NEW h \in DOMAIN next
        PROVE  h \in S /\ next[h] \in S
    <2>1. allocated \in Nat /\ h \in 0 .. allocated - 1
      BY DEF TypeOK
    <2>2. EndOf(h) \in h .. allocated - 1
      BY <2>1, EndFacts
    <2>3. EndOf(h) + 1 \in S
      BY <2>1, <2>2
    <2> QED
      BY <2>1, <2>3
  <1>2. /\ f = [h \in S |-> f[h]]
        /\ \A h \in S : f[h] = IF h \in DOMAIN next THEN {g[h]} \cup f[next[h]] ELSE {}
    <2> HIDE DEF next, g, S
    <2> QED
      BY <1>1, CollectingIs
  <1>3. f = [h \in S |->
            IF h = allocated \/ block[h] = Nul THEN {}
            ELSE {[k \in 1 .. EndOf(h) - h |-> block[h + k - 1]]} \cup f[EndOf(h) + 1]]
    <2> HIDE DEF f
    <2>1. ASSUME NEW h \in S
          PROVE  f[h] = IF h = allocated \/ block[h] = Nul THEN {}
                        ELSE {[k \in 1 .. EndOf(h) - h |-> block[h + k - 1]]} \cup f[EndOf(h) + 1]
      <3>1. CASE h \in DOMAIN next
        <4>1. f[h] = {g[h]} \cup f[next[h]]
          BY <1>2, <3>1
        <4>2. next[h] = EndOf(h) + 1 /\ ~ (h = allocated \/ block[h] = Nul)
          BY <3>1
        <4>3. g[h] = [k \in 1 .. EndOf(h) - h |-> block[h + k - 1]]
          OBVIOUS
        <4> HIDE DEF next, g, S
        <4> QED
          BY <4>1, <4>2, <4>3
      <3>2. CASE h \notin DOMAIN next
        BY <1>2, <3>2
      <3> QED
        BY <3>1, <3>2
    <2> HIDE DEF next, g, S
    <2> QED
      BY <1>2, <2>1
  <1> HIDE DEF f
  <1>4. from = [h \in S |->
            IF h = allocated \/ block[h] = Nul THEN {}
            ELSE {[k \in 1 .. EndOf(h) - h |-> block[h + k - 1]]} \cup from[EndOf(h) + 1]]
    BY <1>3
  <1>5. StringsFrom = from
    BY DEF StringsFrom
  <1> HIDE DEF from
  <1> QED
    BY <1>4, <1>5

\* Where strings begin or end, those that are found are those that are laid
\* from there on.
LEMMA Walk ==
    ASSUME TypeOK, LayInv, NEW place \in [Written -> Nat], Laid(block, length, Written, place)
    PROVE  \A s \in 0 .. length : Boundary(length, Written, place, s) =>
              StringsFrom[s] = {Text(c) : c \in {d \in Written : place[d] >= s}}
  <1> DEFINE Rest(s) == {d \in Written : place[d] >= s}
  <1> DEFINE T == {s \in 0 .. length : Boundary(length, Written, place, s) =>
                      StringsFrom[s] = {Text(c) : c \in Rest(s)}}
  <1>1. /\ length \in Nat /\ allocated \in Nat /\ length < allocated
        /\ block[length] = Nul
    BY DEF TypeOK, LayInv
  <1>2. ASSUME NEW c \in Written
        PROVE  /\ c \in Variable \X Value /\ Size[c] \in Nat \ {0} /\ place[c] \in Nat
               /\ place[c] + Size[c] < length
               /\ \A k \in 1 .. Size[c] : block[place[c] + k - 1] = <<c, k>>
               /\ block[place[c] + Size[c]] = Nul
               /\ Boundary(length, Written, place, place[c] + Size[c] + 1)
               /\ \A k \in 1 .. Size[c] : <<c, k>> # Nul
               /\ Text(c) = [k \in 1 .. Size[c] |-> <<c, k>>]
    <2>1. c \in Variable \X Value
      BY ComponentText DEF Written
    <2>2. Size[c] \in Nat \ {0} /\ Nul \notin (Variable \X Value) \X Nat
      BY <2>1, BlockAssumption
    <2>3. \A k \in 1 .. Size[c] : <<c, k>> \in (Variable \X Value) \X Nat
      BY <2>1, <2>2
    <2> QED
      BY <2>1, <2>2, <2>3 DEF Laid, StringAt, Text
  <1>3. ASSUME NEW s \in 0 .. length, \A j \in 0 .. length : j > s => j \in T,
               Boundary(length, Written, place, s)
        PROVE  StringsFrom[s] = {Text(c) : c \in Rest(s)}
    <2>1. CASE s = length
      <3>1. Rest(s) = {}
        BY <1>1, <1>2, <2>1
      <3>2. StringsFrom[s] = {}
        <4>1. s \in 0 .. allocated /\ block[s] = Nul
          BY <1>1, <2>1
        <4> QED
          BY <4>1, StringsFromIs
      <3> QED
        BY <3>1, <3>2
    <2>2. CASE \E c \in Written : place[c] = s
      <3>1. PICK c \in Written : place[c] = s
        BY <2>2
      <3> DEFINE end == s + Size[c]
      <3>2. /\ Size[c] \in Nat \ {0} /\ end \in s .. allocated - 1 /\ end < length
            /\ end + 1 \in 0 .. length /\ end + 1 > s /\ s \in 0 .. allocated - 1
        BY <1>1, <1>2, <3>1
      <3>3. \A k \in s .. end - 1 : k - s + 1 \in 1 .. Size[c] /\ k = s + (k - s + 1) - 1
        BY <3>2
      <3>4. \A k \in s .. end - 1 : block[k] = <<c, k - s + 1>> /\ block[k] # Nul
        <4> SUFFICES ASSUME NEW k \in s .. end - 1
                     PROVE  block[k] = <<c, k - s + 1>> /\ block[k] # Nul
          OBVIOUS
        <4>1. k - s + 1 \in 1 .. Size[c] /\ k = s + (k - s + 1) - 1
          BY <3>3
        <4>2. /\ block[place[c] + (k - s + 1) - 1] = <<c, k - s + 1>>
              /\ <<c, k - s + 1>> # Nul
          BY <1>2, <4>1
        <4> QED
          BY <3>1, <4>1, <4>2
      <3>5. block[end] = Nul
        BY <1>2, <3>1
      <3>6. EndOf(s) = end
        <4>1. /\ EndOf(s) \in s .. allocated - 1
              /\ block[EndOf(s)] = Nul
              /\ \A k \in s .. EndOf(s) - 1 : block[k] # Nul
          BY <3>2, EndFacts
        <4>2. EndOf(s) < end => FALSE
          BY <3>2, <3>4, <4>1
        <4>3. EndOf(s) > end => FALSE
          BY <3>2, <3>5, <4>1
        <4> QED
          BY <3>2, <4>1, <4>2, <4>3
      <3>7. [k \in 1 .. EndOf(s) - s |-> block[s + k - 1]] = Text(c)
        <4>1. EndOf(s) - s = Size[c]
          BY <3>2, <3>6
        <4>2. \A k \in 1 .. Size[c] : block[s + k - 1] = <<c, k>>
          BY <1>2, <3>1
        <4> QED
          BY <1>2, <4>1, <4>2
      <3>8. StringsFrom[s] = {Text(c)} \cup StringsFrom[end + 1]
        <4>1. s # allocated /\ block[s] # Nul /\ s \in 0 .. allocated
          BY <1>1, <3>2, <3>4
        <4> QED
          BY <3>6, <3>7, <4>1, StringsFromIs
      <3>9. StringsFrom[end + 1] = {Text(d) : d \in Rest(end + 1)}
        <4>1. Boundary(length, Written, place, end + 1)
          BY <1>2, <3>1
        <4> QED
          BY <1>3, <3>2, <4>1
      <3>10. Rest(s) = {c} \cup Rest(end + 1)
        <4>1. ASSUME NEW d \in Rest(s), d # c
              PROVE  place[d] >= end + 1
          <5>1. place[d] \in Nat /\ place[d] >= s /\ block[place[d]] = <<d, 1>> /\ <<d, 1>> # Nul
            BY <1>2
          <5>2. place[d] # end
            BY <3>5, <5>1
          <5>3. ASSUME place[d] \in s .. end - 1
                PROVE  FALSE
            <6>1. block[place[d]] = <<c, place[d] - s + 1>>
              BY <3>4, <5>3
            <6> QED
              BY <4>1, <5>1, <6>1
          <5> QED
            BY <3>2, <5>1, <5>2, <5>3
        <4>2. \A d \in Rest(s) : d = c \/ d \in Rest(end + 1)
          BY <4>1
        <4>3. c \in Rest(s) /\ \A d \in Rest(end + 1) : d \in Rest(s)
          BY <1>2, <3>1, <3>2
        <4> HIDE DEF Rest
        <4> QED
          BY <4>2, <4>3
      <3> HIDE DEF Rest, end
      <3> QED
        BY <3>8, <3>9, <3>10
    <2> QED
      BY <1>3, <2>1, <2>2 DEF Boundary
  <1>4. \A s \in 0 .. length : s \in T
    <2>1. ASSUME NEW s \in 0 .. length, \A j \in 0 .. length : j > s => j \in T
          PROVE  s \in T
      BY <1>3, <2>1
    <2> HIDE DEF T
    <2> QED
      BY <1>1, <2>1, FromTheEnd
  <1> QED
    BY <1>4

\* A block that is returned has the strings of all variables.
LEMMA ReturnedBlock == TypeOK /\ LayInv => ChildSees
  <1> SUFFICES ASSUME TypeOK, LayInv, returned
               PROVE  StringsFrom[0] =
                             {Text(<<Prefixed(n), entries[n]>>) : n \in DOMAIN entries}
                        \cup {Text(<<v, inherited[v]>>) : v \in Passed \ Overlaid}
    BY DEF ChildSees
  <1>1. PICK place \in [Written -> Nat] : Laid(block, length, Written, place)
    BY DEF LayInv, CanBeFound
  <1>2. StringsFrom[0] = {Text(c) : c \in {d \in Written : place[d] >= 0}}
    <2>1. 0 \in 0 .. length /\ Boundary(length, Written, place, 0)
      BY <1>1 DEF Laid, TypeOK
    <2> QED
      BY <1>1, <2>1, Walk
  <1>3. {d \in Written : place[d] >= 0} = Written
    BY <1>1
  <1>4. todo = {}
    BY DEF LayInv
  <1>5. \A n \in DOMAIN entries : Component(Prefixed(n)) = <<Prefixed(n), entries[n]>>
    BY DEF Component, ValueOf, Overlaid, Prefixed
  <1>6. \A v \in Passed \ Overlaid : Component(v) = <<v, inherited[v]>>
    BY DEF Component, ValueOf
  <1>7. Written = {<<Prefixed(n), entries[n]>> : n \in DOMAIN entries}
                    \cup {<<v, inherited[v]>> : v \in Passed \ Overlaid}
    <2>1. \A v \in Passed \cup Overlaid :
             \/ \E n \in DOMAIN entries : Component(v) = <<Prefixed(n), entries[n]>>
             \/ v \in Passed \ Overlaid /\ Component(v) = <<v, inherited[v]>>
      BY <1>5, <1>6 DEF Overlaid
    <2>2. \A n \in DOMAIN entries : Prefixed(n) \in Overlaid
      BY DEF Overlaid
    <2> QED
      BY <1>4, <1>5, <1>6, <2>1, <2>2 DEF Written
  <1> QED
    BY <1>2, <1>3, <1>7

\* The child of a program finds every context entry under its prefixed name,
\* whole and with the context's value, the inherited variables if they were
\* asked for, and nothing else.
THEOREM EnvironmentComplete == Spec => []ChildSees
  <1>1. TypeOK /\ InBounds /\ LayInv /\ [Next]_vars => (TypeOK /\ InBounds /\ LayInv)'
    <2> SUFFICES ASSUME TypeOK, InBounds, LayInv, [Next]_vars
                 PROVE  TypeOK' /\ InBounds' /\ LayInv'
      OBVIOUS
    <2>1. CASE \E v \in todo : Iterate(v)
      BY <2>1, BlockIterate, LayIterate
    <2>2. CASE Terminate
      BY <2>2, BlockTerminate, LayTerminate
    <2>3. CASE UNCHANGED vars
      <3>1. TypeOK' /\ InBounds'
        BY <2>3 DEF vars, inputs, TypeOK, InBounds, Passed, Overlaid
      <3>2. Written' = Written
        BY <2>3 DEF vars, inputs, Written, Component, ValueOf, Passed, Overlaid
      <3>3. LayInv'
        BY <2>3, <3>2 DEF vars, LayInv, CanBeFound, Laid, StringAt, Boundary
      <3> QED
        BY <3>1, <3>3
    <2> QED
      BY <2>1, <2>2, <2>3 DEF Next
  <1> QED
    BY <1>1, BlockInit, LayInit, ReturnedBlock, PTL DEF Spec
=================================================================================
