------------------------------ MODULE ProofLemmas ------------------------------
(***************************************************************************)
(* Facts about numbers and functions that the proofs about several         *)
(* components need: a finite set of places has a last one, what holds of   *)
(* each place if it holds of all behind it holds of all, and a function    *)
(* that is defined in terms of its value at a next place exists.           *)
(*                                                                         *)
(* Inductions are over sets, not predicates, and recursive functions are   *)
(* shown to exist by giving them: the value at a place is made of the      *)
(* places that can be reached from it.                                     *)
(***************************************************************************)
EXTENDS Naturals, FiniteSetTheorems, WellFoundedInduction, TLAPS

\* A non-empty set of places up to k has a last one: among the intervals
\* from each of its places to the end, one contains no other.
LEMMA LastExists ==
    ASSUME NEW k \in Nat, NEW T \in SUBSET (0 .. k), T # {}
    PROVE  \E i \in T : \A j \in T : j <= i
  <1> DEFINE Rest == {i .. k : i \in T}
  <1>1. Rest # {}
    OBVIOUS
  <1>2. Rest \subseteq FiniteSubsetsOf(Int)
    <2> SUFFICES ASSUME NEW i \in T
                 PROVE  i .. k \in FiniteSubsetsOf(Int)
      OBVIOUS
    <2>1. i \in Int
      OBVIOUS
    <2>2. i .. k \subseteq Int /\ IsFiniteSet(i .. k)
      BY <2>1, FS_Interval
    <2> QED
      BY <2>2 DEF FiniteSubsetsOf
  <1>3. PICK r \in Rest : \A q \in Rest : ~ (<<q, r>> \in StrictSubsetOrdering(Int))
    <2> HIDE DEF Rest
    <2> QED
      BY <1>1, <1>2, FS_StrictSubsetOrderingWellFounded, WFMin
  <1>4. PICK i \in T : r = i .. k
    OBVIOUS
  <1>5. ASSUME NEW j \in T, j > i
        PROVE  FALSE
    <2>1. i \in 0 .. k /\ j \in 0 .. k
      OBVIOUS
    <2>2. /\ j .. k \subseteq i .. k
          /\ j .. k # i .. k
          /\ i .. k \subseteq Int
      BY <2>1, <1>5
    <2>3. <<j .. k, i .. k>> \in StrictSubsetOrdering(Int)
      BY <2>2 DEF StrictSubsetOrdering
    <2> QED
      BY <2>3, <1>3, <1>4
  <1>6. \A j \in T : j \in Int /\ i \in Int
    OBVIOUS
  <1> QED
    BY <1>5, <1>6

\* So has one of places in a sequence.
LEMMA LastInSequence ==
    ASSUME NEW k \in Nat, NEW T \in SUBSET (1 .. k), T # {}
    PROVE  \E i \in T : \A j \in T : j <= i
  <1>1. T \in SUBSET (0 .. k)
    OBVIOUS
  <1> QED
    BY <1>1, LastExists

\* What holds of a place if it holds of all places behind it holds of every
\* place: the last exception would be none.
LEMMA FromTheEnd ==
    ASSUME NEW k \in Nat, NEW T,
           \A i \in 0 .. k : (\A j \in 0 .. k : j > i => j \in T) => i \in T
    PROVE  \A i \in 0 .. k : i \in T
  <1> DEFINE Exceptions == {i \in 0 .. k : i \notin T}
  <1> SUFFICES ASSUME Exceptions # {} PROVE FALSE
    OBVIOUS
  <1>1. PICK i \in Exceptions : \A j \in Exceptions : j <= i
    BY LastExists
  <1>2. \A j \in 0 .. k : j > i => j \in T
    BY <1>1
  <1> QED
    BY <1>1, <1>2

---------------------------------------------------------------------------------
(* Functions that are defined by recursion along `next`, a function that is *)
(* defined where the recursion goes on.                                     *)

\* The places that can be reached from x: those in every set that has x and,
\* with a place, the next one.
Reach(next, S, x) ==
    {y \in S : \A T \in SUBSET S :
        x \in T /\ (\A z \in T : z \in DOMAIN next => next[z] \in T) => y \in T}

\* From a last place nothing but it can be reached, from another what can be
\* reached from its next.
LEMMA ReachNext ==
    ASSUME NEW S, NEW next, \A z \in DOMAIN next : z \in S /\ next[z] \in S, NEW x \in S
    PROVE  /\ x \notin DOMAIN next => Reach(next, S, x) = {x}
           /\ x \in DOMAIN next => Reach(next, S, x) = {x} \cup Reach(next, S, next[x])
  <1>1. x \in Reach(next, S, x)
    BY DEF Reach
  <1>2. ASSUME x \notin DOMAIN next
        PROVE  Reach(next, S, x) = {x}
    <2>1. {x} \in SUBSET S /\ \A z \in {x} : z \in DOMAIN next => next[z] \in {x}
      BY <1>2
    <2>2. \A y \in Reach(next, S, x) : y \in {x}
      BY <2>1 DEF Reach
    <2> QED
      BY <1>1, <2>2
  <1>3. ASSUME x \in DOMAIN next
        PROVE  Reach(next, S, x) = {x} \cup Reach(next, S, next[x])
    <2> DEFINE rest == Reach(next, S, next[x])
    <2>1. next[x] \in rest /\ rest \subseteq S
      BY <1>3 DEF Reach
    <2>2. ASSUME NEW z \in rest, z \in DOMAIN next
          PROVE  next[z] \in rest
      BY <2>2 DEF Reach
    <2>3. \A y \in rest : y \in Reach(next, S, x)
      BY <1>3 DEF Reach
    <2> HIDE DEF rest
    <2>4. {x} \cup rest \in SUBSET S
      BY <2>1
    <2>5. \A z \in {x} \cup rest : z \in DOMAIN next => next[z] \in {x} \cup rest
      BY <2>1, <2>2
    <2>6. \A y \in Reach(next, S, x) : y \in {x} \cup rest
      BY <2>4, <2>5 DEF Reach
    <2>7. Reach(next, S, x) = {x} \cup rest
      BY <1>1, <2>3, <2>6
    <2> QED
      BY <2>7 DEF rest
  <1> QED
    BY <1>2, <1>3

\* What a place and its next ones have.
Collecting(S, next, g) ==
    [x \in S |-> {g[y] : y \in {z \in Reach(next, S, x) : z \in DOMAIN next}}]

\* It is the function that is defined by that recursion.
LEMMA CollectingIs ==
    ASSUME NEW S, NEW next, \A z \in DOMAIN next : z \in S /\ next[z] \in S, NEW g
    PROVE  /\ Collecting(S, next, g) = [x \in S |-> Collecting(S, next, g)[x]]
           /\ \A x \in S : Collecting(S, next, g)[x] =
                 IF x \in DOMAIN next THEN {g[x]} \cup Collecting(S, next, g)[next[x]] ELSE {}
  <1> DEFINE f == Collecting(S, next, g)
  <1>1. ASSUME NEW x \in S, x \notin DOMAIN next
        PROVE  f[x] = {}
    BY <1>1, ReachNext DEF Collecting
  <1>2. ASSUME NEW x \in S, x \in DOMAIN next
        PROVE  f[x] = {g[x]} \cup f[next[x]]
    <2>1. next[x] \in S /\ Reach(next, S, x) = {x} \cup Reach(next, S, next[x])
      BY <1>2, ReachNext
    <2> QED
      BY <1>2, <2>1 DEF Collecting
  <1>3. f = [x \in S |-> f[x]]
    BY DEF Collecting
  <1> QED
    BY <1>1, <1>2, <1>3
================================================================================
