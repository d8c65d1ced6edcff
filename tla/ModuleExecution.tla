---------------------------- MODULE ModuleExecution ----------------------------
(***************************************************************************)
(* What module_call (plugin_controller.cpp) takes a script module to be:   *)
(* it is made, its execute returns once and says whether there was a main  *)
(* to call, it is unmade before the next one is made, and nothing but a    *)
(* broken script ends the process meanwhile.  Steps Execute and            *)
(* ScriptCrash of ModuleController say the same of a run.                  *)
(***************************************************************************)

CONSTANTS
    Call,   \* the modules that are made
    Kinds   \* the kinds of script

VARIABLES
    phase,  \* how far each module has come
    kind,   \* what it was made from
    result, \* what its execute returned
    up      \* the process lives

vars == <<phase, kind, result, up>>

Init ==
    /\ phase = [m \in Call |-> "none"]
    /\ kind = [m \in Call |-> "none"]
    /\ result = [m \in Call |-> "none"]
    /\ up = TRUE

Make(m, k) ==
    /\ up /\ phase[m] = "none"
    /\ \A other \in Call : phase[other] \in {"none", "gone"}
    /\ phase' = [phase EXCEPT ![m] = "made"]
    /\ kind' = [kind EXCEPT ![m] = k]
    /\ UNCHANGED <<result, up>>

Execute(m) ==
    /\ up /\ phase[m] = "made"
    /\ kind[m] # "broken"
    /\ phase' = [phase EXCEPT ![m] = "called"]
    /\ result' = [result EXCEPT ![m] = IF kind[m] = "good" THEN "true" ELSE "false"]
    /\ UNCHANGED <<kind, up>>

\* With or without an execute.
Unmake(m) ==
    /\ up /\ phase[m] \in {"made", "called"}
    /\ phase' = [phase EXCEPT ![m] = "gone"]
    /\ UNCHANGED <<kind, result, up>>

Break(m) ==
    /\ up /\ phase[m] = "made"
    /\ kind[m] = "broken"
    /\ up' = FALSE
    /\ UNCHANGED <<phase, kind, result>>

Next ==
    \E m \in Call :
        \/ \E k \in Kinds : Make(m, k)
        \/ Execute(m)
        \/ Unmake(m)
        \/ Break(m)

Spec == Init /\ [][Next]_vars
=================================================================================
